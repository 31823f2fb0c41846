---- MODULE Regenerate ----
(***************************************************************************)
(* cmd/regenerate-parse: the main goroutine, the workers it starts for     *)
(* every script, the pool of runners they share, and the two files it      *)
(* leaves for a script: the corpus and, next to it, the metadata with the  *)
(* cases still to do. The program may be killed at any step and is then    *)
(* run again; between two runs the parser's tests strike passing cases off *)
(* the metadata (TestParse with -check-parse).                             *)
(***************************************************************************)
EXTENDS Artifacts, Runner, FiniteSets

CONSTANTS Scripts,          \* the test scripts, in sorted order
          Releases,         \* for each one, script -> the cases tclextract finds
          Unrepresentable,  \* cases whose SQL collides with the file format
          OldCase,          \* a case of an earlier release of SQLite
          JobCounts,        \* values of -j
          MaxRuns, MaxExits

ToSet(s)  == {s[n] : n \in DOMAIN s}
Main      == 0
Case      == {OldCase} \cup UNION {UNION {ToSet(x[s]) : s \in ToSet(Scripts)} : x \in Releases}

(* Every worker has a number and every runner too. *)
ASSUME JobsAssumption == JobCounts \subseteq Nat /\ \A j \in JobCounts : 1 .. j \subseteq Runners

ASSUME CasesAssumption ==
  /\ \A x \in Releases : \A s \in ToSet(Scripts) : x[s] \in Seq(Case)
  /\ \A c \in Case : Kinds(c) \in Seq(LineKinds)
  /\ OldCase \notin Unrepresentable /\ Genuine(Lines(OldCase))

(* The test scripts and fuzzdata1.db, by which TestScripts knows that they *)
(* are there, come in the source archive, and nothing else does.           *)
ASSUME ArchivesAssumption ==
  /\ Main \in Procs
  /\ {"amalgamation", "src"} \subseteq DOMAIN Contents
  /\ \A a \in DOMAIN Contents : Contents[a] \in Seq(Unpacked)
  /\ "sqlite3.c" \in ToSet(Contents["amalgamation"])
  /\ "fuzzdata1.db" \in ToSet(Contents["src"])
  /\ Scripts \in Seq(ToSet(Contents["src"]))
  /\ \A a \in DOMAIN Contents \ {"src"} : ToSet(Contents[a]) \cap ToSet(Contents["src"]) = {}

VARIABLES
  release,   \* what the pinned release extracts to
  pc,        \* where the main goroutine is
  jobs,      \* -j
  names,     \* scripts to do, as places in Scripts
  idx,       \* the one being done
  extracted, \* its cases
  prevCases, prevTodo, \* the snapshot of its files
  sent,      \* number of cases sent to the workers
  worker,    \* worker -> where it is, its case and its runner
  pool,      \* the channel of free runners
  cases,     \* number of a case -> what Run returned for it
  firstErr,  \* some Run has failed
  corpus,    \* script -> its corpus file
  todo,      \* script -> its metadata file
  exit,      \* how the last run ended
  passed,    \* script -> the cases of its corpus that have passed a test
  broken,    \* scripts that lost one of their two files to a crash
  cut,       \* unpacking the test scripts was interrupted
  runs, exits

memory == <<names, idx, extracted, prevCases, prevTodo, sent, worker, pool, cases, firstErr>>
files  == <<corpus, todo>>
past   == <<passed, broken, cut>>
vars   == <<zip, file, bin, at, release, oracle, pc, jobs, memory, files, exit, past, runs, exits>>

Todo(c)   == [state |-> "whole", cases |-> c]
NoCorpus  == [state |-> "none", cases |-> <<>>]
NoTodo    == Todo({})
Jobs      == 1 .. jobs
Away      == [pc |-> "done", i |-> 0, r |-> 0]

(* The corpus may hold cases of an earlier run, some of them passing, and  *)
(* all of them such that the format can represent what the oracle said.    *)
FirstCase(s) ==
  { c \in {release[s][n] : n \in DOMAIN release[s] \cap {1}} :
    c \notin Unrepresentable /\ Genuine(Lines(c)) }

InitialFiles(s) ==
  {[corpus |-> NoCorpus, todo |-> NoTodo]} \cup
  {[corpus |-> [state |-> "whole", cases |-> [c \in {OldCase} \cup FirstCase(s) |-> Lines(c)]],
    todo |-> Todo(t)] : t \in {{}, FirstCase(s)}}

Init ==
  /\ release \in Releases
  /\ NothingCached
  /\ at = [p \in Procs |-> Idle]
  /\ oracle = [r \in Runners |-> NoProcess]
  /\ pc = "off"
  /\ jobs \in JobCounts
  /\ names = {} /\ idx = 0 /\ extracted = <<>> /\ prevCases = {} /\ prevTodo = {}
  /\ sent = 0 /\ worker = [w \in Runners |-> Away] /\ pool = <<>> /\ cases = <<>>
  /\ firstErr = FALSE
  /\ \E was \in InitialFiles(Scripts[1]) :
       /\ corpus = [s \in ToSet(Scripts) |-> IF s = Scripts[1] THEN was.corpus ELSE NoCorpus]
       /\ todo = [s \in ToSet(Scripts) |-> IF s = Scripts[1] THEN was.todo ELSE NoTodo]
       /\ passed = [s \in ToSet(Scripts) |->
                      IF s = Scripts[1] THEN DOMAIN was.corpus.cases \ was.todo.cases ELSE {}]
  /\ exit = "none"
  /\ broken = {}
  /\ cut = FALSE
  /\ runs = 0
  /\ exits = 0

---------------------------------------------------------------------------
(* The main goroutine.                                                     *)

Launch ==
  /\ pc = "off"
  /\ runs < MaxRuns
  /\ runs' = runs + 1
  /\ pc' = "oracle"
  /\ exit' = "none"
  /\ CallOracle(Main)
  /\ UNCHANGED <<disk, release, oracle, jobs, memory, files, past, exits>>

Ends(how) ==
  /\ pc' = "off"
  /\ exit' = how
  /\ at' = [p \in Procs |-> Idle]
  /\ oracle' = [r \in Runners |-> NoProcess]
  /\ names' = {} /\ idx' = 0 /\ extracted' = <<>> /\ prevCases' = {} /\ prevTodo' = {}
  /\ sent' = 0 /\ worker' = [w \in Runners |-> Away] /\ pool' = <<>> /\ cases' = <<>>
  /\ firstErr' = FALSE

(* fatal, or the end of main: the oracles end with their pipes.            *)
Fatal == Ends("fatal") /\ UNCHANGED <<disk, release, jobs, files, past, runs, exits>>

Artifact ==
  /\ pc \in {"oracle", "scripts"}
  /\ ArtifactStep(Main)
  /\ UNCHANGED <<release, oracle, pc, jobs, memory, files, exit, past, runs, exits>>

OracleBuilt ==
  /\ pc = "oracle"
  /\ at[Main] = Ready
  /\ CallTestScripts(Main)
  /\ pc' = "scripts"
  /\ UNCHANGED <<disk, release, oracle, jobs, memory, files, exit, past, runs, exits>>

ArtifactError == pc \in {"oracle", "scripts"} /\ at[Main] = Failed /\ Fatal

(* allScripts, and the snapshot of the first script.                       *)
Present(s) == file[s] # "none"

AllScripts ==
  /\ pc = "scripts"
  /\ at[Main] = Ready
  /\ names' = {n \in DOMAIN Scripts : Present(Scripts[n])}
  /\ pc' = "pool"
  /\ UNCHANGED <<disk, at, release, oracle, jobs, idx, extracted, prevCases, prevTodo, sent, worker,
                 pool, cases, firstErr, files, exit, past, runs, exits>>

(* The place of the next script to do, or the end.                         *)
After(i) == CHOOSE j \in names \cup {Len(Scripts) + 1} :
              j > i /\ \A k \in names : k > i => j <= k

(* newPool: a torn binary does not start, or ends at once.                 *)
NewPool ==
  /\ pc = "pool"
  /\ pc' = "file"
  /\ oracle' = [r \in Runners |-> IF r \notin Jobs THEN NoProcess
                                  ELSE Process(IF bin = "good" THEN "alive" ELSE "dead")]
  /\ pool' = [n \in Jobs |-> n]
  /\ idx' = After(0)
  /\ UNCHANGED <<disk, at, release, jobs, names, extracted, prevCases, prevTodo, sent, worker, cases,
                 firstErr, files, exit, past, runs, exits>>

NotExecutable == pc = "pool" /\ bin # "good" /\ jobs > 0 /\ Fatal

Name == Scripts[idx]

(* A script that was unpacked in part has some of its cases.               *)
Found(s) == IF file[s] = "good" THEN release[s] ELSE SubSeq(release[s], 1, Len(release[s]) - 1)

Snapshot ==
  /\ pc = "file"
  /\ idx \in names
  /\ todo[Name].state = "whole"
  /\ prevCases' = DOMAIN corpus[Name].cases
  /\ prevTodo' = todo[Name].cases
  /\ extracted' = Found(Name)
  /\ sent' = 0
  /\ cases' = [n \in DOMAIN Found(Name) |-> <<>>]
  /\ firstErr' = FALSE
  /\ worker' = [w \in Runners |-> IF w \in Jobs THEN [Away EXCEPT !.pc = "take"] ELSE Away]
  /\ pc' = "send"
  /\ UNCHANGED <<disk, at, release, oracle, jobs, names, idx, pool, files, exit, past, runs, exits>>

MetadataError == pc = "file" /\ idx \in names /\ todo[Name].state = "torn" /\ Fatal

MainReturns ==
  /\ pc = "file"
  /\ idx \notin names
  /\ Ends("ok")
  /\ UNCHANGED <<disk, release, jobs, files, past, runs, exits>>

(* Mutant of Send: one number too many.                                    *)
SendPast(w) ==
  /\ pc = "send"
  /\ sent <= Len(extracted)
  /\ worker[w].pc = "receive"
  /\ sent' = sent + 1
  /\ worker' = [worker EXCEPT ![w].pc = "run", ![w].i = sent + 1]
  /\ UNCHANGED <<disk, at, release, oracle, pc, jobs, names, idx, extracted, prevCases, prevTodo, pool,
                 cases, firstErr, files, exit, past, runs, exits>>

(* The send on the unbuffered channel waits for a worker that receives.    *)
Send(w) ==
  /\ pc = "send"
  /\ sent < Len(extracted)
  /\ worker[w].pc = "receive"
  /\ sent' = sent + 1
  /\ worker' = [worker EXCEPT ![w].pc = "run", ![w].i = sent + 1]
  /\ UNCHANGED <<disk, at, release, oracle, pc, jobs, names, idx, extracted, prevCases, prevTodo, pool,
                 cases, firstErr, files, exit, past, runs, exits>>

(* With no goroutine left to receive, the runtime ends the program.        *)
AllAsleep == pc = "send" /\ sent < Len(extracted) /\ Jobs = {} /\ Fatal

CloseWork ==
  /\ pc = "send"
  /\ sent = Len(extracted)
  /\ pc' = "wait"
  /\ UNCHANGED <<disk, at, release, oracle, jobs, memory, files, exit, past, runs, exits>>

Waited == pc = "wait" /\ \A w \in Jobs : worker[w].pc = "done"

(* The cases the format can represent.                                     *)
Kept ==
  {n \in DOMAIN extracted : extracted[n] \notin Unrepresentable /\ ~MultiLine(cases[n])}

RunError == Waited /\ firstErr /\ Fatal

Written == [c \in {extracted[n] : n \in Kept} |->
              cases[CHOOSE n \in Kept : extracted[n] = c]]

(* What a case has passed is forgotten when it leaves the corpus.          *)
Keeps(c) == passed' = [passed EXCEPT ![Name] = @ \cap c]

(* Mutant of WriteCorpus: an error does not stop it.                       *)
WriteCorpusAnyway ==
  /\ Waited
  /\ Kept # {}
  /\ corpus' = [corpus EXCEPT ![Name] = [state |-> "whole", cases |-> Written]]
  /\ Keeps(DOMAIN Written)
  /\ pc' = "metadata"
  /\ UNCHANGED <<disk, at, release, oracle, jobs, memory, todo, exit, broken, cut, runs, exits>>

WriteCorpus ==
  /\ Waited
  /\ ~firstErr
  /\ Kept # {}
  /\ corpus' = [corpus EXCEPT ![Name] = [state |-> "whole", cases |-> Written]]
  /\ Keeps(DOMAIN Written)
  /\ pc' = "metadata"
  /\ UNCHANGED <<disk, at, release, oracle, jobs, memory, todo, exit, broken, cut, runs, exits>>

(* Mutant of Merged: the previous corpus is not asked.                     *)
MergedByMetadata == prevTodo \cap DOMAIN corpus[Name].cases

(* mergeMetadata: new cases start as todo, the others keep their state.    *)
Merged == {c \in DOMAIN corpus[Name].cases : c \in prevTodo \/ c \notin prevCases}

NextFileName == idx' = After(idx) /\ pc' = "file"

WriteMetadata ==
  /\ pc = "metadata"
  /\ todo' = [todo EXCEPT ![Name] = Todo(Merged)]
  /\ NextFileName
  /\ UNCHANGED <<disk, at, release, oracle, jobs, names, extracted, prevCases, prevTodo, sent, worker,
                 pool, cases, firstErr, corpus, exit, past, runs, exits>>

(* Mutant of RemoveCorpus: a stale corpus is left where it is.             *)
RemoveNothing ==
  /\ Waited
  /\ ~firstErr
  /\ Kept = {}
  /\ pc' = "remove"
  /\ UNCHANGED <<disk, at, release, oracle, jobs, memory, files, exit, past, runs, exits>>

RemoveCorpus ==
  /\ Waited
  /\ ~firstErr
  /\ Kept = {}
  /\ corpus' = [corpus EXCEPT ![Name] = NoCorpus]
  /\ Keeps({})
  /\ pc' = "remove"
  /\ UNCHANGED <<disk, at, release, oracle, jobs, memory, todo, exit, broken, cut, runs, exits>>

RemoveMetadata ==
  /\ pc = "remove"
  /\ todo' = [todo EXCEPT ![Name] = NoTodo]
  /\ NextFileName
  /\ UNCHANGED <<disk, at, release, oracle, jobs, names, extracted, prevCases, prevTodo, sent, worker,
                 pool, cases, firstErr, corpus, exit, past, runs, exits>>

---------------------------------------------------------------------------
(* A worker: it takes a runner, and puts it back before it is done.        *)

rest == <<disk, at, release, pc, jobs, names, idx, extracted, prevCases, prevTodo, sent, files, exit,
          past, runs, exits>>

(* Mutant of Take: the runner stays in the pool.                           *)
TakeShared(w) ==
  /\ worker[w].pc = "take"
  /\ pool # <<>>
  /\ worker' = [worker EXCEPT ![w].pc = "receive", ![w].r = Head(pool)]
  /\ UNCHANGED <<rest, oracle, pool, cases, firstErr>>

Take(w) ==
  /\ worker[w].pc = "take"
  /\ pool # <<>>
  /\ worker' = [worker EXCEPT ![w].pc = "receive", ![w].r = Head(pool)]
  /\ pool' = Tail(pool)
  /\ UNCHANGED <<rest, oracle, cases, firstErr>>

ReceiveClosed(w) ==
  /\ worker[w].pc = "receive"
  /\ pc = "wait"
  /\ worker' = [worker EXCEPT ![w].pc = "put"]
  /\ UNCHANGED <<rest, oracle, pool, cases, firstErr>>

(* Run, up to the record and from the reply on. Writing to a process that  *)
(* is gone fails.                                                          *)
RunWrites(w) ==
  /\ worker[w].pc = "run"
  /\ IF oracle[worker[w].r].state = "alive"
       THEN /\ Ask(worker[w].r, extracted[worker[w].i])
            /\ worker' = [worker EXCEPT ![w].pc = "read"]
            /\ UNCHANGED firstErr
       ELSE /\ firstErr' = TRUE
            /\ worker' = [worker EXCEPT ![w].pc = "receive"]
            /\ UNCHANGED oracle
  /\ UNCHANGED <<rest, pool, cases>>

RunReturns(w) ==
  /\ worker[w].pc = "read"
  /\ Answered(worker[w].r) \/ EndOfPipe(worker[w].r)
  /\ IF Succeeds(worker[w].r)
       THEN cases' = [cases EXCEPT ![worker[w].i] = Returned(worker[w].r)] /\ UNCHANGED firstErr
       ELSE firstErr' = TRUE /\ UNCHANGED cases
  /\ Read(worker[w].r)
  /\ worker' = [worker EXCEPT ![w].pc = "receive"]
  /\ UNCHANGED <<rest, pool>>

Put(w) ==
  /\ worker[w].pc = "put"
  /\ pool' = Append(pool, worker[w].r)
  /\ worker' = [worker EXCEPT ![w].pc = "finish"]
  /\ UNCHANGED <<rest, oracle, cases, firstErr>>

WgDone(w) ==
  /\ worker[w].pc = "finish"
  /\ worker' = [worker EXCEPT ![w].pc = "done", ![w].r = 0]
  /\ UNCHANGED <<rest, oracle, pool, cases, firstErr>>

WorkerStep(w) ==
  Take(w) \/ ReceiveClosed(w) \/ RunWrites(w) \/ RunReturns(w) \/ Put(w) \/ WgDone(w)

---------------------------------------------------------------------------
(* The oracle processes.                                                   *)

others == <<disk, at, release, pc, jobs, memory, files, exit, past, runs>>

OracleAnswers(r) == Answer(r) /\ UNCHANGED <<others, exits>>

OracleExits(r) ==
  /\ exits < MaxExits
  /\ exits' = exits + 1
  /\ Exit(r)
  /\ UNCHANGED others

---------------------------------------------------------------------------
(* The program is killed, or a write fails: the file it was writing keeps  *)
(* its old contents, is torn, or is what it should have been.              *)

TornCorpus ==
  \/ UNCHANGED corpus
  \/ \E n \in 0 .. Len(extracted) :
       corpus' = [corpus EXCEPT ![Name] = [state |-> "cut",
          cases |-> [c \in {extracted[m] : m \in {k \in Kept : k < n}} |-> Written[c]]]]
  \/ corpus' = [corpus EXCEPT ![Name] = [state |-> "unreadable", cases |-> <<>>]]

TornTodo == UNCHANGED todo \/ todo' = [todo EXCEPT ![Name] = [state |-> "torn", cases |-> {}]]

Writing == Waited /\ ~firstErr /\ Kept # {}

Crash ==
  /\ pc # "off"
  /\ Ends("killed")
  /\ Torn(Main)
  /\ IF Writing THEN TornCorpus ELSE UNCHANGED corpus
  /\ IF pc = "metadata" THEN TornTodo ELSE UNCHANGED todo
  /\ broken' = IF corpus' # corpus \/ pc = "metadata" THEN broken \cup {Name} ELSE broken
  /\ cut' = (cut \/ (at[Main].stage = "unzip" /\ at[Main].archive = "src"))
  /\ UNCHANGED <<release, jobs, passed, runs, exits>>

(* TestParse with -check-parse, between two runs: cases that are todo and  *)
(* pass are struck off.                                                    *)
CheckParse(s) ==
  /\ pc = "off"
  /\ corpus[s].state \in {"whole", "cut"}
  /\ todo[s].state = "whole"
  /\ \E passing \in SUBSET (todo[s].cases \cap DOMAIN corpus[s].cases) :
       /\ passing # {}
       /\ todo' = [todo EXCEPT ![s].cases = @ \ passing]
       /\ passed' = [passed EXCEPT ![s] = @ \cup passing]
  /\ UNCHANGED <<disk, at, release, oracle, pc, jobs, memory, corpus, exit, broken, cut, runs, exits>>

Rest == pc = "off" /\ UNCHANGED vars

MainStep ==
  \/ Artifact \/ OracleBuilt \/ ArtifactError
  \/ AllScripts \/ NewPool \/ NotExecutable
  \/ Snapshot \/ MetadataError \/ MainReturns
  \/ AllAsleep \/ CloseWork \/ RunError
  \/ WriteCorpus \/ WriteMetadata \/ RemoveCorpus \/ RemoveMetadata

Next ==
  \/ Launch \/ MainStep \/ Crash \/ Rest
  \/ \E w \in Jobs : Send(w) \/ WorkerStep(w)
  \/ \E r \in Jobs : OracleAnswers(r) \/ OracleExits(r)
  \/ \E s \in ToSet(Scripts) : CheckParse(s)

(* The goroutines and the processes are scheduled fairly; nothing is       *)
(* assumed of the user, of crashes or of the tests.                        *)
Fairness ==
  /\ WF_vars(MainStep)
  /\ WF_vars(\E w \in Jobs : Send(w))
  /\ \A w \in Runners : WF_vars(w \in Jobs /\ WorkerStep(w))
  /\ \A r \in Runners : WF_vars(r \in Jobs /\ OracleAnswers(r))

Spec == Init /\ [][Next]_vars /\ Fairness

---------------------------------------------------------------------------
(* Properties.                                                             *)

(* Types, and no index leaves its slice.                                   *)
TypeOK ==
  /\ ArtifactTypeOK
  /\ jobs \in JobCounts
  /\ \A s \in ToSet(Scripts) :
       /\ corpus[s].state \in {"none", "whole", "cut", "unreadable"}
       /\ todo[s].state \in {"whole", "torn"}
  /\ names \subseteq DOMAIN Scripts
  /\ idx \in 0 .. Len(Scripts) + 1
  /\ pc \in {"send", "wait", "metadata", "remove"} => idx \in names
  /\ sent \in 0 .. Len(extracted)
  /\ \A w \in Jobs : worker[w].i \in 0 .. sent /\ worker[w].r \in 0 .. jobs

(* What the corpus says of a case is, line by line, what the oracle said   *)
(* of that case, whichever runner it went through and whatever that runner *)
(* had been asked before, runners that are misaligned or gone included,    *)
(* and each line is a result of one of its statements.                     *)
(* The framing is not safe against every message (oracle.c says it is):    *)
(* a line of a message may be taken for a result of its own; the record of *)
(* a case whose message has a line "==" is cut there, and                  *)
(* what follows that line is left for the next case the runner is asked    *)
(* about, whose record it spoils unless Run rejects its first line.        *)
Phantom == \E s \in ToSet(Scripts) : \E c \in ToSet(release[s]) : Spills(c)

CorpusIsTrue ==
  \A s \in ToSet(Scripts) :
    corpus[s].state = "whole" =>
      \A c \in DOMAIN corpus[s].cases :
        LET said == corpus[s].cases[c]
        IN \/ said = Lines(c) /\ (Genuine(said) \/ Has(c, "stmtgood"))
           \/ Has(c, "eqeq") \/ Phantom

(* A case that is not marked as todo has passed a test, and one that has   *)
(* passed is not marked again, unless a crash hit the update of the two    *)
(* files: "new cases start as todo; existing entries are preserved".       *)
BetweenTheTwo(s) == pc \in {"metadata", "remove"} /\ Name = s

TrustedIffPassed ==
  \A s \in ToSet(Scripts) :
    corpus[s].state = "whole" /\ s \notin broken /\ ~BetweenTheTwo(s) =>
      /\ todo[s].state = "whole"
      /\ DOMAIN corpus[s].cases \ todo[s].cases = DOMAIN corpus[s].cases \cap passed[s]

(* Every runner is in the pool or with one worker, and between two scripts *)
(* all of them are in the pool.                                            *)
Times(s, x) == Cardinality({n \in DOMAIN s : s[n] = x})

RunnersAccounted ==
  pc \in {"file", "send", "wait", "metadata", "remove"} =>
    \A r \in Jobs :
      /\ Times(pool, r) + Cardinality({w \in Jobs : worker[w].pc \notin {"finish", "done"} /\ worker[w].r = r}) = 1
      /\ pc \in {"file", "metadata", "remove"} => Times(pool, r) = 1

(* A run that ends well has regenerated every script of the release,       *)
(* whatever earlier runs left behind, unless one of them was interrupted   *)
(* while the scripts were unpacked.                                        *)
Representable(s) ==
  {c \in ToSet(release[s]) : c \notin Unrepresentable /\ ~Has(c, "text")}

Unsafe == \E s \in ToSet(Scripts) : \E c \in ToSet(release[s]) : Has(c, "eqeq")

EveryScriptRegenerated ==
  pc = "off" /\ exit = "ok" /\ ~cut /\ ~Unsafe =>
    \A s \in ToSet(Scripts) :
      /\ DOMAIN corpus[s].cases = Representable(s)
      /\ corpus[s].state = IF Representable(s) = {} THEN "none" ELSE "whole"

(* Every run ends, with errors from any of its oracles and with any -j.    *)
RunsEnd == (pc = "oracle") ~> (pc = "off")
====
