---- MODULE RegenerateProofs ----
(***************************************************************************)
(* Proofs about cmd/regenerate-parse: types, the pool of runners, the two  *)
(* files of a script, and what the corpus says.                            *)
(***************************************************************************)
EXTENDS Regenerate, RunnerProofs, FiniteSetTheorems

Names    == ToSet(Scripts)
Line     == LinesOf(Case)
Place    == [stage : {"idle", "oracle", "scripts", "download", "unzip", "compile", "link", "ready",
                      "failed"},
             archive : Archives \cup {"none"}, n : Nat]
Worker   == [pc : {"take", "receive", "run", "read", "put", "finish", "done"}, i : Nat, r : Nat]
Pipes    == [state : {"none", "alive", "dead"}, asked : Seq(Case), pipe : Seq(Line)]
TodoFile == [state : {"whole", "torn"}, cases : SUBSET Case]

InScript == pc \in {"send", "wait", "metadata", "remove"}
Working  == InScript \/ pc = "file"

---------------------------------------------------------------------------
(* The inductive invariant, in parts.                                      *)

FileTypes ==
  /\ DOMAIN corpus = Names
  /\ \A s \in Names : /\ corpus[s].state \in {"none", "whole", "cut", "unreadable"}
                      /\ DOMAIN corpus[s].cases \subseteq Case
  /\ todo \in [Names -> TodoFile]
  /\ passed \in [Names -> SUBSET Case]
  /\ broken \subseteq Names
  /\ cut \in BOOLEAN

MainTypes ==
  /\ release \in Releases
  /\ jobs \in JobCounts
  /\ pc \in {"off", "oracle", "scripts", "pool", "file", "send", "wait", "metadata", "remove"}
  /\ names \subseteq DOMAIN Scripts
  /\ idx \in 0 .. Len(Scripts) + 1
  /\ InScript => idx \in names
  /\ pc = "file" => idx \in names \cup {Len(Scripts) + 1}

WorkTypes ==
  /\ extracted \in Seq(Case)
  /\ DOMAIN cases = DOMAIN extracted
  /\ sent \in 0 .. Len(extracted)
  /\ worker \in [Runners -> Worker]
  /\ pool \in Seq(Jobs)
  /\ firstErr \in BOOLEAN

PlaceTypes ==
  /\ zip \in [Archives -> States]
  /\ file \in [Unpacked -> States]
  /\ bin \in States
  /\ at \in [Procs -> Place]
  /\ \A p \in Procs : at[p].stage \in {"download", "unzip"} => at[p].archive \in Archives

PipeTypes == oracle \in [Runners -> Pipes]

(* No worker outlives its script, and none has a number that was not sent. *)
Numbers ==
  /\ pc \in {"wait", "metadata", "remove"} => sent = Len(extracted)
  /\ \A w \in Runners :
       /\ pc \notin {"send", "wait"} => worker[w].pc = "done"
       /\ w \notin Jobs => worker[w] = Away
       /\ w \in Jobs => worker[w].i <= sent
       /\ worker[w].pc \in {"run", "read"} => worker[w].i \in DOMAIN extracted
       /\ w \in Jobs /\ pc = "send" => worker[w].pc \in {"take", "receive", "run", "read"}

(* A runner is with one worker or in one place of the pool.                *)
Holds(w) == worker[w].pc \in {"receive", "run", "read", "put"}
InPool(r) == \E n \in DOMAIN pool : pool[n] = r

NotShared ==
  \A w \in Jobs :
    /\ Holds(w) => worker[w].r \in Jobs /\ ~InPool(worker[w].r)
    /\ worker[w].pc \in {"take", "done"} => worker[w].r = 0
    /\ worker[w].r \in 0 .. jobs

OneHolder == \A v, w \in Jobs : Holds(v) /\ Holds(w) /\ worker[v].r = worker[w].r => v = w
OnePlace  == \A m, n \in DOMAIN pool : pool[m] = pool[n] => m = n
NoneLost  == Working => \A r \in Jobs : InPool(r) \/ \E w \in Jobs : Holds(w) /\ worker[w].r = r

Held == NotShared /\ OneHolder /\ OnePlace /\ NoneLost

(* The files of a script that no crash has hit, at every point between the *)
(* snapshot and the metadata.                                              *)
Intact(s) ==
  /\ corpus[s].state \in {"none", "whole"}
  /\ todo[s].state = "whole"
  /\ passed[s] \subseteq DOMAIN corpus[s].cases

Agrees(s) == \A c \in DOMAIN corpus[s].cases : c \in passed[s] <=> c \notin todo[s].cases

Snapped ==
  /\ todo[Name].state = "whole"
  /\ prevCases = DOMAIN corpus[Name].cases
  /\ prevTodo = todo[Name].cases

MergeDue ==
  \A c \in DOMAIN corpus[Name].cases : c \in passed[Name] <=> c \in prevCases /\ c \notin prevTodo

Trusted ==
  /\ \A s \in Names : s \notin broken => Intact(s) /\ (~BetweenTheTwo(s) => Agrees(s))
  /\ pc \in {"send", "wait"} => Snapped
  /\ pc = "metadata" /\ Name \notin broken => MergeDue
  /\ pc = "remove" => DOMAIN corpus[Name].cases = {}

---------------------------------------------------------------------------
(* Facts about numbers, constants and the operators of the model.          *)

LEMMA ConstantFacts ==
  /\ Len(Scripts) \in Nat /\ DOMAIN Scripts = 1 .. Len(Scripts)
  /\ Names \subseteq ToSet(Contents["src"]) /\ ToSet(Contents["src"]) \subseteq Unpacked
  /\ "sqlite3.c" \in Unpacked /\ "fuzzdata1.db" \in Unpacked
  /\ \A a \in Archives : /\ Contents[a] \in Seq(Unpacked)
                         /\ DOMAIN Contents[a] = 1 .. Len(Contents[a]) /\ Len(Contents[a]) \in Nat
  /\ \A x \in Releases : \A s \in Names :
       /\ x[s] \in Seq(Case) /\ DOMAIN x[s] = 1 .. Len(x[s]) /\ Len(x[s]) \in Nat
  /\ OldCase \in Case
<1>1. Len(Scripts) \in Nat /\ DOMAIN Scripts = 1 .. Len(Scripts)
  BY ArchivesAssumption, LenProperties
<1>2. Names \subseteq ToSet(Contents["src"])
  BY ArchivesAssumption, LenProperties, ElementOfSeq DEF Names, ToSet
<1>3. \A a \in Archives : ToSet(Contents[a]) \subseteq Unpacked
  BY DEF ToSet, Unpacked
<1>4. \A a \in Archives : /\ Contents[a] \in Seq(Unpacked)
                          /\ DOMAIN Contents[a] = 1 .. Len(Contents[a]) /\ Len(Contents[a]) \in Nat
  BY ArchivesAssumption, LenProperties DEF Archives
<1>5. \A x \in Releases : \A s \in Names :
        x[s] \in Seq(Case) /\ DOMAIN x[s] = 1 .. Len(x[s]) /\ Len(x[s]) \in Nat
  BY CasesAssumption, LenProperties DEF Names
<1> QED
  BY <1>1, <1>2, <1>3, <1>4, <1>5, ArchivesAssumption DEF Archives, Case

(* The next place is the first of those that are left, or the end.         *)
LEMMA AfterIsNext ==
  ASSUME names \subseteq DOMAIN Scripts, NEW i \in 0 .. Len(Scripts)
  PROVE  /\ After(i) \in names \cup {Len(Scripts) + 1}
         /\ After(i) > i
         /\ \A k \in names : k > i => After(i) <= k
<1> DEFINE Left == {j \in names \cup {Len(Scripts) + 1} : j > i}
<1>1. Left \in SUBSET Nat /\ Len(Scripts) + 1 \in Left
  BY ConstantFacts
<1>2. PICK m \in Left : \A k \in Left : m <= k
  <2> HIDE DEF Left
  <2> QED
    BY <1>1, LeastNumber
<1>3. m \in names \cup {Len(Scripts) + 1} /\ m > i /\ \A k \in names : k > i => m <= k
  BY <1>2
<1> QED
  BY <1>3 DEF After

(* What a script extracts to is a part of what the release holds for it.   *)
LEMMA FoundFacts ==
  ASSUME release \in Releases, NEW s \in Names
  PROVE  /\ Found(s) \in Seq(Case)
         /\ DOMAIN Found(s) = 1 .. Len(Found(s)) /\ Len(Found(s)) \in Nat
         /\ ToSet(Found(s)) \subseteq ToSet(release[s])
<1>1. release[s] \in Seq(Case) /\ DOMAIN release[s] = 1 .. Len(release[s]) /\ Len(release[s]) \in Nat
  BY ConstantFacts
<1>2. CASE file[s] = "good"
  BY <1>1, <1>2 DEF Found
<1>3. CASE file[s] # "good"
  <2> DEFINE part == SubSeq(release[s], 1, Len(release[s]) - 1)
  <2>1. part \in Seq(Case) /\ Len(part) = IF 1 <= Len(release[s]) - 1 THEN Len(release[s]) - 1 ELSE 0
    BY <1>1, SubSeqProperties, ElementOfSeq
  <2>2. \A n \in 1 .. Len(release[s]) - 1 : part[n] = release[s][n]
    BY <1>1, SubSeqProperties, ElementOfSeq
  <2>3. DOMAIN part = 1 .. Len(part)
    BY <2>1, LenProperties
  <2>4. Found(s) = part
    BY <1>3 DEF Found
  <2>5. ToSet(part) \subseteq ToSet(release[s])
    BY <1>1, <2>1, <2>2, <2>3 DEF ToSet
  <2> QED
    BY <1>1, <2>1, <2>3, <2>4, <2>5
<1> QED
  BY <1>2, <1>3

(* The lines the oracle writes for a case, and its whole reply.            *)
LEMMA ReplyFacts ==
  ASSUME NEW c \in Case
  PROVE  /\ Lines(c) \in Seq(Line) /\ Reply(c) \in Seq(Line)
         /\ Len(Lines(c)) \in Nat /\ DOMAIN Lines(c) = 1 .. Len(Lines(c))
         /\ DOMAIN Kinds(c) = DOMAIN Lines(c) /\ Len(Kinds(c)) = Len(Lines(c))
         /\ \A n \in DOMAIN Lines(c) : Lines(c)[n].kind = Kinds(c)[n] /\ Kinds(c)[n] \in LineKinds
         /\ Len(Reply(c)) = Len(Lines(c)) + 1 /\ DOMAIN Reply(c) = 1 .. Len(Lines(c)) + 1
         /\ \A n \in DOMAIN Lines(c) : Reply(c)[n] = Lines(c)[n]
         /\ Reply(c)[Len(Lines(c)) + 1].kind = "end"
<1>1. Kinds(c) \in Seq(LineKinds)
  BY CasesAssumption
<1> QED
  BY <1>1, RepliesOf DEF Line

(* Run reads up to the first line at which it stops.                       *)
LEMMA StopAtIsFirst ==
  ASSUME NEW r, oracle[r].pipe \in Seq(Line), Answered(r)
  PROVE  /\ StopAt(r) \in Stops(oracle[r].pipe)
         /\ StopAt(r) \in 1 .. Len(oracle[r].pipe)
         /\ \A q \in Stops(oracle[r].pipe) : StopAt(r) <= q
  BY FirstStop DEF Line

---------------------------------------------------------------------------
(* Types.                                                                  *)

LEMMA PlaceInit == Init => PlaceTypes
<1> SUFFICES ASSUME Init PROVE PlaceTypes
  OBVIOUS
<1>1. zip \in [Archives -> States] /\ file \in [Unpacked -> States] /\ bin \in States
  BY DEF Init, NothingCached, States
<1>2. at = [p \in Procs |-> Idle] /\ Idle \in Place
  BY DEF Init, Idle, Stage, Place
<1> QED
  BY <1>1, <1>2 DEF PlaceTypes, Idle, Stage

(* Where a goroutine may go.                                               *)
LEMMA GoKeepsPlaces ==
  ASSUME PlaceTypes, zip' \in [Archives -> States], file' \in [Unpacked -> States], bin' \in States,
         NEW p, NEW where \in Place,
         where.stage \in {"download", "unzip"} => where.archive \in Archives,
         Go(p, where)
  PROVE  PlaceTypes'
<1>1. at' \in [Procs -> Place]
  BY DEF PlaceTypes, Go
<1>2. \A q \in Procs : at'[q] = IF q = p THEN where ELSE at[q]
  BY DEF PlaceTypes, Go
<1> QED
  BY <1>1, <1>2 DEF PlaceTypes

LEMMA ArtifactKeepsPlaces ==
  ASSUME PlaceTypes, NEW p \in Procs, ArtifactStep(p)
  PROVE  PlaceTypes'
<1> USE DEF States
<1>0. /\ at[p] \in Place
      /\ "amalgamation" \in Archives /\ "src" \in Archives
      /\ zip \in [Archives -> States] /\ file \in [Unpacked -> States] /\ bin \in States
  BY ArchivesAssumption DEF PlaceTypes, Archives
<1>a. /\ Ready \in Place /\ Failed \in Place /\ Stage("compile") \in Place /\ Stage("link") \in Place
      /\ Fetching("amalgamation") \in Place /\ Fetching("src") \in Place
  BY <1>0 DEF Ready, Failed, Stage, Fetching, Place
<1>b. /\ Ready.stage = "ready" /\ Failed.stage = "failed"
      /\ Stage("compile").stage = "compile" /\ Stage("link").stage = "link"
      /\ Fetching("amalgamation").archive = "amalgamation" /\ Fetching("src").archive = "src"
  BY DEF Ready, Failed, Stage, Fetching
<1>1. CASE StatOracle(p)
  <2>1. PICK where \in {Ready, Stage("compile"), Fetching("amalgamation")} : Go(p, where)
    BY <1>1 DEF StatOracle
  <2>2. zip' = zip /\ file' = file /\ bin' = bin
    BY <1>1 DEF StatOracle, disk
  <2> QED
    BY <1>0, <1>a, <1>b, <2>1, <2>2, GoKeepsPlaces
<1>2. CASE StatScripts(p)
  <2>1. PICK where \in {Ready, Fetching("src")} : Go(p, where)
    BY <1>2 DEF StatScripts
  <2>2. zip' = zip /\ file' = file /\ bin' = bin
    BY <1>2 DEF StatScripts, disk
  <2> QED
    BY <1>0, <1>a, <1>b, <2>1, <2>2, GoKeepsPlaces
<1>3. CASE Download(p)
  <2> DEFINE where == [at[p] EXCEPT !.stage = "unzip"]
  <2>1. where \in Place /\ where.archive = at[p].archive /\ at[p].archive \in Archives
    BY <1>0, <1>3 DEF Download, Place, PlaceTypes
  <2>2. zip' \in [Archives -> States] /\ file' = file /\ bin' = bin /\ Go(p, where)
    BY <1>0, <1>3 DEF Download
  <2> HIDE DEF where
  <2> QED
    BY <1>0, <2>1, <2>2, GoKeepsPlaces
<1>4. CASE DownloadFails(p)
  <2>1. Go(p, Failed) /\ zip' = zip /\ file' = file /\ bin' = bin
    BY <1>4 DEF DownloadFails, disk
  <2> QED
    BY <1>0, <1>a, <1>b, <2>1, GoKeepsPlaces
<1>5. CASE UnzipOne(p)
  <2> DEFINE where == [at[p] EXCEPT !.n = @ + 1]
  <2>1. where \in Place /\ where.archive = at[p].archive /\ at[p].archive \in Archives
    BY <1>0, <1>5 DEF UnzipOne, Place, PlaceTypes
  <2>2. file' \in [Unpacked -> States] /\ zip' = zip /\ bin' = bin /\ Go(p, where)
    BY <1>0, <1>5 DEF UnzipOne
  <2> HIDE DEF where
  <2> QED
    BY <1>0, <2>1, <2>2, GoKeepsPlaces
<1>6. CASE UnzipEnd(p)
  <2>1. PICK where \in {Ready, Stage("compile")} : Go(p, where)
    BY <1>6 DEF UnzipEnd
  <2>2. zip' = zip /\ file' = file /\ bin' = bin
    BY <1>6 DEF UnzipEnd, disk
  <2> QED
    BY <1>0, <1>a, <1>b, <2>1, <2>2, GoKeepsPlaces
<1>7. CASE Compile(p)
  <2>1. Go(p, Stage("link")) /\ zip' = zip /\ file' = file /\ bin' \in States
    BY <1>7 DEF Compile
  <2> QED
    BY <1>0, <1>a, <1>b, <2>1, GoKeepsPlaces
<1>8. CASE Compiled(p)
  <2>1. Go(p, Ready) /\ zip' = zip /\ file' = file /\ bin' \in States
    BY <1>8 DEF Compiled
  <2> QED
    BY <1>0, <1>a, <1>b, <2>1, GoKeepsPlaces
<1>9. CASE CompileFails(p)
  <2>1. Go(p, Failed) /\ zip' = zip /\ file' = file /\ bin' \in States
    BY <1>9 DEF CompileFails
  <2> QED
    BY <1>0, <1>a, <1>b, <2>1, GoKeepsPlaces
<1> QED
  BY <1>1, <1>2, <1>3, <1>4, <1>5, <1>6, <1>7, <1>8, <1>9 DEF ArtifactStep

LEMMA TornKeepsDisk ==
  ASSUME PlaceTypes, NEW p \in Procs, Torn(p)
  PROVE  zip' \in [Archives -> States] /\ file' \in [Unpacked -> States] /\ bin' \in States
  BY DEF PlaceTypes, Torn, disk, States

LEMMA PlaceStep ==
  ASSUME PlaceTypes, [Next]_vars
  PROVE  PlaceTypes'
<1> USE DEF Fatal, Ends
<1>0. Main \in Procs /\ Idle \in Place /\ Stage("oracle") \in Place /\ Stage("scripts") \in Place
  BY ArchivesAssumption DEF Idle, Stage, Place
<1>a. ASSUME zip' \in [Archives -> States], file' \in [Unpacked -> States], bin' \in States,
             at' = [p \in Procs |-> Idle]
      PROVE  PlaceTypes'
  BY <1>0, <1>a DEF PlaceTypes, Idle, Stage
<1>b. ASSUME UNCHANGED disk, at' = [p \in Procs |-> Idle] PROVE PlaceTypes'
  BY <1>a, <1>b DEF PlaceTypes, disk
<1>c. ASSUME UNCHANGED <<disk, at>> PROVE PlaceTypes'
  BY <1>c DEF PlaceTypes, disk
<1>1. CASE Launch
  <2>1. Go(Main, Stage("oracle")) /\ zip' = zip /\ file' = file /\ bin' = bin
    BY <1>1 DEF Launch, CallOracle, disk
  <2> QED
    BY <1>0, <2>1, GoKeepsPlaces DEF PlaceTypes, Stage
<1>2. CASE Artifact
  BY <1>0, <1>2, ArtifactKeepsPlaces DEF Artifact
<1>3. CASE OracleBuilt
  <2>1. Go(Main, Stage("scripts")) /\ zip' = zip /\ file' = file /\ bin' = bin
    BY <1>3 DEF OracleBuilt, CallTestScripts, disk
  <2> QED
    BY <1>0, <2>1, GoKeepsPlaces DEF PlaceTypes, Stage
<1>4. CASE Crash
  BY <1>0, <1>4, <1>a, TornKeepsDisk DEF Crash
<1>5. CASE ArtifactError \/ NotExecutable \/ MetadataError \/ MainReturns \/ AllAsleep \/ RunError
  BY <1>5, <1>b DEF ArtifactError, NotExecutable, MetadataError, MainReturns, AllAsleep, RunError
<1>6. CASE AllScripts \/ NewPool \/ Snapshot \/ CloseWork
  BY <1>6, <1>c DEF AllScripts, NewPool, Snapshot, CloseWork
<1>7. CASE WriteCorpus \/ WriteMetadata \/ RemoveCorpus \/ RemoveMetadata
  BY <1>7, <1>c DEF WriteCorpus, WriteMetadata, RemoveCorpus, RemoveMetadata
<1>8. CASE \E w \in Jobs : Send(w) \/ WorkerStep(w)
  BY <1>8, <1>c DEF Send, WorkerStep, Take, ReceiveClosed, RunWrites, RunReturns, Put, WgDone, rest
<1>9. CASE \E r \in Jobs : OracleAnswers(r) \/ OracleExits(r)
  BY <1>9, <1>c DEF OracleAnswers, OracleExits, others
<1>10. CASE \E s \in Names : CheckParse(s)
  BY <1>10, <1>c DEF CheckParse
<1>11. CASE Rest \/ UNCHANGED vars
  BY <1>11, <1>c DEF Rest, vars, disk
<1> QED
  BY <1>1, <1>2, <1>3, <1>4, <1>5, <1>6, <1>7, <1>8, <1>9, <1>10, <1>11 DEF Next, MainStep, Names

LEMMA MainInit == Init => MainTypes
  BY ConstantFacts DEF Init, MainTypes, InScript

LEMMA MainStepTypes ==
  ASSUME MainTypes, [Next]_vars
  PROVE  MainTypes'
<1> USE DEF MainTypes, InScript
<1>0. Len(Scripts) \in Nat /\ DOMAIN Scripts = 1 .. Len(Scripts)
  BY ConstantFacts
<1>a. ASSUME \E how : Ends(how), UNCHANGED <<release, jobs>> PROVE MainTypes'
  BY <1>0, <1>a DEF Ends
<1>b. ASSUME UNCHANGED <<release, jobs, pc, names, idx>> PROVE MainTypes'
  BY <1>b
<1>1. CASE Launch \/ OracleBuilt
  BY <1>1 DEF Launch, OracleBuilt, memory
<1>2. CASE Artifact
  BY <1>2 DEF Artifact, memory
<1>3. CASE Crash
  BY <1>3, <1>a DEF Crash
<1>4. CASE ArtifactError \/ NotExecutable \/ MetadataError \/ MainReturns \/ AllAsleep \/ RunError
  BY <1>4, <1>a DEF ArtifactError, NotExecutable, MetadataError, MainReturns, AllAsleep, RunError, Fatal
<1>5. CASE AllScripts
  BY <1>5 DEF AllScripts
<1>6. CASE NewPool
  <2>1. After(0) \in names \cup {Len(Scripts) + 1}
    BY <1>0, AfterIsNext
  <2> QED
    BY <1>0, <1>6, <2>1 DEF NewPool
<1>7. CASE Snapshot \/ CloseWork
  BY <1>7 DEF Snapshot, CloseWork, memory
<1>8. CASE WriteCorpus \/ RemoveCorpus
  BY <1>8 DEF WriteCorpus, RemoveCorpus, Waited, memory
<1>9. CASE WriteMetadata \/ RemoveMetadata
  <2>1. idx \in names /\ idx \in 0 .. Len(Scripts)
    BY <1>0, <1>9 DEF WriteMetadata, RemoveMetadata
  <2>2. After(idx) \in names \cup {Len(Scripts) + 1}
    BY <2>1, AfterIsNext
  <2> QED
    BY <1>0, <1>9, <2>2 DEF WriteMetadata, RemoveMetadata, NextFileName
<1>10. CASE \E w \in Jobs : Send(w) \/ WorkerStep(w)
  BY <1>10, <1>b DEF Send, WorkerStep, Take, ReceiveClosed, RunWrites, RunReturns, Put, WgDone, rest
<1>11. CASE \E r \in Jobs : OracleAnswers(r) \/ OracleExits(r)
  BY <1>11, <1>b DEF OracleAnswers, OracleExits, others, memory
<1>12. CASE \E s \in Names : CheckParse(s)
  BY <1>12, <1>b DEF CheckParse, memory
<1>13. CASE Rest \/ UNCHANGED vars
  BY <1>13, <1>b DEF Rest, vars, memory
<1> QED
  BY <1>1, <1>2, <1>3, <1>4, <1>5, <1>6, <1>7, <1>8, <1>9, <1>10, <1>11, <1>12, <1>13
  DEF Next, MainStep, Names

---------------------------------------------------------------------------
(* The workers, what they hold and the pipes.                              *)

LEMMA WorkInit ==
  ASSUME Init
  PROVE  WorkTypes /\ Numbers /\ PipeTypes
<1>1. WorkTypes
  <2>1. worker \in [Runners -> Worker]
    BY DEF Init, Away, Worker
  <2>2. <<>> \in Seq(Case) /\ <<>> \in Seq(Jobs) /\ Len(<<>>) = 0
    BY EmptySeq
  <2>3. extracted = <<>> /\ cases = <<>> /\ sent = 0 /\ pool = <<>>
    BY DEF Init
  <2>4. firstErr \in BOOLEAN
    BY DEF Init
  <2> QED
    BY <2>1, <2>2, <2>3, <2>4 DEF WorkTypes
<1>2. Numbers
  BY DEF Init, Numbers, Away
<1>3. PipeTypes
  <2>1. NoProcess \in Pipes
    BY DEF NoProcess, Pipes
  <2> QED
    BY <2>1 DEF Init, PipeTypes
<1> QED
  BY <1>1, <1>2, <1>3

(* A worker that changes only where it is.                                 *)
LEMMA WorkerMoves ==
  ASSUME worker \in [Runners -> Worker], NEW w \in Runners,
         NEW to \in {"take", "receive", "run", "read", "put", "finish", "done"},
         worker' = [worker EXCEPT ![w].pc = to]
  PROVE  /\ worker' \in [Runners -> Worker]
         /\ worker'[w].pc = to /\ worker'[w].i = worker[w].i /\ worker'[w].r = worker[w].r
         /\ \A v \in Runners \ {w} : worker'[v] = worker[v]
  BY DEF Worker

LEMMA WorkTypesStep ==
  ASSUME MainTypes, WorkTypes, Held, [Next]_vars
  PROVE  WorkTypes'
<1> USE DEF WorkTypes
<1>0. Len(extracted) \in Nat /\ DOMAIN extracted = 1 .. Len(extracted) /\ Jobs \subseteq Runners
        /\ jobs \in Nat
  BY JobsAssumption, LenProperties DEF MainTypes, Jobs
<1>a. ASSUME \E how : Ends(how), jobs' = jobs PROVE WorkTypes'
  <2>1. Away \in Worker
    BY DEF Away, Worker
  <2>2. sent' \in 0 .. Len(extracted') /\ firstErr' \in BOOLEAN /\ extracted' \in Seq(Case)
          /\ DOMAIN cases' = DOMAIN extracted' /\ pool' \in Seq(Jobs')
    <3>1. <<>> \in Seq(Case) /\ <<>> \in Seq(Jobs') /\ Len(<<>>) = 0
      BY EmptySeq
    <3>2. extracted' = <<>> /\ cases' = <<>> /\ sent' = 0 /\ pool' = <<>>
      BY <1>a DEF Ends
    <3>3. firstErr' \in BOOLEAN
      BY <1>a DEF Ends
    <3> QED
      BY <3>1, <3>2, <3>3
  <2>3. worker' \in [Runners -> Worker]
    BY <1>a, <2>1 DEF Ends
  <2> QED
    BY <2>2, <2>3
<1>b. ASSUME UNCHANGED <<jobs, extracted, cases, sent, worker, pool, firstErr>> PROVE WorkTypes'
  BY <1>b DEF Jobs
<1>1. CASE Launch \/ OracleBuilt \/ Artifact \/ AllScripts
  BY <1>1, <1>b DEF Launch, OracleBuilt, Artifact, AllScripts, memory
<1>2. CASE Crash
  BY <1>2, <1>a DEF Crash
<1>3. CASE ArtifactError \/ NotExecutable \/ MetadataError \/ MainReturns \/ AllAsleep \/ RunError
  BY <1>3, <1>a DEF ArtifactError, NotExecutable, MetadataError, MainReturns, AllAsleep, RunError, Fatal
<1>4. CASE NewPool
  <2>1. [n \in Jobs |-> n] \in Seq(Jobs)
    BY <1>0 DEF Jobs
  <2> QED
    BY <1>4, <2>1 DEF NewPool, Jobs
<1>5. CASE Snapshot
  <2>1. Name \in Names
    BY <1>5, ConstantFacts DEF Snapshot, Name, Names, ToSet, MainTypes
  <2>2. Found(Name) \in Seq(Case) /\ Len(Found(Name)) \in Nat
    BY <2>1, FoundFacts DEF MainTypes
  <2>3. Away \in Worker /\ [Away EXCEPT !.pc = "take"] \in Worker
    BY DEF Away, Worker
  <2>4. worker' \in [Runners -> Worker]
    BY <1>5, <2>3 DEF Snapshot
  <2>5. extracted' = Found(Name) /\ DOMAIN cases' = DOMAIN Found(Name) /\ sent' = 0
          /\ pool' = pool /\ jobs' = jobs
    BY <1>5 DEF Snapshot
  <2>6. firstErr' \in BOOLEAN
    BY <1>5 DEF Snapshot
  <2> QED
    BY <2>2, <2>4, <2>5, <2>6 DEF Jobs
<1>6. CASE CloseWork \/ WriteCorpus \/ WriteMetadata \/ RemoveCorpus \/ RemoveMetadata
  BY <1>6, <1>b DEF CloseWork, WriteCorpus, WriteMetadata, RemoveCorpus, RemoveMetadata, memory
<1>7. ASSUME NEW w \in Jobs, Send(w) PROVE WorkTypes'
  <2>1. worker' \in [Runners -> Worker]
    <3>1. worker' = [worker EXCEPT ![w].pc = "run", ![w].i = sent + 1] /\ sent + 1 \in Nat
      BY <1>0, <1>7 DEF Send
    <3>2. worker[w] \in Worker /\ w \in Runners
      BY <1>0
    <3>3. [[worker[w] EXCEPT !.pc = "run"] EXCEPT !.i = sent + 1] \in Worker
      BY <3>1, <3>2 DEF Worker
    <3> QED
      BY <3>1, <3>2, <3>3
  <2>2. /\ sent' = sent + 1 /\ sent < Len(extracted)
        /\ UNCHANGED <<jobs, extracted, cases, pool>>
    BY <1>7 DEF Send
  <2>3. firstErr' \in BOOLEAN
    BY <1>7 DEF Send
  <2>4. sent' \in 0 .. Len(extracted')
    BY <1>0, <2>2
  <2>5. extracted' \in Seq(Case) /\ DOMAIN cases' = DOMAIN extracted' /\ pool' \in Seq(Jobs')
    BY <2>2 DEF Jobs
  <2> QED
    BY <2>1, <2>3, <2>4, <2>5
<1>8. ASSUME NEW w \in Jobs, Take(w) PROVE WorkTypes'
  <2>1. Head(pool) \in Jobs /\ Tail(pool) \in Seq(Jobs)
    BY <1>8, HeadTailProperties DEF Take
  <2>2. Head(pool) \in Nat
    BY <1>0, <2>1 DEF Jobs
  <2>3. worker' \in [Runners -> Worker]
    BY <1>0, <1>8, <2>2 DEF Take, Worker
  <2> QED
    BY <1>8, <2>1, <2>3 DEF Take, rest, Jobs
<1>9. ASSUME NEW w \in Jobs, ReceiveClosed(w) PROVE WorkTypes'
  <2>1. worker' \in [Runners -> Worker]
    BY <1>0, <1>9, WorkerMoves DEF ReceiveClosed
  <2> QED
    BY <1>9, <2>1 DEF ReceiveClosed, rest, Jobs
<1>10. ASSUME NEW w \in Jobs, RunWrites(w) PROVE WorkTypes'
  <2>1. worker' \in [Runners -> Worker]
    BY <1>0, <1>10, WorkerMoves DEF RunWrites
  <2>2. firstErr' \in BOOLEAN
    BY <1>10 DEF RunWrites
  <2> QED
    BY <1>10, <2>1, <2>2 DEF RunWrites, rest, Jobs
<1>11. ASSUME NEW w \in Jobs, RunReturns(w) PROVE WorkTypes'
  <2>1. worker' \in [Runners -> Worker]
    BY <1>0, <1>11, WorkerMoves DEF RunReturns
  <2>2. firstErr' \in BOOLEAN /\ DOMAIN cases' = DOMAIN cases
    BY <1>11 DEF RunReturns
  <2> QED
    BY <1>11, <2>1, <2>2 DEF RunReturns, rest, Jobs
<1>12. ASSUME NEW w \in Jobs, Put(w) PROVE WorkTypes'
  <2>1. worker' \in [Runners -> Worker]
    BY <1>0, <1>12, WorkerMoves DEF Put
  <2>2. pool' \in Seq(Jobs)
    BY <1>12, AppendProperties DEF Put, Held, NotShared, Holds
  <2> QED
    BY <1>12, <2>1, <2>2 DEF Put, rest, Jobs
<1>13. ASSUME NEW w \in Jobs, WgDone(w) PROVE WorkTypes'
  <2>1. worker' \in [Runners -> Worker]
    <3>1. worker' = [worker EXCEPT ![w].pc = "done", ![w].r = 0]
      BY <1>13 DEF WgDone
    <3>2. worker[w] \in Worker /\ w \in Runners
      BY <1>0
    <3>3. [[worker[w] EXCEPT !.pc = "done"] EXCEPT !.r = 0] \in Worker
      BY <3>1, <3>2 DEF Worker
    <3> QED
      BY <3>1, <3>2, <3>3
  <2> QED
    BY <1>13, <2>1 DEF WgDone, rest, Jobs
<1>14. CASE \E r \in Jobs : OracleAnswers(r) \/ OracleExits(r)
  BY <1>14, <1>b DEF OracleAnswers, OracleExits, others, memory
<1>15. CASE \E s \in Names : CheckParse(s)
  BY <1>15, <1>b DEF CheckParse, memory
<1>16. CASE Rest \/ UNCHANGED vars
  BY <1>16, <1>b DEF Rest, vars, memory
<1> QED
  BY <1>1, <1>2, <1>3, <1>4, <1>5, <1>6, <1>7, <1>8, <1>9, <1>10, <1>11, <1>12, <1>13, <1>14, <1>15, <1>16
  DEF Next, MainStep, WorkerStep, Names

(* What each step of a worker makes of it.                                 *)
Becomes(w, to, i, r) ==
  /\ worker'[w].pc = to /\ worker'[w].i = i /\ worker'[w].r = r
  /\ \A v \in Runners \ {w} : worker'[v] = worker[v]

LEMMA WorkerSteps ==
  ASSUME MainTypes, WorkTypes, NEW w \in Jobs
  PROVE  /\ Send(w) => Becomes(w, "run", sent + 1, worker[w].r)
         /\ Take(w) => Becomes(w, "receive", worker[w].i, Head(pool))
         /\ ReceiveClosed(w) => Becomes(w, "put", worker[w].i, worker[w].r)
         /\ RunWrites(w) => \/ Becomes(w, "read", worker[w].i, worker[w].r)
                            \/ firstErr' /\ Becomes(w, "receive", worker[w].i, worker[w].r)
         /\ RunReturns(w) => Becomes(w, "receive", worker[w].i, worker[w].r)
         /\ Put(w) => Becomes(w, "finish", worker[w].i, worker[w].r)
         /\ WgDone(w) => Becomes(w, "done", worker[w].i, 0)
<1>0. w \in Runners /\ worker \in [Runners -> Worker] /\ worker[w] \in Worker
  BY JobsAssumption DEF MainTypes, WorkTypes, Jobs
<1>1. ASSUME NEW to, NEW i, worker' = [worker EXCEPT ![w].pc = to, ![w].i = i]
      PROVE  Becomes(w, to, i, worker[w].r)
  BY <1>0, <1>1 DEF Becomes, Worker
<1>2. ASSUME NEW to, NEW r, worker' = [worker EXCEPT ![w].pc = to, ![w].r = r]
      PROVE  Becomes(w, to, worker[w].i, r)
  BY <1>0, <1>2 DEF Becomes, Worker
<1>3. ASSUME NEW to, worker' = [worker EXCEPT ![w].pc = to]
      PROVE  Becomes(w, to, worker[w].i, worker[w].r)
  BY <1>0, <1>3 DEF Becomes, Worker
<1>4. Send(w) => Becomes(w, "run", sent + 1, worker[w].r)
  BY <1>1 DEF Send
<1>5. Take(w) => Becomes(w, "receive", worker[w].i, Head(pool))
  BY <1>2 DEF Take
<1>6. ReceiveClosed(w) => Becomes(w, "put", worker[w].i, worker[w].r)
  BY <1>3 DEF ReceiveClosed
<1>7. RunWrites(w) => \/ Becomes(w, "read", worker[w].i, worker[w].r)
                      \/ firstErr' /\ Becomes(w, "receive", worker[w].i, worker[w].r)
  BY <1>3 DEF RunWrites
<1>8. RunReturns(w) => Becomes(w, "receive", worker[w].i, worker[w].r)
  BY <1>3 DEF RunReturns
<1>9. Put(w) => Becomes(w, "finish", worker[w].i, worker[w].r)
  BY <1>3 DEF Put
<1>10. WgDone(w) => Becomes(w, "done", worker[w].i, 0)
  BY <1>2 DEF WgDone
<1> QED
  BY <1>4, <1>5, <1>6, <1>7, <1>8, <1>9, <1>10

LEMMA NumbersStep ==
  ASSUME MainTypes, WorkTypes, Numbers, [Next]_vars
  PROVE  Numbers'
<1> USE DEF Numbers
<1>0. /\ Len(extracted) \in Nat /\ DOMAIN extracted = 1 .. Len(extracted)
      /\ Jobs \subseteq Runners /\ jobs \in Nat /\ sent \in 0 .. Len(extracted)
      /\ \A w \in Runners : worker[w].i \in Nat
  BY JobsAssumption, LenProperties DEF MainTypes, WorkTypes, Jobs, Worker
<1>a. ASSUME \E how : Ends(how), jobs' = jobs PROVE Numbers'
  <2>1. worker' = [w \in Runners |-> Away] /\ pc' = "off" /\ sent' = 0
    BY <1>a DEF Ends
  <2> QED
    BY <2>1 DEF Away
<1>b. ASSUME UNCHANGED <<jobs, extracted, sent, worker>>,
             pc \notin {"send", "wait", "metadata", "remove"},
             pc' \notin {"send", "wait", "metadata", "remove"}
      PROVE  Numbers'
  BY <1>b DEF Jobs
<1>c. ASSUME UNCHANGED <<jobs, extracted, sent, worker, pc>> PROVE Numbers'
  BY <1>c DEF Jobs
<1>1. CASE Launch \/ OracleBuilt \/ AllScripts \/ NewPool
  BY <1>1, <1>b DEF Launch, OracleBuilt, AllScripts, NewPool, memory
<1>2. CASE Artifact
  BY <1>2, <1>c DEF Artifact, memory
<1>3. CASE Crash
  BY <1>3, <1>a DEF Crash
<1>4. CASE ArtifactError \/ NotExecutable \/ MetadataError \/ MainReturns \/ AllAsleep \/ RunError
  BY <1>4, <1>a DEF ArtifactError, NotExecutable, MetadataError, MainReturns, AllAsleep, RunError, Fatal
<1>5. CASE Snapshot
  <2>1. /\ worker' = [w \in Runners |-> IF w \in Jobs THEN [Away EXCEPT !.pc = "take"] ELSE Away]
        /\ sent' = 0 /\ pc' = "send" /\ Jobs' = Jobs
    BY <1>5 DEF Snapshot, Jobs
  <2>2. \A w \in Runners : w \in Jobs => worker'[w].pc = "take" /\ worker'[w].i = 0
    BY <2>1 DEF Away
  <2>3. \A w \in Runners : w \notin Jobs => worker'[w] = Away /\ worker'[w].pc = "done"
    BY <2>1 DEF Away
  <2>4. sent' = 0 /\ pc' = "send" /\ Jobs' = Jobs
    BY <2>1
  <2> QED
    BY <2>2, <2>3, <2>4
<1>6. CASE CloseWork
  BY <1>6 DEF CloseWork, memory, Jobs
<1>7. CASE WriteCorpus \/ RemoveCorpus
  <2>1. /\ pc = "wait" /\ pc' \in {"metadata", "remove"} /\ \A w \in Jobs : worker[w].pc = "done"
        /\ UNCHANGED <<jobs, extracted, sent, worker>>
    BY <1>7 DEF WriteCorpus, RemoveCorpus, Waited, memory
  <2>2. \A w \in Runners : w \notin Jobs => worker[w].pc = "done"
    BY DEF Away
  <2> QED
    BY <2>1, <2>2 DEF Jobs
<1>8. CASE WriteMetadata \/ RemoveMetadata
  BY <1>8 DEF WriteMetadata, RemoveMetadata, NextFileName, Jobs
<1>9. ASSUME NEW w \in Jobs, Send(w) PROVE Numbers'
  <2>1. Becomes(w, "run", sent + 1, worker[w].r)
    BY <1>9, WorkerSteps
  <2>2. /\ sent' = sent + 1 /\ pc' = pc /\ pc = "send" /\ sent < Len(extracted)
        /\ extracted' = extracted /\ Jobs' = Jobs
    BY <1>9 DEF Send, Jobs
  <2> QED
    BY <1>0, <2>1, <2>2 DEF Becomes
<1>10. ASSUME NEW w \in Jobs, WorkerStep(w) PROVE Numbers'
  <2>1. UNCHANGED <<pc, sent, extracted>> /\ Jobs' = Jobs
    BY <1>10 DEF WorkerStep, Take, ReceiveClosed, RunWrites, RunReturns, Put, WgDone, rest, Jobs
  <2>2. CASE Take(w)
    <3>1. Becomes(w, "receive", worker[w].i, Head(pool)) /\ worker[w].pc = "take"
      BY <2>2, WorkerSteps DEF Take
    <3> QED
      BY <1>0, <2>1, <3>1 DEF Becomes
  <2>3. CASE ReceiveClosed(w)
    <3>1. Becomes(w, "put", worker[w].i, worker[w].r) /\ pc = "wait"
      BY <2>3, WorkerSteps DEF ReceiveClosed
    <3> QED
      BY <1>0, <2>1, <3>1 DEF Becomes
  <2>4. CASE RunWrites(w)
    <3>1. worker[w].pc = "run"
      BY <2>4 DEF RunWrites
    <3>2. \/ Becomes(w, "read", worker[w].i, worker[w].r)
          \/ Becomes(w, "receive", worker[w].i, worker[w].r)
      BY <2>4, WorkerSteps
    <3> QED
      BY <1>0, <2>1, <3>1, <3>2 DEF Becomes
  <2>5. CASE RunReturns(w)
    <3>1. Becomes(w, "receive", worker[w].i, worker[w].r) /\ worker[w].pc = "read"
      BY <2>5, WorkerSteps DEF RunReturns
    <3> QED
      BY <1>0, <2>1, <3>1 DEF Becomes
  <2>6. CASE Put(w)
    <3>1. Becomes(w, "finish", worker[w].i, worker[w].r) /\ worker[w].pc = "put"
      BY <2>6, WorkerSteps DEF Put
    <3> QED
      BY <1>0, <2>1, <3>1 DEF Becomes
  <2>7. CASE WgDone(w)
    <3>1. Becomes(w, "done", worker[w].i, 0) /\ worker[w].pc = "finish"
      BY <2>7, WorkerSteps DEF WgDone
    <3> QED
      BY <1>0, <2>1, <3>1 DEF Becomes
  <2> QED
    BY <1>10, <2>2, <2>3, <2>4, <2>5, <2>6, <2>7 DEF WorkerStep
<1>11. CASE \E r \in Jobs : OracleAnswers(r) \/ OracleExits(r)
  BY <1>11, <1>c DEF OracleAnswers, OracleExits, others, memory
<1>12. CASE \E s \in Names : CheckParse(s)
  BY <1>12, <1>c DEF CheckParse, memory
<1>13. CASE Rest \/ UNCHANGED vars
  BY <1>13, <1>c DEF Rest, vars, memory
<1> QED
  BY <1>1, <1>2, <1>3, <1>4, <1>5, <1>6, <1>7, <1>8, <1>9, <1>10, <1>11, <1>12, <1>13
  DEF Next, MainStep, Names

LEMMA HeldInit == Init => Held
<1> SUFFICES ASSUME Init PROVE Held
  OBVIOUS
<1>1. jobs \in Nat /\ Jobs \subseteq Runners
  BY JobsAssumption DEF Init, Jobs
<1>2. worker = [w \in Runners |-> Away] /\ pool = <<>> /\ pc = "off"
  BY DEF Init
<1>3. \A w \in Jobs : worker[w].pc = "done" /\ worker[w].r = 0
  BY <1>1, <1>2 DEF Away
<1> QED
  BY <1>1, <1>2, <1>3 DEF Held, NotShared, OneHolder, OnePlace, NoneLost, Holds, InPool, Working, InScript

(* A worker that keeps its runner disturbs nobody.                         *)
LEMMA HolderMoves ==
  ASSUME Held, NEW w \in Jobs, NEW to, NEW i, Becomes(w, to, i, worker[w].r), Holds(w),
         to \in {"receive", "run", "read", "put"}, Jobs \subseteq Runners,
         UNCHANGED <<pool, pc, jobs>>
  PROVE  Held'
<1>1. Jobs' = Jobs /\ Working' = Working /\ pool' = pool /\ jobs' = jobs
  BY DEF Jobs, Working, InScript
<1>2. \A v \in Jobs : (Holds(v)' <=> Holds(v)) /\ worker'[v].r = worker[v].r
  BY DEF Becomes, Holds
<1>3. \A r \in Jobs : InPool(r)' <=> InPool(r)
  BY <1>1 DEF InPool
<1>4. \A v \in Jobs : worker'[v].pc \in {"take", "done"} => worker[v].pc \in {"take", "done"}
  BY DEF Becomes
<1>5. NotShared'
  BY <1>1, <1>2, <1>3, <1>4 DEF Held, NotShared
<1>6. OneHolder'
  BY <1>1, <1>2 DEF Held, OneHolder
<1>7. OnePlace'
  BY <1>1 DEF Held, OnePlace
<1>8. NoneLost'
  BY <1>1, <1>2, <1>3 DEF Held, NoneLost
<1> QED
  BY <1>5, <1>6, <1>7, <1>8 DEF Held

LEMMA TakeKeepsHeld ==
  ASSUME MainTypes, WorkTypes, Held, NEW w \in Jobs, Take(w), Jobs \subseteq Runners
  PROVE  Held'
<1>0. /\ pool \in Seq(Jobs) /\ Len(pool) \in Nat /\ DOMAIN pool = 1 .. Len(pool)
      /\ Jobs' = Jobs /\ jobs' = jobs /\ Working' = Working
  BY LenProperties DEF WorkTypes, Take, rest, Jobs, Working, InScript
<1>1. /\ Becomes(w, "receive", worker[w].i, Head(pool)) /\ worker[w].pc = "take"
      /\ pool # <<>> /\ pool' = Tail(pool)
  BY WorkerSteps DEF Take
<1>2. /\ Head(pool) = pool[1] /\ Len(pool) >= 1
      /\ pool' \in Seq(Jobs) /\ Len(pool') = Len(pool) - 1
      /\ \A n \in 1 .. Len(pool') : pool'[n] = pool[n + 1]
  BY <1>0, <1>1, HeadTailProperties, EmptySeq
<1>3. DOMAIN pool' = 1 .. Len(pool) - 1
  BY <1>2, LenProperties
<1>4. \A r \in Jobs : InPool(r)' <=> InPool(r) /\ r # pool[1]
  <2> SUFFICES ASSUME NEW r \in Jobs PROVE InPool(r)' <=> InPool(r) /\ r # pool[1]
    OBVIOUS
  <2>1. ASSUME InPool(r)' PROVE InPool(r) /\ r # pool[1]
    <3>1. PICK n \in 1 .. Len(pool) - 1 : pool[n + 1] = r
      BY <1>2, <1>3, <2>1 DEF InPool
    <3>2. n + 1 \in DOMAIN pool /\ 1 \in DOMAIN pool /\ n + 1 # 1
      BY <1>0, <1>2
    <3> QED
      BY <3>1, <3>2 DEF InPool, Held, OnePlace
  <2>2. ASSUME InPool(r), r # pool[1] PROVE InPool(r)'
    <3>1. PICK n \in DOMAIN pool : pool[n] = r
      BY <2>2 DEF InPool
    <3>2. n - 1 \in 1 .. Len(pool) - 1
      BY <1>0, <2>2, <3>1
    <3>3. pool'[n - 1] = r
      BY <1>0, <1>2, <3>1, <3>2
    <3> QED
      BY <1>3, <3>2, <3>3 DEF InPool
  <2> QED
    BY <2>1, <2>2
<1>5. OnePlace'
  <2> SUFFICES ASSUME NEW m \in 1 .. Len(pool) - 1, NEW n \in 1 .. Len(pool) - 1, pool'[m] = pool'[n]
               PROVE  m = n
    BY <1>3 DEF OnePlace
  <2>1. pool[m + 1] = pool[n + 1] /\ m + 1 \in DOMAIN pool /\ n + 1 \in DOMAIN pool
    BY <1>0, <1>2
  <2>2. m + 1 = n + 1
    BY <2>1 DEF Held, OnePlace
  <2> QED
    BY <1>0, <2>2
<1>6. pool[1] \in Jobs /\ InPool(pool[1]) /\ pool[1] \in 0 .. jobs
  <2>1. 1 \in DOMAIN pool /\ pool[1] \in Jobs
    BY <1>0, <1>2, ElementOfSeq
  <2>2. jobs \in Nat
    BY JobsAssumption DEF MainTypes
  <2> QED
    BY <2>1, <2>2 DEF InPool, Jobs
<1>7. /\ Holds(w)' /\ worker'[w].r = pool[1] /\ ~Holds(w)
      /\ \A v \in Jobs \ {w} : worker'[v] = worker[v] /\ (Holds(v)' <=> Holds(v))
  BY <1>1, <1>2 DEF Becomes, Holds
<1>8. NotShared'
  BY <1>0, <1>1, <1>4, <1>6, <1>7 DEF Held, NotShared, Becomes
<1>9. OneHolder'
  BY <1>0, <1>6, <1>7 DEF Held, NotShared, OneHolder
<1>10. NoneLost'
  <2>1. CASE ~Working
    BY <1>0, <2>1 DEF NoneLost
  <2>2. CASE Working
    <3> SUFFICES ASSUME NEW r \in Jobs
                 PROVE  InPool(r)' \/ \E v \in Jobs : Holds(v)' /\ worker'[v].r = r
      BY <1>0 DEF NoneLost
    <3>1. CASE r = pool[1]
      BY <1>7, <3>1
    <3>2. CASE r # pool[1] /\ InPool(r)
      BY <1>4, <3>2
    <3>3. CASE \E v \in Jobs : Holds(v) /\ worker[v].r = r
      BY <1>7, <3>3
    <3> QED
      BY <2>2, <3>1, <3>2, <3>3 DEF Held, NoneLost
  <2> QED
    BY <2>1, <2>2
<1> QED
  BY <1>5, <1>8, <1>9, <1>10 DEF Held

LEMMA PutKeepsHeld ==
  ASSUME MainTypes, WorkTypes, Held, NEW w \in Jobs, Put(w), Jobs \subseteq Runners
  PROVE  Held'
<1>0. /\ pool \in Seq(Jobs) /\ Len(pool) \in Nat /\ DOMAIN pool = 1 .. Len(pool)
      /\ Jobs' = Jobs /\ jobs' = jobs /\ Working' = Working
  BY LenProperties DEF WorkTypes, Put, rest, Jobs, Working, InScript
<1>1. /\ Becomes(w, "finish", worker[w].i, worker[w].r) /\ worker[w].pc = "put"
      /\ pool' = Append(pool, worker[w].r)
  BY WorkerSteps DEF Put
<1>2. Holds(w) /\ worker[w].r \in Jobs /\ ~InPool(worker[w].r)
  BY <1>1 DEF Held, NotShared, Holds
<1>3. /\ pool' \in Seq(Jobs) /\ Len(pool') = Len(pool) + 1
      /\ \A n \in 1 .. Len(pool) : pool'[n] = pool[n]
      /\ pool'[Len(pool) + 1] = worker[w].r
  BY <1>0, <1>1, <1>2, AppendProperties
<1>4. DOMAIN pool' = 1 .. Len(pool) + 1
  BY <1>3, LenProperties
<1>5. \A r \in Jobs : InPool(r)' <=> InPool(r) \/ r = worker[w].r
  <2> SUFFICES ASSUME NEW r \in Jobs PROVE InPool(r)' <=> InPool(r) \/ r = worker[w].r
    OBVIOUS
  <2>1. Len(pool) + 1 \in DOMAIN pool' /\ DOMAIN pool \subseteq DOMAIN pool'
    BY <1>0, <1>4
  <2>2. \A n \in DOMAIN pool' : n \in DOMAIN pool \/ n = Len(pool) + 1
    BY <1>0, <1>4
  <2>3. \A n \in DOMAIN pool : pool'[n] = pool[n]
    BY <1>0, <1>3
  <2> QED
    BY <1>3, <2>1, <2>2, <2>3 DEF InPool
<1>6. OnePlace'
  <2> SUFFICES ASSUME NEW m \in 1 .. Len(pool) + 1, NEW n \in 1 .. Len(pool) + 1,
                      pool'[m] = pool'[n], m < n
               PROVE  FALSE
    BY <1>0, <1>4 DEF OnePlace
  <2>1. m \in DOMAIN pool /\ pool'[m] = pool[m]
    BY <1>0, <1>3
  <2>2. CASE n = Len(pool) + 1
    BY <1>2, <1>3, <2>1, <2>2 DEF InPool
  <2>3. CASE n # Len(pool) + 1
    <3>1. n \in DOMAIN pool /\ pool'[n] = pool[n]
      BY <1>0, <1>3, <2>3
    <3>2. m = n
      BY <2>1, <3>1 DEF Held, OnePlace
    <3> QED
      BY <3>2
  <2> QED
    BY <2>2, <2>3
<1>7. /\ ~Holds(w)' /\ worker'[w].r = worker[w].r
      /\ \A v \in Jobs \ {w} : worker'[v] = worker[v] /\ (Holds(v)' <=> Holds(v))
  BY <1>1 DEF Becomes, Holds
<1>8. \A v \in Jobs \ {w} : Holds(v) => worker[v].r # worker[w].r
  BY <1>2 DEF Held, OneHolder
<1>9. NotShared'
  BY <1>0, <1>1, <1>5, <1>7, <1>8 DEF Held, NotShared, Becomes
<1>10. OneHolder'
  BY <1>0, <1>7 DEF Held, OneHolder
<1>11. NoneLost'
  <2>1. CASE ~Working
    BY <1>0, <2>1 DEF NoneLost
  <2>2. CASE Working
    <3> SUFFICES ASSUME NEW r \in Jobs
                 PROVE  InPool(r)' \/ \E v \in Jobs : Holds(v)' /\ worker'[v].r = r
      BY <1>0 DEF NoneLost
    <3>1. CASE r = worker[w].r \/ InPool(r)
      BY <1>5, <3>1
    <3>2. CASE \E v \in Jobs \ {w} : Holds(v) /\ worker[v].r = r
      BY <1>7, <3>2
    <3> QED
      BY <2>2, <3>1, <3>2 DEF Held, NoneLost
  <2> QED
    BY <2>1, <2>2
<1> QED
  BY <1>6, <1>9, <1>10, <1>11 DEF Held

LEMMA DoneKeepsHeld ==
  ASSUME MainTypes, WorkTypes, Held, NEW w \in Jobs, WgDone(w), Jobs \subseteq Runners
  PROVE  Held'
<1>1. Becomes(w, "done", worker[w].i, 0) /\ worker[w].pc = "finish"
  BY WorkerSteps DEF WgDone
<1>2. Jobs' = Jobs /\ jobs' = jobs /\ Working' = Working /\ pool' = pool /\ jobs \in Nat
  BY JobsAssumption DEF MainTypes, WgDone, rest, Jobs, Working, InScript
<1>3. /\ ~Holds(w)' /\ ~Holds(w) /\ worker'[w].r = 0
      /\ \A v \in Jobs \ {w} : worker'[v] = worker[v] /\ (Holds(v)' <=> Holds(v))
  BY <1>1 DEF Becomes, Holds
<1>4. \A r \in Jobs : InPool(r)' <=> InPool(r)
  BY <1>2 DEF InPool
<1>5. NotShared'
  BY <1>1, <1>2, <1>3, <1>4 DEF Held, NotShared, Becomes
<1>6. OneHolder'
  BY <1>2, <1>3 DEF Held, OneHolder
<1>7. OnePlace'
  BY <1>2 DEF Held, OnePlace
<1>8. NoneLost'
  BY <1>2, <1>3, <1>4 DEF Held, NoneLost
<1> QED
  BY <1>5, <1>6, <1>7, <1>8 DEF Held

LEMMA HeldStep ==
  ASSUME MainTypes, WorkTypes, Numbers, Held, [Next]_vars
  PROVE  Held'
<1>0. jobs \in Nat /\ Jobs \subseteq Runners /\ Jobs = 1 .. jobs
  BY JobsAssumption DEF MainTypes, Jobs
<1>a. ASSUME \E how : Ends(how), jobs' = jobs PROVE Held'
  <2>1. worker' = [w \in Runners |-> Away] /\ pool' = <<>> /\ pc' = "off" /\ Jobs' = Jobs
    BY <1>a DEF Ends, Jobs
  <2>2. \A w \in Jobs : worker'[w].pc = "done" /\ worker'[w].r = 0
    BY <1>0, <2>1 DEF Away
  <2> QED
    BY <1>0, <1>a, <2>1, <2>2 DEF Held, NotShared, OneHolder, OnePlace, NoneLost, Holds, InPool, Working,
       InScript
<1>b. ASSUME UNCHANGED <<jobs, pool, worker>>, Working' => Working PROVE Held'
  <2>1. Jobs' = Jobs
    BY <1>b DEF Jobs
  <2> QED
    BY <1>b, <2>1 DEF Held, NotShared, OneHolder, OnePlace, NoneLost, Holds, InPool
<1>1. CASE Launch \/ OracleBuilt \/ AllScripts
  BY <1>1, <1>b DEF Launch, OracleBuilt, AllScripts, memory, Working, InScript
<1>2. CASE Artifact
  BY <1>2, <1>b DEF Artifact, memory, Working, InScript
<1>3. CASE Crash
  BY <1>3, <1>a DEF Crash
<1>4. CASE ArtifactError \/ NotExecutable \/ MetadataError \/ MainReturns \/ AllAsleep \/ RunError
  BY <1>4, <1>a DEF ArtifactError, NotExecutable, MetadataError, MainReturns, AllAsleep, RunError, Fatal
<1>5. CASE NewPool
  <2>1. pool' = [n \in Jobs |-> n] /\ worker' = worker /\ Jobs' = Jobs /\ pc = "pool" /\ jobs' = jobs
    BY <1>5 DEF NewPool, Jobs
  <2>2. \A w \in Jobs : worker[w].pc = "done" /\ worker[w].r = 0
    BY <1>0, <2>1 DEF Numbers, Held, NotShared
  <2>3. \A r \in Jobs : InPool(r)'
    BY <2>1 DEF InPool
  <2>4. \A m, n \in DOMAIN pool' : pool'[m] = pool'[n] => m = n
    BY <2>1
  <2> QED
    BY <1>0, <2>1, <2>2, <2>3, <2>4 DEF Held, NotShared, OneHolder, OnePlace, NoneLost, Holds
<1>6. CASE Snapshot
  <2>1. /\ worker' = [w \in Runners |-> IF w \in Jobs THEN [Away EXCEPT !.pc = "take"] ELSE Away]
        /\ pool' = pool /\ Jobs' = Jobs /\ jobs' = jobs /\ pc = "file"
    BY <1>6 DEF Snapshot, Jobs
  <2>2. \A w \in Jobs : worker'[w].pc = "take" /\ worker'[w].r = 0
    BY <1>0, <2>1 DEF Away
  <2>3. \A w \in Jobs : worker[w].pc = "done"
    BY <1>0, <2>1 DEF Numbers
  <2>4. \A r \in Jobs : InPool(r)
    BY <2>1, <2>3 DEF Held, NoneLost, Holds, Working
  <2>5. /\ \A r \in Jobs : InPool(r)'
        /\ OnePlace'
    BY <2>1, <2>4 DEF InPool, Held, OnePlace
  <2>6. Jobs' = Jobs /\ jobs' = jobs
    BY <2>1
  <2> QED
    BY <1>0, <2>2, <2>5, <2>6 DEF Held, NotShared, OneHolder, NoneLost, Holds
<1>7. CASE CloseWork \/ WriteCorpus \/ WriteMetadata \/ RemoveCorpus \/ RemoveMetadata
  BY <1>7, <1>b DEF CloseWork, WriteCorpus, WriteMetadata, RemoveCorpus, RemoveMetadata, Waited,
     NextFileName, memory, Working, InScript
<1>8. ASSUME NEW w \in Jobs, Send(w) PROVE Held'
  <2>1. Becomes(w, "run", sent + 1, worker[w].r) /\ Holds(w)
    BY <1>8, WorkerSteps DEF Send, Holds
  <2>2. UNCHANGED <<pool, pc, jobs>>
    BY <1>8 DEF Send
  <2> QED
    BY <1>0, <2>1, <2>2, HolderMoves
<1>9. ASSUME NEW w \in Jobs, ReceiveClosed(w) \/ RunWrites(w) \/ RunReturns(w) PROVE Held'
  <2>1. PICK to \in {"receive", "read", "put"} : Becomes(w, to, worker[w].i, worker[w].r)
    BY <1>9, WorkerSteps
  <2>2. Holds(w)
    BY <1>9 DEF ReceiveClosed, RunWrites, RunReturns, Holds
  <2>3. UNCHANGED <<pool, pc, jobs>>
    BY <1>9 DEF ReceiveClosed, RunWrites, RunReturns, rest
  <2> QED
    BY <1>0, <2>1, <2>2, <2>3, HolderMoves
<1>10. ASSUME NEW w \in Jobs, Take(w) \/ Put(w) \/ WgDone(w) PROVE Held'
  BY <1>0, <1>10, TakeKeepsHeld, PutKeepsHeld, DoneKeepsHeld
<1>11. CASE \E r \in Jobs : OracleAnswers(r) \/ OracleExits(r)
  BY <1>11, <1>b DEF OracleAnswers, OracleExits, others, memory, Working, InScript
<1>12. CASE \E s \in Names : CheckParse(s)
  BY <1>12, <1>b DEF CheckParse, memory, Working, InScript
<1>13. CASE Rest \/ UNCHANGED vars
  BY <1>13, <1>b DEF Rest, vars, memory, Working, InScript
<1> QED
  BY <1>1, <1>2, <1>3, <1>4, <1>5, <1>6, <1>7, <1>8, <1>9, <1>10, <1>11, <1>12, <1>13
  DEF Next, MainStep, WorkerStep, Names

LEMMA TypedPart ==
  ASSUME NEW s \in Seq(Line), NEW m \in Nat \ {0}
  PROVE  /\ SubSeq(s, m, Len(s)) \in Seq(Line)
         /\ \A n \in 0 .. Len(s) : SubSeq(s, 1, n) \in Seq(Line)
  BY PartsOf

LEMMA PipeSteps ==
  ASSUME PipeTypes, NEW r \in Runners
  PROVE  /\ \A c : Ask(r, c) => Pipe(r, oracle[r].state, Append(oracle[r].asked, c), oracle[r].pipe)
         /\ Answer(r) => Pipe(r, "alive", Tail(oracle[r].asked),
                              oracle[r].pipe \o Reply(Head(oracle[r].asked)))
         /\ Exit(r) => \E n \in 0 .. Len(Lines(Head(oracle[r].asked))) :
                         Pipe(r, "dead", <<>>,
                              oracle[r].pipe \o SubSeq(Lines(Head(oracle[r].asked)), 1, n))
         /\ Read(r) => Pipe(r, oracle[r].state, oracle[r].asked,
                            IF Answered(r) THEN SubSeq(oracle[r].pipe, StopAt(r) + 1, Len(oracle[r].pipe))
                                           ELSE <<>>)
  BY PipeStepsOf DEF PipeTypes, Pipes, PipesOf, Line

LEMMA PipeTypesStep ==
  ASSUME MainTypes, WorkTypes, PipeTypes, Numbers, Held, [Next]_vars
  PROVE  PipeTypes'
<1>0. Jobs \subseteq Runners
  BY JobsAssumption DEF MainTypes, Jobs
<1>a. ASSUME \E how : Ends(how) PROVE PipeTypes'
  BY <1>a DEF Ends, NoProcess, Pipes, PipeTypes
<1>b. ASSUME UNCHANGED oracle PROVE PipeTypes'
  BY <1>b DEF PipeTypes
<1>c. ASSUME NEW r \in Runners, NEW state \in {"none", "alive", "dead"}, NEW asked \in Seq(Case),
             NEW pipe \in Seq(Line), Pipe(r, state, asked, pipe)
      PROVE  PipeTypes'
  <2>1. [state |-> state, asked |-> asked, pipe |-> pipe] \in Pipes
    BY DEF Pipes
  <2> QED
    BY <1>c, <2>1 DEF PipeTypes, Pipe
<1>d. \A r \in Runners : /\ oracle[r].state \in {"none", "alive", "dead"}
                         /\ oracle[r].asked \in Seq(Case) /\ oracle[r].pipe \in Seq(Line)
  BY DEF PipeTypes, Pipes
<1>1. CASE Launch \/ OracleBuilt \/ Artifact \/ AllScripts \/ Snapshot \/ CloseWork
  BY <1>1, <1>b DEF Launch, OracleBuilt, Artifact, AllScripts, Snapshot, CloseWork
<1>2. CASE Crash
  BY <1>2, <1>a DEF Crash
<1>3. CASE ArtifactError \/ NotExecutable \/ MetadataError \/ MainReturns \/ AllAsleep \/ RunError
  BY <1>3, <1>a DEF ArtifactError, NotExecutable, MetadataError, MainReturns, AllAsleep, RunError, Fatal
<1>4. CASE NewPool
  <2>1. NoProcess \in Pipes /\ Process("alive") \in Pipes /\ Process("dead") \in Pipes
    <3>1. \A state : Process(state) = [state |-> state, asked |-> <<>>, pipe |-> <<>>]
      BY DEF NoProcess, Process
    <3> QED
      BY <3>1, EmptySeq DEF NoProcess, Pipes
  <2> QED
    BY <1>4, <2>1 DEF NewPool, PipeTypes
<1>5. CASE WriteCorpus \/ WriteMetadata \/ RemoveCorpus \/ RemoveMetadata
  BY <1>5, <1>b DEF WriteCorpus, WriteMetadata, RemoveCorpus, RemoveMetadata
<1>6. ASSUME NEW w \in Jobs, Send(w) \/ Take(w) \/ ReceiveClosed(w) \/ Put(w) \/ WgDone(w) PROVE PipeTypes'
  BY <1>6, <1>b DEF Send, Take, ReceiveClosed, Put, WgDone
<1>7. ASSUME NEW w \in Jobs, RunWrites(w) PROVE PipeTypes'
  <2>1. worker[w].r \in Runners /\ extracted[worker[w].i] \in Case
    BY <1>0, <1>7, ElementOfSeq, LenProperties DEF RunWrites, Held, NotShared, Holds, Numbers, WorkTypes
  <2>2. CASE oracle' = oracle
    BY <2>2, <1>b
  <2>3. CASE Ask(worker[w].r, extracted[worker[w].i])
    <3>1. Append(oracle[worker[w].r].asked, extracted[worker[w].i]) \in Seq(Case)
      BY <1>d, <2>1, AppendProperties
    <3> QED
      <4>1. Pipe(worker[w].r, oracle[worker[w].r].state,
                 Append(oracle[worker[w].r].asked, extracted[worker[w].i]), oracle[worker[w].r].pipe)
        BY <2>1, <2>3, PipeSteps
      <4> QED
        BY <1>c, <1>d, <2>1, <3>1, <4>1
  <2> QED
    BY <1>7, <2>2, <2>3 DEF RunWrites
<1>8. ASSUME NEW w \in Jobs, RunReturns(w) PROVE PipeTypes'
  <2> DEFINE r == worker[w].r
  <2>1. r \in Runners /\ Read(r)
    BY <1>0, <1>8 DEF RunReturns, Held, NotShared, Holds
  <2>2. CASE Answered(r)
    <3>1. StopAt(r) + 1 \in Nat \ {0}
      BY <1>d, <2>1, <2>2, StopAtIsFirst
    <3>2. SubSeq(oracle[r].pipe, StopAt(r) + 1, Len(oracle[r].pipe)) \in Seq(Line)
      BY <1>d, <2>1, <3>1, TypedPart
    <3> QED
      BY <1>c, <1>d, <2>1, <2>2, <3>2, PipeSteps
  <2>3. CASE ~Answered(r)
    <3>1. Pipe(r, oracle[r].state, oracle[r].asked, <<>>)
      BY <2>1, <2>3, PipeSteps
    <3> QED
      BY <1>c, <1>d, <2>1, <3>1, EmptySeq
  <2> QED
    BY <2>2, <2>3
<1>9. ASSUME NEW r \in Jobs, OracleAnswers(r) PROVE PipeTypes'
  <2>1. r \in Runners /\ Answer(r) /\ oracle[r].asked # <<>>
    BY <1>0, <1>9 DEF OracleAnswers, Answer
  <2>2. Head(oracle[r].asked) \in Case /\ Tail(oracle[r].asked) \in Seq(Case)
    BY <1>d, <2>1, HeadTailProperties
  <2>3. oracle[r].pipe \o Reply(Head(oracle[r].asked)) \in Seq(Line)
    BY <1>d, <2>1, <2>2, ReplyFacts, ConcatProperties
  <2> QED
    BY <1>c, <2>1, <2>2, <2>3, PipeSteps
<1>10. ASSUME NEW r \in Jobs, OracleExits(r) PROVE PipeTypes'
  <2>1. r \in Runners /\ Exit(r) /\ oracle[r].asked # <<>>
    BY <1>0, <1>10 DEF OracleExits, Exit
  <2>2. Head(oracle[r].asked) \in Case
    BY <1>d, <2>1, HeadTailProperties
  <2>3. PICK n \in 0 .. Len(Lines(Head(oracle[r].asked))) :
          Pipe(r, "dead", <<>>, oracle[r].pipe \o SubSeq(Lines(Head(oracle[r].asked)), 1, n))
    BY <2>1, PipeSteps
  <2>4. SubSeq(Lines(Head(oracle[r].asked)), 1, n) \in Seq(Line)
    BY <2>2, ReplyFacts, TypedPart
  <2>5. oracle[r].pipe \o SubSeq(Lines(Head(oracle[r].asked)), 1, n) \in Seq(Line)
    BY <1>d, <2>1, <2>4, ConcatProperties
  <2> QED
    BY <1>c, <2>1, <2>3, <2>5, EmptySeq
<1>11. CASE \E s \in Names : CheckParse(s)
  BY <1>11, <1>b DEF CheckParse
<1>12. CASE Rest \/ UNCHANGED vars
  BY <1>12, <1>b DEF Rest, vars
<1> QED
  BY <1>1, <1>2, <1>3, <1>4, <1>5, <1>6, <1>7, <1>8, <1>9, <1>10, <1>11, <1>12
  DEF Next, MainStep, WorkerStep, Names

---------------------------------------------------------------------------
(* The files.                                                              *)

LEMMA NameIsOne ==
  ASSUME MainTypes
  PROVE  /\ InScript => Name \in Names /\ idx \in DOMAIN Scripts
         /\ idx \in names => Name \in Names
  BY DEF MainTypes, Name, Names, ToSet

LEMMA NothingThere == DOMAIN NoCorpus.cases = {} /\ NoCorpus.state = "none"
  BY DEF NoCorpus

LEMMA WrittenFacts ==
  ASSUME WorkTypes
  PROVE  /\ DOMAIN Written = {extracted[n] : n \in Kept}
         /\ DOMAIN Written \subseteq ToSet(extracted) /\ ToSet(extracted) \subseteq Case
         /\ \A c \in DOMAIN Written : \E n \in Kept : extracted[n] = c /\ Written[c] = cases[n]
<1>1. DOMAIN Written = {extracted[n] : n \in Kept}
  BY DEF Written
<1>2. Kept \subseteq DOMAIN extracted
  BY DEF Kept
<1>3. ToSet(extracted) \subseteq Case
  BY LenProperties, ElementOfSeq DEF WorkTypes, ToSet
<1>4. ASSUME NEW c \in DOMAIN Written PROVE \E n \in Kept : extracted[n] = c /\ Written[c] = cases[n]
  <2>1. \E n \in Kept : extracted[n] = c
    BY <1>1
  <2>2. Written[c] = cases[CHOOSE n \in Kept : extracted[n] = c]
    BY <1>1 DEF Written
  <2> QED
    BY <2>1, <2>2
<1> QED
  BY <1>1, <1>2, <1>3, <1>4 DEF ToSet

(* A crash leaves a corpus that is one of these.                           *)
LEMMA TornCorpusFacts ==
  ASSUME TornCorpus, WorkTypes, DOMAIN corpus = Names, Name \in Names
  PROVE  \/ corpus' = corpus
         \/ \E f : /\ corpus' = [corpus EXCEPT ![Name] = f]
                   /\ f.state \in {"cut", "unreadable"} /\ DOMAIN f.cases \subseteq Case
<1>1. CASE corpus' = corpus
  BY <1>1
<1>2. ASSUME NEW n \in 0 .. Len(extracted),
             corpus' = [corpus EXCEPT ![Name] = [state |-> "cut",
               cases |-> [c \in {extracted[m] : m \in {k \in Kept : k < n}} |-> Written[c]]]]
      PROVE  \E f : /\ corpus' = [corpus EXCEPT ![Name] = f]
                    /\ f.state \in {"cut", "unreadable"} /\ DOMAIN f.cases \subseteq Case
  <2> DEFINE f == [state |-> "cut",
                   cases |-> [c \in {extracted[m] : m \in {k \in Kept : k < n}} |-> Written[c]]]
  <2>1. DOMAIN f.cases \subseteq {extracted[m] : m \in Kept}
    OBVIOUS
  <2>2. f.state = "cut"
    OBVIOUS
  <2>3. {extracted[m] : m \in Kept} \subseteq Case
    BY WrittenFacts
  <2>4. corpus' = [corpus EXCEPT ![Name] = f]
    BY <1>2
  <2> HIDE DEF f
  <2> QED
    BY <2>1, <2>2, <2>3, <2>4
<1>3. ASSUME corpus' = [corpus EXCEPT ![Name] = [state |-> "unreadable", cases |-> <<>>]]
      PROVE  \E f : /\ corpus' = [corpus EXCEPT ![Name] = f]
                    /\ f.state \in {"cut", "unreadable"} /\ DOMAIN f.cases \subseteq Case
  <2> DEFINE f == [state |-> "unreadable", cases |-> <<>>]
  <2>1. f.state = "unreadable" /\ DOMAIN f.cases = {}
    OBVIOUS
  <2>2. corpus' = [corpus EXCEPT ![Name] = f]
    BY <1>3
  <2> HIDE DEF f
  <2> QED
    BY <2>1, <2>2
<1> QED
  BY <1>1, <1>2, <1>3 DEF TornCorpus

LEMMA FileTypesInit == Init => FileTypes
<1> SUFFICES ASSUME Init PROVE FileTypes
  OBVIOUS
<1>1. PICK was \in InitialFiles(Scripts[1]) :
        /\ corpus = [s \in Names |-> IF s = Scripts[1] THEN was.corpus ELSE NoCorpus]
        /\ todo = [s \in Names |-> IF s = Scripts[1] THEN was.todo ELSE NoTodo]
        /\ passed = [s \in Names |-> IF s = Scripts[1] THEN DOMAIN was.corpus.cases \ was.todo.cases ELSE {}]
  BY DEF Init, Names
<1>2. NoTodo \in TodoFile
  BY DEF NoTodo, Todo, TodoFile
<1>3. CASE Scripts[1] \notin Names
  <2>1. \A s \in Names : corpus[s] = NoCorpus /\ todo[s] = NoTodo /\ passed[s] = {}
    BY <1>1, <1>3
  <2> QED
    BY <1>1, <1>2, <2>1, NothingThere DEF FileTypes, Init
<1>4. CASE Scripts[1] \in Names
  <2>1. FirstCase(Scripts[1]) \subseteq Case
    BY <1>4, ConstantFacts, ElementOfSeq DEF FirstCase, Init
  <2>2. /\ was.corpus.state \in {"none", "whole"} /\ DOMAIN was.corpus.cases \subseteq Case
        /\ was.todo \in TodoFile
    <3>1. CASE was = [corpus |-> NoCorpus, todo |-> NoTodo]
      BY <1>2, <3>1, NothingThere
    <3>2. ASSUME NEW t \in {{}, FirstCase(Scripts[1])},
                 was = [corpus |-> [state |-> "whole",
                                    cases |-> [c \in {OldCase} \cup FirstCase(Scripts[1]) |-> Lines(c)]],
                        todo |-> Todo(t)]
          PROVE  /\ was.corpus.state = "whole" /\ DOMAIN was.corpus.cases \subseteq Case
                 /\ was.todo \in TodoFile
      <4>1. Todo(t) \in TodoFile
        BY <2>1 DEF Todo, TodoFile
      <4>2. was.todo = Todo(t) /\ was.corpus.state = "whole"
              /\ DOMAIN was.corpus.cases = {OldCase} \cup FirstCase(Scripts[1])
        BY <3>2
      <4> QED
        BY <2>1, <4>1, <4>2, ConstantFacts
    <3> QED
      BY <3>1, <3>2 DEF InitialFiles
  <2>3. \A s \in Names : corpus[s] = IF s = Scripts[1] THEN was.corpus ELSE NoCorpus
    BY <1>1
  <2>4. todo \in [Names -> TodoFile] /\ passed \in [Names -> SUBSET Case]
    BY <1>1, <1>2, <2>2
  <2>5. DOMAIN corpus = Names
    BY <1>1
  <2>6. broken \subseteq Names /\ cut \in BOOLEAN
    BY DEF Init
  <2> QED
    BY <2>2, <2>3, <2>4, <2>5, <2>6, NothingThere DEF FileTypes
<1> QED
  BY <1>3, <1>4

LEMMA FileTypesStep ==
  ASSUME MainTypes, WorkTypes, FileTypes, [Next]_vars
  PROVE  FileTypes'
<1>a. ASSUME UNCHANGED <<corpus, todo, passed, broken, cut>> PROVE FileTypes'
  BY <1>a DEF FileTypes
<1>b. ASSUME NEW f, corpus' = [corpus EXCEPT ![Name] = f], DOMAIN f.cases \subseteq Case,
             f.state \in {"none", "whole", "cut", "unreadable"}
      PROVE  /\ DOMAIN corpus' = Names
             /\ \A s \in Names : /\ corpus'[s].state \in {"none", "whole", "cut", "unreadable"}
                                 /\ DOMAIN corpus'[s].cases \subseteq Case
  <2>1. DOMAIN corpus' = Names /\ \A s \in Names : corpus'[s] = IF s = Name THEN f ELSE corpus[s]
    BY <1>b DEF FileTypes
  <2> QED
    BY <1>b, <2>1 DEF FileTypes
<1>1. CASE Launch \/ OracleBuilt \/ Artifact \/ AllScripts \/ NewPool \/ Snapshot \/ CloseWork
  BY <1>1, <1>a DEF Launch, OracleBuilt, Artifact, AllScripts, NewPool, Snapshot, CloseWork, files, past
<1>2. CASE ArtifactError \/ NotExecutable \/ MetadataError \/ MainReturns \/ AllAsleep \/ RunError
  BY <1>2, <1>a DEF ArtifactError, NotExecutable, MetadataError, MainReturns, AllAsleep, RunError, Fatal,
     files, past
<1>3. CASE Crash
  <2>1. cut' \in BOOLEAN
    BY <1>3 DEF Crash
  <2>2. passed' = passed
    BY <1>3 DEF Crash
  <2>3. Writing \/ pc = "metadata" => Name \in Names
    BY NameIsOne DEF Writing, Waited, InScript
  <2>4. /\ DOMAIN corpus' = Names
        /\ \A s \in Names : /\ corpus'[s].state \in {"none", "whole", "cut", "unreadable"}
                            /\ DOMAIN corpus'[s].cases \subseteq Case
    <3>1. CASE corpus' = corpus
      BY <3>1 DEF FileTypes
    <3>2. CASE corpus' # corpus
      <4>1. Writing /\ TornCorpus
        BY <1>3, <3>2 DEF Crash
      <4> QED
        BY <1>b, <2>3, <3>2, <4>1, TornCorpusFacts DEF FileTypes
    <3> QED
      BY <3>1, <3>2
  <2>5. todo' \in [Names -> TodoFile]
    <3>1. [state |-> "torn", cases |-> {}] \in TodoFile
      BY DEF TodoFile
    <3> QED
      BY <1>3, <3>1 DEF Crash, TornTodo, FileTypes
  <2>6. broken' \subseteq Names
    BY <1>3, <2>3 DEF Crash, FileTypes
  <2> QED
    BY <2>1, <2>2, <2>4, <2>5, <2>6 DEF FileTypes
<1>4. CASE WriteCorpus
  <2>1. DOMAIN Written \subseteq Case
    BY WrittenFacts
  <2>2. corpus' = [corpus EXCEPT ![Name] = [state |-> "whole", cases |-> Written]]
    BY <1>4 DEF WriteCorpus
  <2>3. passed' = [passed EXCEPT ![Name] = @ \cap DOMAIN Written]
    BY <1>4 DEF WriteCorpus, Keeps
  <2>4. passed' \in [Names -> SUBSET Case]
    BY <2>3 DEF FileTypes
  <2>5. UNCHANGED <<todo, broken, cut>>
    BY <1>4 DEF WriteCorpus
  <2>6. /\ DOMAIN corpus' = Names
        /\ \A s \in Names : /\ corpus'[s].state \in {"none", "whole", "cut", "unreadable"}
                            /\ DOMAIN corpus'[s].cases \subseteq Case
    BY <1>b, <2>1, <2>2
  <2> QED
    BY <2>4, <2>5, <2>6 DEF FileTypes
<1>5. CASE RemoveCorpus
  <2>1. corpus' = [corpus EXCEPT ![Name] = NoCorpus] /\ passed' = [passed EXCEPT ![Name] = @ \cap {}]
    BY <1>5 DEF RemoveCorpus, Keeps
  <2>2. passed' \in [Names -> SUBSET Case]
    BY <2>1 DEF FileTypes
  <2>3. UNCHANGED <<todo, broken, cut>>
    BY <1>5 DEF RemoveCorpus
  <2>4. /\ DOMAIN corpus' = Names
        /\ \A s \in Names : /\ corpus'[s].state \in {"none", "whole", "cut", "unreadable"}
                            /\ DOMAIN corpus'[s].cases \subseteq Case
    BY <1>b, <2>1, NothingThere
  <2> QED
    BY <2>2, <2>3, <2>4 DEF FileTypes
<1>6. CASE WriteMetadata \/ RemoveMetadata
  <2>1. Name \in Names
    BY <1>6, NameIsOne DEF WriteMetadata, RemoveMetadata, InScript
  <2>2. Merged \subseteq Case
    BY <2>1 DEF Merged, FileTypes
  <2>3. Todo(Merged) \in TodoFile /\ NoTodo \in TodoFile
    BY <2>2 DEF Todo, NoTodo, TodoFile
  <2>4. todo' \in [Names -> TodoFile]
    BY <1>6, <2>3 DEF WriteMetadata, RemoveMetadata, FileTypes
  <2>5. UNCHANGED <<corpus, passed, broken, cut>>
    BY <1>6 DEF WriteMetadata, RemoveMetadata, past
  <2> QED
    BY <2>4, <2>5 DEF FileTypes
<1>7. CASE \E w \in Jobs : Send(w) \/ WorkerStep(w)
  BY <1>7, <1>a DEF Send, WorkerStep, Take, ReceiveClosed, RunWrites, RunReturns, Put, WgDone, rest, files, past
<1>8. CASE \E r \in Jobs : OracleAnswers(r) \/ OracleExits(r)
  BY <1>8, <1>a DEF OracleAnswers, OracleExits, others, files, past
<1>9. ASSUME NEW s \in Names, CheckParse(s) PROVE FileTypes'
  <2>1. PICK passing \in SUBSET (todo[s].cases \cap DOMAIN corpus[s].cases) :
          /\ todo' = [todo EXCEPT ![s].cases = @ \ passing]
          /\ passed' = [passed EXCEPT ![s] = @ \cup passing]
    BY <1>9 DEF CheckParse
  <2>2. [todo[s] EXCEPT !.cases = @ \ passing] \in TodoFile
    BY DEF FileTypes, TodoFile
  <2>3. todo' \in [Names -> TodoFile]
    BY <2>1, <2>2 DEF FileTypes
  <2>4. passed' \in [Names -> SUBSET Case]
    BY <2>1 DEF FileTypes
  <2>5. UNCHANGED <<corpus, broken, cut>>
    BY <1>9 DEF CheckParse
  <2> QED
    BY <2>3, <2>4, <2>5 DEF FileTypes
<1>10. CASE Rest \/ UNCHANGED vars
  BY <1>10, <1>a DEF Rest, vars, files, past
<1> QED
  BY <1>1, <1>2, <1>3, <1>4, <1>5, <1>6, <1>7, <1>8, <1>9, <1>10 DEF Next, MainStep, Names

---------------------------------------------------------------------------
(* The first theorems: types, and the pool.                                *)

Core == PlaceTypes /\ MainTypes /\ WorkTypes /\ PipeTypes /\ FileTypes /\ Numbers /\ Held

LEMMA CoreHolds == Spec => []Core
<1>1. Init => Core
  BY PlaceInit, MainInit, WorkInit, FileTypesInit, HeldInit DEF Core
<1>2. Core /\ [Next]_vars => Core'
  BY PlaceStep, MainStepTypes, WorkTypesStep, PipeTypesStep, FileTypesStep, NumbersStep, HeldStep DEF Core
<1> QED
  BY <1>1, <1>2, PTL DEF Spec

(* Types, and no index leaves its slice: neither of the scripts, nor of    *)
(* the cases of one, nor of the runners.                                   *)
THEOREM TypeCorrect == Spec => []TypeOK
<1>1. Core => TypeOK
  <2> SUFFICES ASSUME Core PROVE TypeOK
    OBVIOUS
  <2>1. ArtifactTypeOK
    BY DEF Core, PlaceTypes, ArtifactTypeOK, Place
  <2>2. /\ jobs \in JobCounts /\ names \subseteq DOMAIN Scripts /\ idx \in 0 .. Len(Scripts) + 1
        /\ pc \in {"send", "wait", "metadata", "remove"} => idx \in names
    BY DEF Core, MainTypes, InScript
  <2>3. \A s \in Names : /\ corpus[s].state \in {"none", "whole", "cut", "unreadable"}
                         /\ todo[s].state \in {"whole", "torn"}
    BY DEF Core, FileTypes, TodoFile
  <2>4. sent \in 0 .. Len(extracted) /\ Len(extracted) \in Nat
    BY LenProperties DEF Core, WorkTypes
  <2>5. ASSUME NEW w \in Jobs PROVE worker[w].i \in 0 .. sent /\ worker[w].r \in 0 .. jobs
    <3>1. w \in Runners
      BY JobsAssumption DEF Core, MainTypes, Jobs
    <3>2. worker[w].i \in Nat /\ worker[w].i <= sent
      BY <2>5, <3>1 DEF Core, WorkTypes, Worker, Numbers
    <3>3. worker[w].r \in 0 .. jobs
      BY <2>5 DEF Core, Held, NotShared
    <3> QED
      BY <2>4, <3>2, <3>3
  <2> QED
    BY <2>1, <2>2, <2>3, <2>4, <2>5 DEF TypeOK, Names
<1> QED
  BY <1>1, CoreHolds, PTL

(* Every runner is in the pool or with one worker, and between two scripts *)
(* all of them are in the pool, with any number of workers and whatever    *)
(* their oracles do.                                                       *)
THEOREM PoolIsAccounted == Spec => []RunnersAccounted
<1>1. Core => RunnersAccounted
  <2> SUFFICES ASSUME Core, Working, NEW r \in Jobs
               PROVE  /\ Times(pool, r) + Cardinality({w \in Jobs : worker[w].pc \notin {"finish", "done"}
                                                                   /\ worker[w].r = r}) = 1
                      /\ pc \in {"file", "metadata", "remove"} => Times(pool, r) = 1
    BY DEF RunnersAccounted, Working, InScript
  <2>0. jobs \in Nat /\ r # 0 /\ Jobs \subseteq Runners
    BY JobsAssumption DEF Core, MainTypes, Jobs
  <2> DEFINE in == {n \in DOMAIN pool : pool[n] = r}
             with == {w \in Jobs : worker[w].pc \notin {"finish", "done"} /\ worker[w].r = r}
  <2>1. \A w \in Jobs : worker[w].pc \in {"take", "receive", "run", "read", "put", "finish", "done"}
    BY <2>0 DEF Core, WorkTypes, Worker
  <2>2. with = {w \in Jobs : Holds(w) /\ worker[w].r = r}
    BY <2>0, <2>1 DEF Core, Held, NotShared, Holds
  <2>3. CASE InPool(r)
    <3>1. PICK n \in DOMAIN pool : pool[n] = r
      BY <2>3 DEF InPool
    <3>2. in = {n}
      BY <3>1 DEF Core, Held, OnePlace
    <3>3. with = {}
      BY <2>2, <2>3 DEF Core, Held, NotShared
    <3>4. Cardinality(in) = 1 /\ Cardinality(with) = 0
      BY <3>2, <3>3, FS_Singleton, FS_EmptySet
    <3> QED
      BY <3>4 DEF Times
  <2>4. CASE ~InPool(r)
    <3>1. PICK w \in Jobs : Holds(w) /\ worker[w].r = r
      BY <2>4 DEF Core, Held, NoneLost
    <3>2. with = {w}
      BY <2>2, <3>1 DEF Core, Held, OneHolder
    <3>3. in = {}
      BY <2>4 DEF InPool
    <3>4. Cardinality(in) = 0 /\ Cardinality(with) = 1
      BY <3>2, <3>3, FS_Singleton, FS_EmptySet
    <3>5. pc \notin {"file", "metadata", "remove"}
      BY <2>0, <3>1 DEF Core, Numbers, Holds
    <3> QED
      BY <3>4, <3>5 DEF Times
  <2> QED
    BY <2>3, <2>4
<1> QED
  BY <1>1, CoreHolds, PTL

---------------------------------------------------------------------------
(* The corpus and its metadata.                                            *)

LEMMA TrustedInit == Init => Trusted
<1> SUFFICES ASSUME Init PROVE Trusted
  OBVIOUS
<1>1. PICK was \in InitialFiles(Scripts[1]) :
        /\ corpus = [s \in Names |-> IF s = Scripts[1] THEN was.corpus ELSE NoCorpus]
        /\ todo = [s \in Names |-> IF s = Scripts[1] THEN was.todo ELSE NoTodo]
        /\ passed = [s \in Names |-> IF s = Scripts[1] THEN DOMAIN was.corpus.cases \ was.todo.cases ELSE {}]
  BY DEF Init, Names
<1>2. /\ was.corpus.state \in {"none", "whole"} /\ was.todo.state = "whole"
  <2>1. CASE was = [corpus |-> NoCorpus, todo |-> NoTodo]
    BY <2>1, NothingThere DEF NoTodo, Todo
  <2>2. ASSUME NEW t \in {{}, FirstCase(Scripts[1])},
               was = [corpus |-> [state |-> "whole",
                                  cases |-> [c \in {OldCase} \cup FirstCase(Scripts[1]) |-> Lines(c)]],
                      todo |-> Todo(t)]
        PROVE  was.corpus.state = "whole" /\ was.todo.state = "whole"
    BY <2>2 DEF Todo
  <2> QED
    BY <2>1, <2>2 DEF InitialFiles
<1>3. ASSUME NEW s \in Names PROVE Intact(s) /\ Agrees(s)
  <2>1. CASE s = Scripts[1]
    BY <1>1, <1>2, <2>1 DEF Intact, Agrees
  <2>2. CASE s # Scripts[1]
    <3>1. corpus[s] = NoCorpus /\ todo[s] = NoTodo /\ passed[s] = {}
      BY <1>1, <2>2
    <3>2. NoTodo.state = "whole"
      BY DEF NoTodo, Todo
    <3> QED
      BY <3>1, <3>2, NothingThere DEF Intact, Agrees
  <2> QED
    BY <2>1, <2>2
<1>4. pc = "off"
  BY DEF Init
<1> QED
  BY <1>3, <1>4 DEF Trusted

(* What is needed when the program stops, or starts a script, is that the  *)
(* files are as they were.                                                 *)
LEMMA FilesAlone ==
  ASSUME Trusted, UNCHANGED <<corpus, todo, passed, broken>>,
         pc \notin {"metadata", "remove"}, pc' \notin {"send", "wait", "metadata", "remove"}
  PROVE  Trusted'
<1>1. \A s : ~BetweenTheTwo(s) /\ (Intact(s)' <=> Intact(s)) /\ (Agrees(s)' <=> Agrees(s))
  BY DEF BetweenTheTwo, Intact, Agrees
<1> QED
  BY <1>1 DEF Trusted

(* The files of every script but the one at hand.                          *)
LEMMA OtherFiles ==
  ASSUME FileTypes, Trusted, NEW f, NEW g, NEW p, NEW s \in Names \ {Name},
         corpus' = corpus \/ corpus' = [corpus EXCEPT ![Name] = f],
         todo' = todo \/ todo' = [todo EXCEPT ![Name] = g],
         passed' = passed \/ passed' = [passed EXCEPT ![Name] = p],
         s \notin broken
  PROVE  Intact(s)' /\ Agrees(s)'
<1>1. corpus'[s] = corpus[s] /\ todo'[s] = todo[s] /\ passed'[s] = passed[s]
  BY DEF FileTypes
<1>2. Intact(s) /\ Agrees(s)
  BY DEF Trusted, BetweenTheTwo
<1> QED
  BY <1>1, <1>2 DEF Intact, Agrees

LEMMA WriteKeepsTrusted ==
  ASSUME Core, Trusted, WriteCorpus
  PROVE  Trusted'
<1>0. FileTypes /\ Name \in Names /\ pc = "wait" /\ pc' = "metadata" /\ Snapped /\ Name' = Name
  BY NameIsOne DEF Core, Trusted, WriteCorpus, Waited, InScript, memory, Name
<1>1. /\ corpus' = [corpus EXCEPT ![Name] = [state |-> "whole", cases |-> Written]]
      /\ passed' = [passed EXCEPT ![Name] = passed[Name] \cap DOMAIN Written]
      /\ UNCHANGED <<todo, broken, prevCases, prevTodo>>
  BY DEF WriteCorpus, Keeps, memory
<1>2. /\ corpus'[Name].state = "whole" /\ corpus'[Name].cases = Written
      /\ passed'[Name] = passed[Name] \cap DOMAIN Written
  BY <1>0, <1>1 DEF FileTypes
<1>3. ASSUME NEW s \in Names \ {Name}, s \notin broken PROVE Intact(s)' /\ Agrees(s)'
  BY <1>0, <1>1, <1>3, OtherFiles
<1>4. ASSUME Name \notin broken PROVE Intact(Name)' /\ MergeDue'
  <2>1. Intact(Name) /\ Agrees(Name)
    BY <1>0, <1>4 DEF Trusted, BetweenTheTwo
  <2>2. Intact(Name)'
    BY <1>0, <1>1, <1>2, <2>1 DEF Intact
  <2>3. \A c : c \in passed[Name] <=> c \in prevCases /\ c \notin prevTodo
    BY <1>0, <2>1 DEF Intact, Agrees, Snapped
  <2>4. MergeDue'
    BY <1>0, <1>1, <1>2, <2>3 DEF MergeDue
  <2> QED
    BY <2>2, <2>4
<1>5. ~(pc' \in {"send", "wait", "remove"}) /\ broken' = broken
  BY <1>0, <1>1
<1>6. BetweenTheTwo(Name)'
  BY <1>0 DEF BetweenTheTwo
<1> QED
  BY <1>0, <1>3, <1>4, <1>5, <1>6 DEF Trusted

LEMMA RemoveKeepsTrusted ==
  ASSUME Core, Trusted, RemoveCorpus
  PROVE  Trusted'
<1>0. FileTypes /\ Name \in Names /\ pc = "wait" /\ pc' = "remove" /\ Name' = Name
  BY NameIsOne DEF Core, Trusted, RemoveCorpus, Waited, InScript, memory, Name
<1>1. /\ corpus' = [corpus EXCEPT ![Name] = NoCorpus]
      /\ passed' = [passed EXCEPT ![Name] = passed[Name] \cap {}]
      /\ UNCHANGED <<todo, broken>>
  BY DEF RemoveCorpus, Keeps
<1>2. corpus'[Name] = NoCorpus /\ passed'[Name] = {}
  BY <1>0, <1>1 DEF FileTypes
<1>3. ASSUME NEW s \in Names \ {Name}, s \notin broken PROVE Intact(s)' /\ Agrees(s)'
  BY <1>0, <1>1, <1>3, OtherFiles
<1>4. ASSUME Name \notin broken PROVE Intact(Name)'
  <2>1. Intact(Name)
    BY <1>0, <1>4 DEF Trusted
  <2>2. todo' = todo /\ Name' = Name /\ corpus'[Name] = NoCorpus /\ passed'[Name] = {}
    BY <1>0, <1>1, <1>2
  <2>3. corpus'[Name'].state = "none" /\ todo'[Name'].state = "whole" /\ passed'[Name'] = {}
    BY <2>1, <2>2, NothingThere DEF Intact
  <2> QED
    BY <2>3 DEF Intact
<1>5. DOMAIN corpus'[Name].cases = {}
  BY <1>2, NothingThere
<1>6. BetweenTheTwo(Name)'
  BY <1>0 DEF BetweenTheTwo
<1> QED
  BY <1>0, <1>1, <1>3, <1>4, <1>5, <1>6 DEF Trusted

LEMMA MetadataKeepsTrusted ==
  ASSUME Core, Trusted, WriteMetadata \/ RemoveMetadata
  PROVE  Trusted'
<1>0. FileTypes /\ Name \in Names /\ pc \in {"metadata", "remove"} /\ pc' = "file"
  BY NameIsOne DEF Core, WriteMetadata, RemoveMetadata, NextFileName, InScript
<1>1. UNCHANGED <<corpus, passed, broken>>
  BY DEF WriteMetadata, RemoveMetadata, past
<1>2. PICK t : /\ todo' = [todo EXCEPT ![Name] = Todo(t)]
               /\ pc = "metadata" => t = Merged
  BY DEF WriteMetadata, RemoveMetadata, NoTodo
<1>3. todo'[Name] = Todo(t) /\ Todo(t).state = "whole" /\ Todo(t).cases = t
  BY <1>0, <1>2 DEF FileTypes, Todo
<1>4. ASSUME NEW s \in Names \ {Name}, s \notin broken PROVE Intact(s)' /\ Agrees(s)'
  BY <1>0, <1>1, <1>2, <1>4, OtherFiles
<1>5. ASSUME Name \notin broken
      PROVE  /\ corpus[Name].state \in {"none", "whole"} /\ passed[Name] \subseteq DOMAIN corpus[Name].cases
             /\ \A c \in DOMAIN corpus[Name].cases : c \in passed[Name] <=> c \notin t
  <2>1. Intact(Name)
    BY <1>0, <1>5 DEF Trusted
  <2>2. CASE pc = "metadata"
    BY <1>2, <1>5, <2>1, <2>2 DEF Trusted, MergeDue, Merged, Intact
  <2>3. CASE pc = "remove"
    BY <2>1, <2>3 DEF Trusted, Intact
  <2> QED
    BY <1>0, <2>2, <2>3
<1>6. \A s \in Names : s \notin broken => Intact(s)' /\ Agrees(s)'
  <2> SUFFICES ASSUME NEW s \in Names, s \notin broken PROVE Intact(s)' /\ Agrees(s)'
    OBVIOUS
  <2>1. CASE s = Name
    <3>1. corpus'[s] = corpus[s] /\ passed'[s] = passed[s] /\ todo'[s].cases = t /\ todo'[s].state = "whole"
      BY <1>1, <1>3, <2>1
    <3> QED
      BY <1>5, <2>1, <3>1 DEF Intact, Agrees
  <2>2. CASE s # Name
    BY <1>4, <2>2
  <2> QED
    BY <2>1, <2>2
<1> QED
  BY <1>0, <1>1, <1>6 DEF Trusted

LEMMA CrashKeepsTrusted ==
  ASSUME Core, Trusted, Crash
  PROVE  Trusted'
<1>0. /\ FileTypes /\ pc' = "off" /\ passed' = passed
      /\ Writing \/ pc \in {"metadata", "remove"} => Name \in Names
  BY NameIsOne DEF Core, Crash, Ends, Writing, Waited, InScript
<1>1. /\ broken' = IF corpus' # corpus \/ pc = "metadata" THEN broken \cup {Name} ELSE broken
      /\ corpus' # corpus => Writing /\ TornCorpus
      /\ IF pc = "metadata" THEN TornTodo ELSE todo' = todo
  BY DEF Crash
<1>2. CASE corpus' # corpus \/ pc = "metadata"
  <2>1. Name \in Names /\ WorkTypes /\ DOMAIN corpus = Names
    BY <1>0, <1>1, <1>2 DEF Core, FileTypes
  <2>2. \E f : corpus' = corpus \/ corpus' = [corpus EXCEPT ![Name] = f]
    BY <1>1, <2>1, TornCorpusFacts
  <2>3. \E g : todo' = todo \/ todo' = [todo EXCEPT ![Name] = g]
    BY <1>1 DEF TornTodo
  <2>4. \A s \in Names : s \notin broken' => Intact(s)' /\ Agrees(s)'
    <3> SUFFICES ASSUME NEW s \in Names, s \notin broken' PROVE Intact(s)' /\ Agrees(s)'
      OBVIOUS
    <3>1. s \in Names \ {Name} /\ s \notin broken
      BY <1>1, <1>2
    <3> QED
      BY <1>0, <2>2, <2>3, <3>1, OtherFiles
  <2> QED
    BY <1>0, <2>4 DEF Trusted
<1>3. CASE corpus' = corpus /\ pc # "metadata"
  <2>1. UNCHANGED <<corpus, todo, passed, broken>>
    BY <1>0, <1>1, <1>3
  <2>2. CASE pc # "remove"
    BY <1>0, <1>3, <2>1, <2>2, FilesAlone
  <2>3. CASE pc = "remove"
    <3>1. DOMAIN corpus[Name].cases = {}
      BY <2>3 DEF Trusted
    <3>2. \A s \in Names : s \notin broken => Intact(s) /\ Agrees(s)
      BY <2>3, <3>1 DEF Trusted, BetweenTheTwo, Agrees
    <3>3. \A s \in Names : s \notin broken' => Intact(s)' /\ Agrees(s)'
      BY <2>1, <3>2 DEF Intact, Agrees
    <3> QED
      BY <1>0, <3>3 DEF Trusted
  <2> QED
    BY <2>2, <2>3
<1> QED
  BY <1>2, <1>3

LEMMA CheckKeepsTrusted ==
  ASSUME Core, Trusted, NEW t \in Names, CheckParse(t)
  PROVE  Trusted'
<1>0. FileTypes /\ pc = "off" /\ pc' = "off" /\ UNCHANGED <<corpus, broken>>
  BY DEF Core, CheckParse
<1>1. PICK passing \in SUBSET (todo[t].cases \cap DOMAIN corpus[t].cases) :
        /\ todo' = [todo EXCEPT ![t].cases = @ \ passing]
        /\ passed' = [passed EXCEPT ![t] = @ \cup passing]
  BY DEF CheckParse
<1>2. todo[t] \in TodoFile
  BY <1>0 DEF FileTypes
<1>3. /\ [todo[t] EXCEPT !.cases = @ \ passing].cases = todo[t].cases \ passing
      /\ [todo[t] EXCEPT !.cases = @ \ passing].state = todo[t].state
  BY <1>2 DEF TodoFile
<1>4. todo'[t] = [todo[t] EXCEPT !.cases = @ \ passing]
  BY <1>0, <1>1 DEF FileTypes
<1>5. todo'[t].cases = todo[t].cases \ passing /\ todo'[t].state = todo[t].state
        /\ passed'[t] = passed[t] \cup passing
  BY <1>0, <1>1, <1>3, <1>4 DEF FileTypes
<1>6. \A s \in Names \ {t} : todo'[s] = todo[s] /\ passed'[s] = passed[s]
  BY <1>0, <1>1 DEF FileTypes
<1>7. \A s \in Names : s \notin broken => Intact(s) /\ Agrees(s)
  BY <1>0 DEF Trusted, BetweenTheTwo
<1>8. ASSUME NEW s \in Names, s \notin broken PROVE Intact(s)' /\ Agrees(s)'
  <2>1. Intact(s) /\ Agrees(s) /\ corpus'[s] = corpus[s]
    BY <1>0, <1>7, <1>8
  <2>2. CASE s = t
    BY <1>5, <2>1, <2>2 DEF Intact, Agrees
  <2>3. CASE s # t
    <3>1. todo'[s] = todo[s] /\ passed'[s] = passed[s]
      BY <1>6, <2>3
    <3> QED
      BY <2>1, <3>1 DEF Intact, Agrees
  <2> QED
    BY <2>2, <2>3
<1> QED
  BY <1>0, <1>8 DEF Trusted

LEMMA TrustedStep == Core /\ Trusted /\ [Next]_vars => Trusted'
<1> SUFFICES ASSUME Core, Trusted, [Next]_vars PROVE Trusted'
  OBVIOUS
<1>a. ASSUME UNCHANGED <<corpus, todo, passed, broken, pc, idx, prevCases, prevTodo>> PROVE Trusted'
  <2>1. \A s : (BetweenTheTwo(s)' <=> BetweenTheTwo(s)) /\ (Intact(s)' <=> Intact(s))
                 /\ (Agrees(s)' <=> Agrees(s))
    BY <1>a DEF BetweenTheTwo, Name, Intact, Agrees
  <2>2. (Snapped' <=> Snapped) /\ (MergeDue' <=> MergeDue) /\ Name' = Name
    BY <1>a DEF Snapped, MergeDue, Name
  <2> QED
    BY <1>a, <2>1, <2>2 DEF Trusted
<1>1. CASE Launch \/ OracleBuilt \/ AllScripts \/ NewPool
  <2>1. /\ UNCHANGED <<corpus, todo, passed, broken>>
        /\ pc \notin {"metadata", "remove"} /\ pc' \notin {"send", "wait", "metadata", "remove"}
    BY <1>1 DEF Launch, OracleBuilt, AllScripts, NewPool, files, past
  <2> QED
    BY <2>1, FilesAlone
<1>2. CASE Artifact
  BY <1>2, <1>a DEF Artifact, files, past, memory
<1>3. CASE ArtifactError \/ NotExecutable \/ MetadataError \/ MainReturns \/ AllAsleep \/ RunError
  <2>1. /\ UNCHANGED <<corpus, todo, passed, broken>>
        /\ pc \notin {"metadata", "remove"} /\ pc' = "off"
    BY <1>3 DEF ArtifactError, NotExecutable, MetadataError, MainReturns, AllAsleep, RunError, Waited, Fatal,
       Ends, files, past
  <2> QED
    BY <2>1, FilesAlone
<1>4. CASE Snapshot
  <2>1. /\ UNCHANGED <<corpus, todo, passed, broken>> /\ pc = "file" /\ pc' = "send" /\ Name' = Name
        /\ prevCases' = DOMAIN corpus[Name].cases /\ prevTodo' = todo[Name].cases
        /\ todo[Name].state = "whole"
    BY <1>4 DEF Snapshot, files, past, Name
  <2>2. Snapped'
    BY <2>1 DEF Snapped
  <2>3. \A s : ~BetweenTheTwo(s) /\ ~BetweenTheTwo(s)' /\ (Intact(s)' <=> Intact(s))
                 /\ (Agrees(s)' <=> Agrees(s))
    BY <2>1 DEF BetweenTheTwo, Intact, Agrees
  <2> QED
    BY <2>1, <2>2, <2>3 DEF Trusted
<1>5. CASE CloseWork
  <2>1. /\ UNCHANGED <<corpus, todo, passed, broken, idx, prevCases, prevTodo>>
        /\ pc = "send" /\ pc' = "wait"
    BY <1>5 DEF CloseWork, files, past, memory
  <2>2. Snapped'
    BY <2>1 DEF Trusted, Snapped, Name
  <2>3. \A s : ~BetweenTheTwo(s) /\ ~BetweenTheTwo(s)' /\ (Intact(s)' <=> Intact(s))
                 /\ (Agrees(s)' <=> Agrees(s))
    BY <2>1 DEF BetweenTheTwo, Intact, Agrees
  <2> QED
    BY <2>1, <2>2, <2>3 DEF Trusted
<1>6. CASE WriteCorpus \/ RemoveCorpus \/ WriteMetadata \/ RemoveMetadata \/ Crash
  BY <1>6, WriteKeepsTrusted, RemoveKeepsTrusted, MetadataKeepsTrusted, CrashKeepsTrusted
<1>7. CASE \E w \in Jobs : Send(w) \/ WorkerStep(w)
  BY <1>7, <1>a DEF Send, WorkerStep, Take, ReceiveClosed, RunWrites, RunReturns, Put, WgDone, rest, files, past
<1>8. CASE \E r \in Jobs : OracleAnswers(r) \/ OracleExits(r)
  BY <1>8, <1>a DEF OracleAnswers, OracleExits, others, files, past, memory
<1>9. CASE \E s \in Names : CheckParse(s)
  BY <1>9, CheckKeepsTrusted
<1>10. CASE Rest \/ UNCHANGED vars
  BY <1>10, <1>a DEF Rest, vars, files, past, memory
<1> QED
  BY <1>1, <1>2, <1>3, <1>4, <1>5, <1>6, <1>7, <1>8, <1>9, <1>10 DEF Next, MainStep, Names

(* A case of a corpus that is not marked as todo has passed a test, and    *)
(* one that has passed is not marked again, unless a crash hit the update  *)
(* of the two files of its script.                                         *)
THEOREM MetadataIsTrusted == Spec => []TrustedIffPassed
<1>1. Core /\ Trusted => TrustedIffPassed
  <2> SUFFICES ASSUME Trusted, NEW s \in Names, corpus[s].state = "whole", s \notin broken, ~BetweenTheTwo(s)
               PROVE  /\ todo[s].state = "whole"
                      /\ DOMAIN corpus[s].cases \ todo[s].cases = DOMAIN corpus[s].cases \cap passed[s]
    BY DEF TrustedIffPassed, Names
  <2> QED
    BY DEF Trusted, Intact, Agrees
<1>2. Init => Core /\ Trusted
  BY PlaceInit, MainInit, WorkInit, FileTypesInit, HeldInit, TrustedInit DEF Core
<1>3. Trusted /\ Core /\ [Next]_vars => Trusted'
  BY TrustedStep
<1> QED
  BY <1>1, <1>2, <1>3, CoreHolds, PTL DEF Spec

---------------------------------------------------------------------------
(* What the corpus says of a case is what the oracle said of it. A runner  *)
(* is used for case after case, so the argument is about what one case may *)
(* leave in its pipe for the next.                                         *)

Reading(w) == worker[w].pc = "read"
Asked(w)   == extracted[worker[w].i]

Aligned ==
  firstErr = FALSE /\ Working =>
    /\ \A r \in Jobs : \/ Rejected(oracle[r].pipe) \/ Quiet(r)
                       \/ \E w \in Jobs : Reading(w) /\ worker[w].r = r
    /\ \A w \in Jobs : Reading(w) =>
         Rejected(oracle[worker[w].r].pipe) \/ UnderWay(worker[w].r, Asked(w))

Recorded ==
  firstErr = FALSE /\ pc \in {"send", "wait"} =>
    \A n \in 1 .. sent :
      \/ \E w \in Jobs : worker[w].pc \in {"run", "read"} /\ worker[w].i = n
      \/ Known(extracted[n], cases[n])

Truthful ==
  \A s \in Names : corpus[s].state = "whole" =>
    \A c \in DOMAIN corpus[s].cases :
      Known(c, corpus[s].cases[c]) /\ ~MultiLine(corpus[s].cases[c])

(* An error ends the run with the script in which it happens.              *)
NoErrorYet == pc \notin {"send", "wait"} => firstErr = FALSE

InHand == InScript => extracted = Found(Name)

Framing == NoErrorYet /\ InHand /\ (~Phantom => Aligned /\ Recorded /\ Truthful)

---------------------------------------------------------------------------
(* What is known of the case a worker has.                                 *)
LEMMA InHandFacts ==
  ASSUME Core, InHand, ~Phantom, InScript, NEW n \in DOMAIN extracted
  PROVE  extracted[n] \in Case /\ ~Spills(extracted[n])
<1>1. MainTypes /\ Name \in Names /\ extracted = Found(Name) /\ WorkTypes
  BY NameIsOne DEF Core, InHand
<1>2. extracted[n] \in Case
  BY <1>1, LenProperties, ElementOfSeq DEF WorkTypes
<1>3. extracted[n] \in ToSet(release[Name])
  BY <1>1, FoundFacts DEF MainTypes, ToSet
<1> QED
  BY <1>1, <1>2, <1>3 DEF Phantom, Names

LEMMA JobsAreRunners == MainTypes => Jobs \subseteq Runners /\ jobs \in Nat
  BY JobsAssumption DEF MainTypes, Jobs

---------------------------------------------------------------------------
(* The steps, first those that leave the pipes and the workers alone.      *)

LEMMA PipesAlone ==
  ASSUME Aligned, UNCHANGED <<oracle, worker, jobs>>,
         firstErr' = FALSE => firstErr = FALSE, Working' => Working,
         extracted' = extracted \/ \A w \in Jobs : ~Reading(w)
  PROVE  Aligned'
<1> SUFFICES ASSUME firstErr' = FALSE, Working' PROVE Aligned'
  BY DEF Aligned
<1>1. Jobs' = Jobs /\ firstErr = FALSE /\ Working
  BY DEF Jobs
<1>2. \A r \in Jobs : (Rejected(oracle[r].pipe)' <=> Rejected(oracle[r].pipe)) /\ (Quiet(r)' <=> Quiet(r))
  BY DEF Rejected, Quiet
<1>3. \A w \in Jobs : Reading(w)' <=> Reading(w)
  BY DEF Reading
<1>4. \A w \in Jobs : Reading(w) => Asked(w)' = Asked(w)
  BY DEF Asked
<1>5. \A w \in Jobs : Reading(w) /\ UnderWay(worker[w].r, Asked(w)) => UnderWay(worker[w].r, Asked(w))'
  BY <1>4 DEF UnderWay
<1>6. \A w \in Jobs : Rejected(oracle[worker[w].r].pipe)' <=> Rejected(oracle[worker[w].r].pipe)
  BY DEF Rejected
<1>7. \A r \in Jobs' : \/ Rejected(oracle[r].pipe)' \/ Quiet(r)'
                       \/ \E w \in Jobs' : Reading(w)' /\ worker'[w].r = r
  BY <1>1, <1>2, <1>3 DEF Aligned
<1>8. \A w \in Jobs' : Reading(w)' =>
         Rejected(oracle[worker[w].r].pipe)' \/ UnderWay(worker[w].r, Asked(w))'
  BY <1>1, <1>3, <1>5, <1>6 DEF Aligned
<1> QED
  BY <1>7, <1>8 DEF Aligned

LEMMA RecordsAlone ==
  ASSUME Recorded, UNCHANGED <<worker, jobs, sent, extracted, cases>>,
         firstErr' = FALSE => firstErr = FALSE, pc' \in {"send", "wait"} => pc \in {"send", "wait"}
  PROVE  Recorded'
<1>1. Jobs' = Jobs
  BY DEF Jobs
<1> QED
  BY <1>1 DEF Recorded, Known, Has

LEMMA CorpusAlone ==
  ASSUME Truthful, UNCHANGED corpus
  PROVE  Truthful'
  BY DEF Truthful, Known, Has, MultiLine

(* A step that changes none of what the framing is about.                  *)
LEMMA FramingAlone ==
  ASSUME Framing, UNCHANGED <<oracle, worker, jobs, sent, extracted, cases, firstErr, corpus, release>>,
         Working' => Working, pc' \in {"send", "wait"} => pc \in {"send", "wait"},
         pc \in {"send", "wait"} => pc' \in {"send", "wait"} \/ firstErr = FALSE,
         InScript' => InScript /\ UNCHANGED <<file, idx>>
  PROVE  Framing'
<1>1. NoErrorYet'
  BY DEF Framing, NoErrorYet
<1>2. InHand'
  BY DEF Framing, InHand, Found, Name
<1>3. ASSUME ~Phantom' PROVE Aligned' /\ Recorded' /\ Truthful'
  <2>1. ~Phantom
    BY <1>3 DEF Phantom, Spills
  <2> QED
    BY <2>1, PipesAlone, RecordsAlone, CorpusAlone DEF Framing
<1> QED
  BY <1>1, <1>2, <1>3 DEF Framing

(* When the program ends, the pipes and what was recorded are gone.        *)
LEMMA FramingEnds ==
  ASSUME Framing, NEW how, Ends(how), UNCHANGED release, ~Phantom => Truthful'
  PROVE  Framing'
<1>1. NoErrorYet' /\ InHand' /\ Aligned' /\ Recorded'
  BY DEF Ends, NoErrorYet, InHand, InScript, Aligned, Working, Recorded
<1>2. Phantom' = Phantom
  BY DEF Phantom, Spills
<1> QED
  BY <1>1, <1>2 DEF Framing

(* The oracle answers or exits: what it writes is added to the pipe, and   *)
(* nothing is asked any more.                                              *)
LEMMA OracleWrites ==
  ASSUME Core, NEW r \in Jobs, OracleAnswers(r) \/ OracleExits(r)
  PROVE  /\ oracle[r].asked # <<>>
         /\ \E more \in Seq(Line) : oracle'[r].pipe = oracle[r].pipe \o more
         /\ \A q \in Runners \ {r} : oracle'[q] = oracle[q]
         /\ \A c \in Case : oracle[r].asked = <<c>> /\ oracle[r].pipe = <<>> => UnderWay(r, c)'
<1>0. /\ r \in Runners /\ PipeTypes
      /\ oracle[r].asked \in Seq(Case) /\ oracle[r].pipe \in Seq(Line)
  BY JobsAreRunners DEF Core, PipeTypes, Pipes
<1>1. oracle[r].asked # <<>> /\ (Answer(r) \/ Exit(r))
  BY DEF OracleAnswers, OracleExits, Answer, Exit
<1> DEFINE first == Head(oracle[r].asked)
<1>2. first \in Case /\ Tail(oracle[r].asked) \in Seq(Case)
  BY <1>0, <1>1, HeadTailProperties
<1>3. \A c : oracle[r].asked = <<c>> => first = c /\ Tail(oracle[r].asked) = <<>>
  OBVIOUS
<1> HIDE DEF first
<1>4. CASE Answer(r)
  <2>1. /\ oracle'[r].asked = Tail(oracle[r].asked)
        /\ oracle'[r].pipe = oracle[r].pipe \o Reply(first)
        /\ \A q \in Runners \ {r} : oracle'[q] = oracle[q]
    <3>1. Pipe(r, "alive", Tail(oracle[r].asked), oracle[r].pipe \o Reply(first))
      BY <1>0, <1>4, PipeSteps DEF first
    <3> QED
      BY <1>0, <3>1 DEF Pipe, PipeTypes
  <2>2. Reply(first) \in Seq(Line)
    BY <1>2, ReplyFacts
  <2>3. oracle[r].pipe = <<>> => oracle'[r].pipe = Reply(first)
    BY <2>1, <2>2, ConcatEmptySeq
  <2>4. \A c \in Case : oracle[r].asked = <<c>> /\ oracle[r].pipe = <<>> => UnderWay(r, c)'
    BY <1>3, <2>1, <2>3 DEF UnderWay, Reply, Lines
  <2> QED
    BY <1>1, <2>1, <2>2, <2>4
<1>5. CASE Exit(r)
  <2>1. PICK n \in 0 .. Len(Lines(first)) :
          Pipe(r, "dead", <<>>, oracle[r].pipe \o SubSeq(Lines(first), 1, n))
    BY <1>0, <1>5, PipeSteps DEF first
  <2>2. /\ oracle'[r].asked = <<>>
        /\ oracle'[r].pipe = oracle[r].pipe \o SubSeq(Lines(first), 1, n)
        /\ \A q \in Runners \ {r} : oracle'[q] = oracle[q]
    BY <1>0, <2>1 DEF Pipe, PipeTypes
  <2>3. SubSeq(Lines(first), 1, n) \in Seq(Line)
    <3>1. Lines(first) \in Seq(Line) /\ 1 \in Nat \ {0}
      BY <1>2, ReplyFacts
    <3> QED
      BY <3>1, TypedPart
  <2>4. oracle[r].pipe = <<>> => oracle'[r].pipe = SubSeq(Lines(first), 1, n)
    BY <2>2, <2>3, ConcatEmptySeq
  <2>5. \A c \in Case : oracle[r].asked = <<c>> /\ oracle[r].pipe = <<>> => UnderWay(r, c)'
    BY <1>3, <2>2, <2>4 DEF UnderWay, Lines
  <2> QED
    BY <1>1, <2>2, <2>3, <2>5
<1> QED
  BY <1>1, <1>4, <1>5

LEMMA OracleKeepsAligned ==
  ASSUME Core, Framing, ~Phantom, NEW r \in Jobs, OracleAnswers(r) \/ OracleExits(r)
  PROVE  Aligned'
<1>0. /\ UNCHANGED <<pc, jobs, worker, extracted, firstErr>> /\ Jobs' = Jobs
      /\ Aligned
  BY DEF OracleAnswers, OracleExits, others, memory, Jobs, Framing
<1> SUFFICES ASSUME firstErr = FALSE, Working PROVE Aligned'
  BY <1>0 DEF Aligned, Working, InScript
<1>1. /\ oracle[r].asked # <<>>
      /\ \A q \in Runners \ {r} : oracle'[q] = oracle[q]
      /\ \A c \in Case : oracle[r].asked = <<c>> /\ oracle[r].pipe = <<>> => UnderWay(r, c)'
  BY OracleWrites
<1>2. r \in Runners /\ Jobs \subseteq Runners /\ oracle[r].pipe \in Seq(Line)
  BY JobsAreRunners DEF Core, PipeTypes, Pipes
<1>3. Rejected(oracle[r].pipe) => Rejected(oracle'[r].pipe)
  <2>1. PICK more \in Seq(Line) : oracle'[r].pipe = oracle[r].pipe \o more
    BY OracleWrites
  <2> QED
    BY <1>2, <2>1, StaysRejected
<1>4. \A w \in Jobs : Reading(w)' <=> Reading(w)
  BY <1>0 DEF Reading
<1>5. ASSUME NEW q \in Jobs
      PROVE  \/ Rejected(oracle'[q].pipe) \/ Quiet(q)'
             \/ \E w \in Jobs : Reading(w)' /\ worker'[w].r = q
  <2>1. CASE q = r
    BY <1>0, <1>1, <1>3, <1>4, <2>1 DEF Aligned, Quiet
  <2>2. CASE q # r
    <3>1. oracle'[q] = oracle[q]
      BY <1>1, <1>2, <2>2
    <3> QED
      BY <1>0, <1>4, <3>1 DEF Aligned, Quiet
  <2> QED
    BY <2>1, <2>2
<1>6. ASSUME NEW w \in Jobs, Reading(w)'
      PROVE  Rejected(oracle'[worker'[w].r].pipe) \/ UnderWay(worker[w].r, Asked(w))'
  <2>1. /\ Reading(w) /\ worker' = worker /\ Asked(w)' = Asked(w)
        /\ Rejected(oracle[worker[w].r].pipe) \/ UnderWay(worker[w].r, Asked(w))
    BY <1>0, <1>4, <1>6 DEF Aligned, Asked
  <2>2. worker[w].r \in Runners /\ Asked(w) \in Case
    <3>1. worker[w].r \in Jobs
      BY <2>1 DEF Core, Held, NotShared, Holds, Reading
    <3>2. worker[w].i \in DOMAIN extracted /\ extracted \in Seq(Case)
      BY <1>2, <2>1 DEF Core, Numbers, Reading, WorkTypes
    <3>3. extracted[worker[w].i] \in Case
      BY <3>2, LenProperties, ElementOfSeq
    <3> QED
      BY <1>2, <3>1, <3>3 DEF Asked
  <2>3. CASE worker[w].r = r
    <3>1. CASE Rejected(oracle[r].pipe)
      BY <1>3, <2>1, <2>3, <3>1
    <3>2. CASE UnderWay(r, Asked(w))
      <4>1. oracle[r].asked = <<Asked(w)>> /\ oracle[r].pipe = <<>>
        BY <1>1, <3>2 DEF UnderWay
      <4>2. \A c \in Case : oracle[r].asked = <<c>> /\ oracle[r].pipe = <<>> =>
              \/ oracle'[r].asked = <<c>> /\ oracle'[r].pipe = <<>>
              \/ oracle'[r].asked = <<>> /\ oracle'[r].pipe = Reply(c)
              \/ /\ oracle'[r].asked = <<>>
                 /\ \E n \in 0 .. Len(Lines(c)) : oracle'[r].pipe = SubSeq(Lines(c), 1, n)
        BY <1>1 DEF UnderWay, Reply, Lines
      <4>3. UnderWay(worker[w].r, Asked(w))'
        BY <2>1, <2>2, <2>3, <4>1, <4>2 DEF UnderWay, Reply, Lines
      <4> QED
        BY <4>3
    <3> QED
      BY <2>1, <2>3, <3>1, <3>2
  <2>4. CASE worker[w].r # r
    <3>1. oracle'[worker[w].r] = oracle[worker[w].r]
      BY <1>1, <2>2, <2>4
    <3> QED
      BY <2>1, <3>1 DEF UnderWay
  <2> QED
    BY <2>3, <2>4
<1> QED
  BY <1>0, <1>5, <1>6 DEF Aligned, Rejected

(* The runner of a worker that is in Run, and the case it asks about.      *)
LEMMA InRun ==
  ASSUME Core, NEW w \in Jobs, worker[w].pc \in {"run", "read"}
  PROVE  /\ w \in Runners /\ worker[w].r \in Jobs /\ worker[w].r \in Runners
         /\ worker[w].i \in DOMAIN extracted /\ worker[w].i \in 1 .. sent
         /\ InScript
         /\ oracle[worker[w].r].pipe \in Seq(Line) /\ oracle[worker[w].r].asked \in Seq(Case)
         /\ \A v \in Jobs \ {w} : Reading(v) => worker[v].r # worker[w].r
<1>1. /\ WorkTypes /\ PipeTypes /\ Numbers /\ Held /\ Jobs \subseteq Runners
      /\ Len(extracted) \in Nat /\ DOMAIN extracted = 1 .. Len(extracted)
  BY JobsAreRunners, LenProperties DEF Core, WorkTypes
<1>2. w \in Runners /\ worker[w].r \in Jobs
  BY <1>1 DEF Held, NotShared, Holds
<1>3. worker[w].i \in DOMAIN extracted /\ worker[w].i <= sent /\ pc \in {"send", "wait"}
  BY <1>1, <1>2 DEF Numbers
<1>4. \A v \in Jobs \ {w} : Reading(v) => worker[v].r # worker[w].r
  BY <1>1 DEF Held, OneHolder, Holds, Reading
<1>5. worker[w].i \in 1 .. sent
  BY <1>1, <1>3 DEF WorkTypes
<1> QED
  BY <1>1, <1>2, <1>3, <1>4, <1>5 DEF PipeTypes, Pipes, InScript

(* A worker whose runner changes, and no other: what has to be shown.      *)
LEMMA OneRunnerChanges ==
  ASSUME Core, Aligned, firstErr = FALSE, Working, NEW w \in Jobs, worker[w].pc \in {"run", "read"},
         NEW to, Becomes(w, to, worker[w].i, worker[w].r),
         UNCHANGED <<jobs, extracted, pc>>,
         \A q \in Runners \ {worker[w].r} : oracle'[q] = oracle[q],
         \/ to = "receive" /\ (Rejected(oracle'[worker[w].r].pipe) \/ Quiet(worker[w].r)')
         \/ to = "read" /\ (\/ Rejected(oracle'[worker[w].r].pipe)
                            \/ UnderWay(worker[w].r, Asked(w))')
  PROVE  Aligned'
<1>0. /\ w \in Runners /\ worker[w].r \in Jobs /\ worker[w].r \in Runners /\ Jobs' = Jobs
      /\ Jobs \subseteq Runners
      /\ \A v \in Jobs \ {w} : Reading(v) => worker[v].r # worker[w].r
  BY InRun, JobsAreRunners DEF Core, Jobs
<1>1. /\ \A v \in Jobs \ {w} : worker'[v] = worker[v] /\ Asked(v)' = Asked(v) /\ (Reading(v)' <=> Reading(v))
      /\ worker'[w].pc = to /\ worker'[w].i = worker[w].i /\ worker'[w].r = worker[w].r
      /\ Asked(w)' = Asked(w)
  BY <1>0 DEF Becomes, Asked, Reading
<1>2. ASSUME NEW q \in Jobs
      PROVE  \/ Rejected(oracle'[q].pipe) \/ Quiet(q)'
             \/ \E v \in Jobs : Reading(v)' /\ worker'[v].r = q
  <2>1. CASE q = worker[w].r
    BY <1>1, <2>1 DEF Reading
  <2>2. CASE q # worker[w].r
    <3>1. oracle'[q] = oracle[q]
      BY <1>0, <2>2
    <3>2. \/ Rejected(oracle[q].pipe) \/ Quiet(q)
          \/ \E v \in Jobs \ {w} : Reading(v) /\ worker[v].r = q
      BY <2>2 DEF Aligned
    <3> QED
      BY <1>1, <3>1, <3>2 DEF Quiet
  <2> QED
    BY <2>1, <2>2
<1>3. ASSUME NEW v \in Jobs, Reading(v)'
      PROVE  Rejected(oracle'[worker'[v].r].pipe) \/ UnderWay(worker[v].r, Asked(v))'
  <2>1. CASE v = w
    <3>1. to = "read" /\ (Rejected(oracle'[worker[w].r].pipe) \/ UnderWay(worker[w].r, Asked(w))')
      BY <1>1, <1>3, <2>1 DEF Reading
    <3> QED
      BY <1>1, <2>1, <3>1
  <2>2. CASE v # w
    <3>1. worker'[v] = worker[v] /\ Reading(v) /\ Asked(v)' = Asked(v)
      BY <1>1, <1>3, <2>2
    <3>2. worker[v].r \in Runners \ {worker[w].r}
      BY <1>0, <2>2, <3>1, InRun DEF Reading
    <3>3. oracle'[worker[v].r] = oracle[worker[v].r]
      BY <3>2
    <3>4. Rejected(oracle[worker[v].r].pipe) \/ UnderWay(worker[v].r, Asked(v))
      BY <3>1 DEF Aligned
    <3> QED
      BY <3>1, <3>3, <3>4 DEF UnderWay
  <2> QED
    BY <2>1, <2>2
<1> QED
  BY <1>0, <1>2, <1>3 DEF Aligned, Rejected

LEMMA WritesKeepsFraming ==
  ASSUME Core, Framing, ~Phantom, NEW w \in Jobs, RunWrites(w)
  PROVE  Aligned' /\ Recorded'
<1>0. /\ worker[w].pc = "run" /\ Aligned /\ Recorded
      /\ UNCHANGED <<pc, jobs, sent, extracted, cases>>
  BY DEF RunWrites, rest, Framing
<1>1. /\ w \in Runners /\ worker[w].r \in Jobs /\ worker[w].r \in Runners /\ InScript
      /\ worker[w].i \in DOMAIN extracted
      /\ oracle[worker[w].r].asked \in Seq(Case) /\ PipeTypes
  BY <1>0, InRun DEF Core
<1>2. CASE firstErr' = TRUE
  BY <1>2 DEF Aligned, Recorded
<1>3. CASE firstErr' # TRUE
  <2>1. /\ Ask(worker[w].r, extracted[worker[w].i]) /\ firstErr' = firstErr
        /\ worker' = [worker EXCEPT ![w].pc = "read"]
    BY <1>3 DEF RunWrites
  <2>2. Becomes(w, "read", worker[w].i, worker[w].r)
    <3>1. firstErr' \in BOOLEAN
      BY <2>1 DEF Core, WorkTypes
    <3>2. worker[w] \in Worker /\ worker \in [Runners -> Worker]
      BY <1>1 DEF Core, WorkTypes
    <3> QED
      BY <1>1, <2>1, <3>2 DEF Becomes, Worker
  <2>3. /\ oracle'[worker[w].r].asked = Append(oracle[worker[w].r].asked, Asked(w))
        /\ oracle'[worker[w].r].pipe = oracle[worker[w].r].pipe
        /\ \A q \in Runners \ {worker[w].r} : oracle'[q] = oracle[q]
    <3>1. Pipe(worker[w].r, oracle[worker[w].r].state,
               Append(oracle[worker[w].r].asked, extracted[worker[w].i]), oracle[worker[w].r].pipe)
      BY <1>1, <2>1, PipeSteps
    <3> QED
      BY <1>1, <3>1 DEF Pipe, PipeTypes, Asked
  <2>4. Asked(w)' = Asked(w)
    BY <1>0, <2>2 DEF Asked, Becomes
  <2>5. CASE firstErr = FALSE
    <3>1. Rejected(oracle[worker[w].r].pipe) \/ Quiet(worker[w].r)
      <4>1. Working
        BY <1>1 DEF Working
      <4>2. \A v \in Jobs : Reading(v) => worker[v].r # worker[w].r
        BY <1>0, InRun DEF Reading
      <4> QED
        BY <1>0, <1>1, <2>5, <4>1, <4>2 DEF Aligned
    <3>2. \/ Rejected(oracle'[worker[w].r].pipe) \/ UnderWay(worker[w].r, Asked(w))'
      <4>1. CASE Rejected(oracle[worker[w].r].pipe)
        BY <2>3, <4>1
      <4>2. CASE Quiet(worker[w].r)
        <5>1. oracle'[worker[w].r].asked = <<Asked(w)>> /\ oracle'[worker[w].r].pipe = <<>>
          BY <2>3, <4>2 DEF Quiet
        <5>2. worker'[w].r = worker[w].r
          BY <2>2 DEF Becomes
        <5> QED
          BY <2>4, <5>1, <5>2 DEF UnderWay
      <4> QED
        BY <3>1, <4>1, <4>2
    <3>3. Aligned'
      BY <1>0, <1>1, <2>2, <2>3, <2>5, <3>2, OneRunnerChanges DEF Working
    <3>4. Recorded'
      <4>1. \A v \in Jobs : worker[v].pc \in {"run", "read"} =>
                worker'[v].pc \in {"run", "read"} /\ worker'[v].i = worker[v].i
        BY <1>0, <2>2, JobsAreRunners DEF Becomes, Core
      <4>2. Jobs' = Jobs
        BY <1>0 DEF Jobs
      <4> QED
        BY <1>0, <2>5, <4>1, <4>2 DEF Recorded, Known, Has
    <3> QED
      BY <3>3, <3>4
  <2>6. CASE firstErr # FALSE
    BY <2>1, <2>6 DEF Aligned, Recorded
  <2> QED
    BY <2>5, <2>6
<1> QED
  BY <1>2, <1>3

LEMMA ReturnsKeepsFraming ==
  ASSUME Core, Framing, ~Phantom, NEW w \in Jobs, RunReturns(w)
  PROVE  Aligned' /\ Recorded'
<1> DEFINE r == worker[w].r
           i == worker[w].i
<1>0. /\ worker[w].pc = "read" /\ Reading(w) /\ Aligned /\ Recorded /\ InHand
      /\ UNCHANGED <<pc, jobs, sent, extracted>> /\ Jobs' = Jobs
      /\ Read(r)
  BY DEF RunReturns, rest, Framing, Reading, Jobs
<1>1. /\ w \in Runners /\ r \in Jobs /\ r \in Runners /\ InScript /\ Working
      /\ i \in DOMAIN extracted /\ i \in 1 .. sent
      /\ oracle[r].pipe \in Seq(Line) /\ PipeTypes
  BY <1>0, InRun DEF Core, Working
<1>2. Asked(w) \in Case /\ ~Spills(Asked(w))
  BY <1>0, <1>1, InHandFacts DEF Asked
<1>3. CASE firstErr' = TRUE
  BY <1>3 DEF Aligned, Recorded
<1>4. CASE firstErr' # TRUE
  <2>1. /\ Succeeds(r) /\ cases' = [cases EXCEPT ![i] = Returned(r)] /\ firstErr' = firstErr
    BY <1>4 DEF RunReturns
  <2>2. CASE firstErr # FALSE
    BY <2>1, <2>2 DEF Aligned, Recorded
  <2>3. CASE firstErr = FALSE
    <3>1. UnderWay(r, Asked(w))
      BY <1>0, <1>1, <2>1, <2>3, RejectedFails DEF Aligned
    <3>2. /\ Known(Asked(w), Returned(r)) /\ oracle[r].asked = <<>> /\ Answered(r)
          /\ \/ SubSeq(oracle[r].pipe, StopAt(r) + 1, Len(oracle[r].pipe)) = <<>>
             \/ Rejected(SubSeq(oracle[r].pipe, StopAt(r) + 1, Len(oracle[r].pipe)))
      <4>1. Kinds(Asked(w)) \in Seq(LineKinds) /\ oracle[r].pipe \in Seq(LinesOf(Case)) /\ Answered(r)
        BY <1>1, <1>2, <2>1, CasesAssumption DEF Line, Succeeds
      <4> HIDE DEF r
      <4> QED
        BY <1>2, <2>1, <3>1, <4>1, RunFacts
    <3>3. /\ oracle'[r].asked = <<>>
          /\ oracle'[r].pipe = SubSeq(oracle[r].pipe, StopAt(r) + 1, Len(oracle[r].pipe))
          /\ \A q \in Runners \ {r} : oracle'[q] = oracle[q]
      <4>1. Pipe(r, oracle[r].state, oracle[r].asked,
                 SubSeq(oracle[r].pipe, StopAt(r) + 1, Len(oracle[r].pipe)))
        BY <1>0, <1>1, <3>2, PipeSteps
      <4> QED
        BY <1>1, <3>2, <4>1 DEF Pipe, PipeTypes
    <3>4. Becomes(w, "receive", i, r)
      BY WorkerSteps DEF Core
    <3>5. Aligned'
      <4>1. Rejected(oracle'[worker[w].r].pipe) \/ Quiet(worker[w].r)'
        <5>1. worker'[w].r = worker[w].r
          BY <3>4 DEF Becomes
        <5> QED
          BY <3>2, <3>3, <5>1 DEF Quiet
      <4> QED
        BY <1>0, <1>1, <2>3, <3>3, <3>4, <4>1, OneRunnerChanges
    <3>6. Recorded'
      <4>1. SUFFICES ASSUME pc \in {"send", "wait"}, NEW n \in 1 .. sent
                     PROVE  \/ \E v \in Jobs : worker'[v].pc \in {"run", "read"} /\ worker'[v].i = n
                            \/ Known(extracted[n], cases'[n])
        BY <1>0 DEF Recorded, Known, Has, Lines
      <4>2. i \in DOMAIN cases
        BY <1>1 DEF Core, WorkTypes
      <4>3. CASE n = i
        BY <2>1, <3>2, <4>2, <4>3 DEF Asked
      <4>4. CASE n # i
        <5>1. cases'[n] = cases[n]
          BY <2>1, <4>4
        <5>2. CASE Known(extracted[n], cases[n])
          BY <5>1, <5>2
        <5>3. CASE \E v \in Jobs : worker[v].pc \in {"run", "read"} /\ worker[v].i = n
          <6>1. PICK v \in Jobs : worker[v].pc \in {"run", "read"} /\ worker[v].i = n
            BY <5>3
          <6>2. worker'[v] = worker[v]
            BY <3>4, <4>4, <6>1, JobsAreRunners DEF Becomes, Core
          <6> QED
            BY <6>1, <6>2
        <5> QED
          BY <1>0, <2>3, <4>1, <5>2, <5>3 DEF Recorded
      <4> QED
        BY <4>3, <4>4
    <3> QED
      BY <3>5, <3>6
  <2> QED
    BY <2>2, <2>3
<1> QED
  BY <1>3, <1>4

(* A step of a worker that is in no Read before or after it.               *)
LEMMA ReadersAlone ==
  ASSUME Aligned, UNCHANGED <<pc, jobs, extracted, oracle, firstErr>>,
         \A v \in Jobs : Reading(v)' <=> Reading(v),
         \A v \in Jobs : Reading(v) => worker'[v] = worker[v]
  PROVE  Aligned'
<1>0. Jobs' = Jobs /\ \A v \in Jobs : Reading(v) => Asked(v)' = Asked(v)
  BY DEF Jobs, Asked
<1> SUFFICES ASSUME firstErr = FALSE, Working PROVE Aligned'
  BY DEF Aligned, Working, InScript
<1>1. \A r \in Jobs : \/ Rejected(oracle'[r].pipe) \/ Quiet(r)'
                      \/ \E v \in Jobs : Reading(v)' /\ worker'[v].r = r
  BY DEF Aligned, Quiet
<1>2. \A v \in Jobs : Reading(v)' =>
        Rejected(oracle'[worker'[v].r].pipe) \/ UnderWay(worker[v].r, Asked(v))'
  <2> SUFFICES ASSUME NEW v \in Jobs, Reading(v)
               PROVE  Rejected(oracle[worker[v].r].pipe) \/ UnderWay(worker[v].r, Asked(v))'
    OBVIOUS
  <2>1. Rejected(oracle[worker[v].r].pipe) \/ UnderWay(worker[v].r, Asked(v))
    BY DEF Aligned
  <2> QED
    BY <1>0, <2>1 DEF UnderWay
<1> QED
  BY <1>0, <1>1, <1>2 DEF Aligned, Rejected

(* The steps of a worker that is in no Run, before and after.              *)
LEMMA IdleWorkerKeepsFraming ==
  ASSUME Core, Framing, ~Phantom, NEW w \in Jobs, Take(w) \/ ReceiveClosed(w) \/ Put(w) \/ WgDone(w)
  PROVE  Aligned' /\ Recorded'
<1>0. /\ worker[w].pc \notin {"run", "read"} /\ Aligned /\ Recorded
      /\ UNCHANGED <<pc, jobs, sent, extracted, cases, oracle, firstErr>> /\ Jobs' = Jobs
  BY DEF Take, ReceiveClosed, Put, WgDone, rest, Framing, Jobs
<1>1. \E to \in {"receive", "put", "finish", "done"} : \E i, r : Becomes(w, to, i, r)
  BY WorkerSteps DEF Core
<1>2. /\ worker'[w].pc \notin {"run", "read"}
      /\ \A v \in Jobs \ {w} : worker'[v] = worker[v]
  BY <1>1, JobsAreRunners DEF Becomes, Core
<1>3. /\ \A v \in Jobs : Reading(v)' <=> Reading(v)
      /\ \A v \in Jobs : Reading(v) => worker'[v] = worker[v] /\ Asked(v)' = Asked(v)
      /\ \A v \in Jobs : worker[v].pc \in {"run", "read"} => worker'[v] = worker[v]
  BY <1>0, <1>2 DEF Reading, Asked
<1>4. Aligned'
  BY <1>0, <1>3, ReadersAlone
<1>5. Recorded'
  BY <1>0, <1>3 DEF Recorded, Known, Has
<1> QED
  BY <1>4, <1>5

LEMMA SendKeepsFraming ==
  ASSUME Core, Framing, ~Phantom, NEW w \in Jobs, Send(w)
  PROVE  Aligned' /\ Recorded'
<1>0. /\ worker[w].pc = "receive" /\ Aligned /\ Recorded /\ sent' = sent + 1 /\ sent \in Nat
      /\ UNCHANGED <<pc, jobs, extracted, cases, oracle, firstErr>> /\ Jobs' = Jobs
  BY LenProperties DEF Send, Framing, Jobs, Core, WorkTypes
<1>1. Becomes(w, "run", sent + 1, worker[w].r)
  BY WorkerSteps DEF Core
<1>2. /\ worker'[w].pc = "run" /\ worker'[w].i = sent + 1
      /\ \A v \in Jobs \ {w} : worker'[v] = worker[v]
  BY <1>1, JobsAreRunners DEF Becomes, Core
<1>3. /\ \A v \in Jobs : Reading(v)' <=> Reading(v)
      /\ \A v \in Jobs : Reading(v) => worker'[v] = worker[v] /\ Asked(v)' = Asked(v)
      /\ \A v \in Jobs : worker[v].pc \in {"run", "read"} => worker'[v] = worker[v]
  BY <1>0, <1>2 DEF Reading, Asked
<1>4. Aligned'
  BY <1>0, <1>3, ReadersAlone
<1>5. Recorded'
  <2>1. SUFFICES ASSUME firstErr = FALSE, pc \in {"send", "wait"}, NEW n \in 1 .. sent + 1
                 PROVE  \/ \E v \in Jobs : worker'[v].pc \in {"run", "read"} /\ worker'[v].i = n
                        \/ Known(extracted[n], cases[n])
    BY <1>0 DEF Recorded, Known, Has
  <2>2. CASE n = sent + 1
    BY <1>2, <2>2
  <2>3. CASE n # sent + 1
    <3>1. n \in 1 .. sent
      BY <1>0, <2>3
    <3> QED
      BY <1>0, <1>3, <2>1, <3>1 DEF Recorded
  <2> QED
    BY <2>2, <2>3
<1> QED
  BY <1>4, <1>5

---------------------------------------------------------------------------
(* The steps of the main goroutine.                                        *)

LEMMA FramingInit == Init => Framing
<1> SUFFICES ASSUME Init PROVE Framing
  OBVIOUS
<1>1. pc = "off" /\ firstErr = FALSE
  BY DEF Init
<1>2. NoErrorYet /\ InHand /\ Aligned /\ Recorded
  BY <1>1 DEF NoErrorYet, InHand, InScript, Aligned, Working, Recorded
<1>3. PICK was \in InitialFiles(Scripts[1]) :
        corpus = [s \in Names |-> IF s = Scripts[1] THEN was.corpus ELSE NoCorpus]
  BY DEF Init, Names
<1>4. \A c \in DOMAIN was.corpus.cases : was.corpus.cases[c] = Lines(c) /\ Genuine(Lines(c))
  <2>1. CASE was = [corpus |-> NoCorpus, todo |-> NoTodo]
    BY <2>1 DEF NoCorpus
  <2>2. CASE was.corpus = [state |-> "whole",
                           cases |-> [c \in {OldCase} \cup FirstCase(Scripts[1]) |-> Lines(c)]]
    BY <2>2, CasesAssumption DEF FirstCase
  <2> QED
    BY <1>3, <2>1, <2>2 DEF InitialFiles
<1>5. Truthful
  <2> SUFFICES ASSUME NEW s \in Names, corpus[s].state = "whole", NEW c \in DOMAIN corpus[s].cases
               PROVE  Known(c, corpus[s].cases[c]) /\ ~MultiLine(corpus[s].cases[c])
    BY DEF Truthful
  <2>1. corpus[s] = was.corpus
    BY <1>3 DEF NoCorpus
  <2>2. corpus[s].cases[c] = Lines(c) /\ Genuine(Lines(c))
    BY <1>4, <2>1
  <2>3. ~Has(c, "stmtbad")
    BY <2>2 DEF Genuine, Lines, Has
  <2> QED
    BY <2>2, <2>3 DEF Known, Genuine, MultiLine
<1> QED
  BY <1>2, <1>5 DEF Framing

LEMMA NewPoolKeepsFraming ==
  ASSUME Core, Framing, NewPool
  PROVE  Framing'
<1>0. /\ pc = "pool" /\ pc' = "file"
      /\ UNCHANGED <<worker, jobs, firstErr, release, corpus>> /\ Jobs' = Jobs
  BY DEF NewPool, files, Jobs
<1>1. \A r \in Jobs : Quiet(r)'
  <2>1. \A state : Process(state).asked = <<>> /\ Process(state).pipe = <<>>
    BY DEF Process, NoProcess
  <2>2. \A r \in Jobs : \E state : oracle'[r] = Process(state)
    BY JobsAreRunners DEF NewPool, Core
  <2> QED
    BY <2>1, <2>2 DEF Quiet
<1>2. \A w \in Jobs : ~Reading(w)'
  BY <1>0, JobsAreRunners DEF Core, Numbers, Reading
<1>3. Aligned' /\ Recorded' /\ NoErrorYet' /\ InHand'
  BY <1>0, <1>1, <1>2 DEF Aligned, Recorded, Framing, NoErrorYet, InHand, InScript
<1>4. (Truthful' <=> Truthful) /\ (Phantom' <=> Phantom)
  BY <1>0 DEF Truthful, Known, Has, MultiLine, Phantom, Spills
<1> QED
  BY <1>3, <1>4 DEF Framing

LEMMA SnapshotKeepsFraming ==
  ASSUME Core, Framing, Snapshot
  PROVE  Framing'
<1>0. /\ pc = "file" /\ pc' = "send" /\ extracted' = Found(Name) /\ sent' = 0
      /\ UNCHANGED <<idx, file, jobs, release, corpus, oracle>> /\ Jobs' = Jobs
      /\ firstErr = FALSE
  BY DEF Snapshot, files, disk, Jobs, Framing, NoErrorYet
<1>1. \A w \in Jobs : ~Reading(w) /\ ~Reading(w)'
  <2>1. \A w \in Jobs : worker[w].pc = "done" /\ worker'[w] = [Away EXCEPT !.pc = "take"]
    BY <1>0, JobsAreRunners DEF Snapshot, Core, Numbers
  <2>2. [Away EXCEPT !.pc = "take"].pc = "take"
    BY DEF Away
  <2> QED
    BY <2>1, <2>2 DEF Reading
<1>2. InHand' /\ NoErrorYet'
  BY <1>0 DEF InHand, NoErrorYet, Found, Name
<1>3. (Truthful' <=> Truthful) /\ (Phantom' <=> Phantom)
  BY <1>0 DEF Truthful, Known, Has, MultiLine, Phantom, Spills
<1>4. Recorded'
  BY <1>0 DEF Recorded
<1>5. ASSUME ~Phantom PROVE Aligned'
  <2>1. \A r \in Jobs : Rejected(oracle[r].pipe) \/ Quiet(r)
    BY <1>0, <1>1, <1>5 DEF Framing, Aligned, Working
  <2>2. \A r \in Jobs : Rejected(oracle'[r].pipe) \/ Quiet(r)'
    BY <1>0, <2>1 DEF Quiet
  <2> QED
    BY <1>0, <1>1, <2>2 DEF Aligned, Rejected
<1> QED
  BY <1>2, <1>3, <1>4, <1>5 DEF Framing

(* What is known of every case when all workers are done.                  *)
LEMMA WrittenIsKnown ==
  ASSUME Core, Framing, ~Phantom, Waited, ~firstErr
  PROVE  \A c \in DOMAIN Written : Known(c, Written[c]) /\ ~MultiLine(Written[c])
<1>0. /\ pc = "wait" /\ \A w \in Jobs : worker[w].pc = "done"
      /\ WorkTypes /\ sent = Len(extracted)
  BY DEF Waited, Core, Numbers
<1>1. firstErr = FALSE
  <2>1. firstErr \in BOOLEAN
    BY <1>0 DEF WorkTypes
  <2> QED
    BY <2>1
<1>2. \A n \in 1 .. sent : Known(extracted[n], cases[n])
  BY <1>0, <1>1 DEF Framing, Recorded
<1>3. \A n \in Kept : n \in 1 .. sent /\ ~MultiLine(cases[n])
  BY <1>0, LenProperties DEF Kept, WorkTypes
<1> QED
  BY <1>0, <1>2, <1>3, WrittenFacts

LEMMA WriteKeepsFraming ==
  ASSUME Core, Framing, WriteCorpus \/ RemoveCorpus
  PROVE  Framing'
<1>0. /\ pc = "wait" /\ pc' \in {"metadata", "remove"} /\ Waited /\ ~firstErr
      /\ UNCHANGED <<oracle, worker, jobs, sent, extracted, cases, release, file, idx>>
      /\ DOMAIN corpus = Names /\ Name \in Names
  BY NameIsOne DEF WriteCorpus, RemoveCorpus, Waited, memory, disk, InScript, Core, FileTypes
<1>1. firstErr' = firstErr
  BY DEF WriteCorpus, RemoveCorpus, memory
<1>2. firstErr = FALSE
  <2>1. firstErr \in BOOLEAN /\ ~firstErr
    BY <1>0 DEF Core, WorkTypes
  <2> QED
    BY <2>1
<1>3. NoErrorYet' /\ InHand'
  BY <1>0, <1>1, <1>2 DEF Framing, NoErrorYet, InHand, InScript, Found, Name
<1>4. ASSUME ~Phantom PROVE Aligned' /\ Recorded'
  <2>1. Aligned /\ Recorded
    BY <1>4 DEF Framing
  <2>2. Working
    BY <1>0 DEF Working, InScript
  <2> QED
    BY <1>0, <1>1, <2>1, <2>2, PipesAlone, RecordsAlone
<1>5. ASSUME ~Phantom PROVE Truthful'
  <2> DEFINE new == [state |-> "whole", cases |-> Written]
  <2>1. \/ corpus' = [corpus EXCEPT ![Name] = new]
        \/ corpus' = [corpus EXCEPT ![Name] = NoCorpus]
    BY DEF WriteCorpus, RemoveCorpus
  <2>2. \A c \in DOMAIN Written : Known(c, Written[c]) /\ ~MultiLine(Written[c])
    BY <1>0, <1>5, WrittenIsKnown
  <2>3. \A c \in DOMAIN new.cases : Known(c, new.cases[c]) /\ ~MultiLine(new.cases[c])
    BY <2>2
  <2>4. NoCorpus.state = "none"
    BY DEF NoCorpus
  <2> HIDE DEF new
  <2>5. Truthful
    BY <1>5 DEF Framing
  <2>6. ASSUME NEW s \in Names, corpus'[s].state = "whole", NEW c \in DOMAIN corpus'[s].cases
        PROVE  Known(c, corpus'[s].cases[c]) /\ ~MultiLine(corpus'[s].cases[c])
    <3>1. CASE s = Name
      BY <1>0, <2>1, <2>3, <2>4, <2>6, <3>1
    <3>2. CASE s # Name
      <4>1. corpus'[s] = corpus[s]
        BY <1>0, <2>1, <3>2
      <4> QED
        BY <2>5, <2>6, <4>1 DEF Truthful
    <3> QED
      BY <3>1, <3>2
  <2> QED
    BY <2>6 DEF Truthful, Known, Has, Lines, MultiLine
<1>6. Phantom' <=> Phantom
  BY <1>0 DEF Phantom, Spills
<1> QED
  BY <1>3, <1>4, <1>5, <1>6 DEF Framing

LEMMA CrashKeepsFraming ==
  ASSUME Core, Framing, Crash
  PROVE  Framing'
<1>0. /\ Ends("killed") /\ release' = release
      /\ corpus' # corpus => Writing /\ TornCorpus
      /\ DOMAIN corpus = Names
      /\ Writing => Name \in Names
  BY NameIsOne DEF Crash, Core, FileTypes, Writing, Waited, InScript
<1>1. ASSUME ~Phantom PROVE Truthful'
  <2>1. Truthful
    BY <1>1 DEF Framing
  <2>2. CASE corpus' = corpus
    BY <2>1, <2>2, CorpusAlone
  <2>3. CASE corpus' # corpus
    <3>1. PICK f : corpus' = [corpus EXCEPT ![Name] = f] /\ f.state # "whole"
      <4>1. TornCorpus /\ WorkTypes /\ Name \in Names /\ DOMAIN corpus = Names
        BY <1>0, <2>3 DEF Core
      <4>2. \E f : /\ corpus' = [corpus EXCEPT ![Name] = f]
                   /\ f.state \in {"cut", "unreadable"} /\ DOMAIN f.cases \subseteq Case
        BY <2>3, <4>1, TornCorpusFacts
      <4> QED
        BY <4>2
    <3>2. \A s \in Names : corpus'[s].state = "whole" => corpus'[s] = corpus[s]
      BY <1>0, <3>1
    <3> QED
      BY <2>1, <3>2 DEF Truthful, Known, Has, Lines, MultiLine
  <2> QED
    BY <2>2, <2>3
<1> QED
  BY <1>0, <1>1, FramingEnds

LEMMA FramingStep == Core /\ Framing /\ [Next]_vars => Framing'
<1> SUFFICES ASSUME Core, Framing, [Next]_vars PROVE Framing'
  OBVIOUS
<1>a. ASSUME Phantom \/ (Aligned' /\ Recorded'), UNCHANGED <<firstErr, pc, extracted, idx, file, release, corpus>>
      PROVE  Framing'
  <2>1. NoErrorYet' /\ InHand' /\ (Phantom' <=> Phantom) /\ (Truthful' <=> Truthful)
    BY <1>a DEF Framing, NoErrorYet, InHand, InScript, Found, Name, Phantom, Spills, Truthful, Known, Has, MultiLine
  <2> QED
    BY <1>a, <2>1 DEF Framing
<1>b. ASSUME Phantom \/ (Aligned' /\ Recorded'), pc \in {"send", "wait"},
             UNCHANGED <<pc, extracted, idx, file, release, corpus>>
      PROVE  Framing'
  <2>1. NoErrorYet' /\ InHand' /\ (Phantom' <=> Phantom) /\ (Truthful' <=> Truthful)
    BY <1>b DEF Framing, NoErrorYet, InHand, InScript, Found, Name, Phantom, Spills, Truthful, Known, Has, MultiLine
  <2> QED
    BY <1>b, <2>1 DEF Framing
<1>1. CASE Launch \/ Artifact \/ OracleBuilt \/ AllScripts
  BY <1>1, FramingAlone DEF Launch, Artifact, OracleBuilt, AllScripts, memory, files, Working, InScript
<1>2. CASE ArtifactError \/ NotExecutable \/ MetadataError \/ MainReturns \/ AllAsleep \/ RunError
  <2>1. PICK how : Ends(how) /\ release' = release /\ corpus' = corpus
    BY <1>2 DEF ArtifactError, NotExecutable, MetadataError, MainReturns, AllAsleep, RunError, Fatal, files
  <2>2. ~Phantom => Truthful'
    BY <2>1, CorpusAlone DEF Framing
  <2> QED
    BY <2>1, <2>2, FramingEnds
<1>3. CASE NewPool \/ Snapshot \/ WriteCorpus \/ RemoveCorpus \/ Crash
  BY <1>3, NewPoolKeepsFraming, SnapshotKeepsFraming, WriteKeepsFraming, CrashKeepsFraming
<1>4. CASE CloseWork
  BY <1>4, FramingAlone DEF CloseWork, memory, files, disk, Working, InScript
<1>5. CASE WriteMetadata \/ RemoveMetadata
  BY <1>5, FramingAlone DEF WriteMetadata, RemoveMetadata, NextFileName, memory, files, disk, Working, InScript
<1>6. ASSUME NEW w \in Jobs, Send(w) PROVE Framing'
  <2>1. UNCHANGED <<firstErr, pc, extracted, idx, file, release, corpus>>
    BY <1>6 DEF Send, disk, files
  <2> QED
    BY <1>6, <1>a, <2>1, SendKeepsFraming
<1>7. ASSUME NEW w \in Jobs, Take(w) \/ ReceiveClosed(w) \/ Put(w) \/ WgDone(w) PROVE Framing'
  <2>1. UNCHANGED <<firstErr, pc, extracted, idx, file, release, corpus>>
    BY <1>7 DEF Take, ReceiveClosed, Put, WgDone, rest, disk, files
  <2> QED
    BY <1>7, <1>a, <2>1, IdleWorkerKeepsFraming
<1>8. ASSUME NEW w \in Jobs, RunWrites(w) \/ RunReturns(w) PROVE Framing'
  <2>1. UNCHANGED <<pc, extracted, idx, file, release, corpus>>
    BY <1>8 DEF RunWrites, RunReturns, rest, disk, files
  <2>2. pc \in {"send", "wait"}
    <3>1. worker[w].pc # "done" /\ w \in Runners
      BY <1>8, JobsAreRunners DEF RunWrites, RunReturns, Core
    <3> QED
      BY <3>1 DEF Core, Numbers
  <2> QED
    BY <1>8, <1>b, <2>1, <2>2, WritesKeepsFraming, ReturnsKeepsFraming
<1>9. ASSUME NEW r \in Jobs, OracleAnswers(r) \/ OracleExits(r) PROVE Framing'
  <2>1. UNCHANGED <<firstErr, pc, extracted, idx, file, release, corpus>>
    BY <1>9 DEF OracleAnswers, OracleExits, others, memory, disk, files
  <2>2. ~Phantom => Recorded'
    <3>1. UNCHANGED <<worker, jobs, sent, extracted, cases, firstErr, pc>>
      BY <1>9 DEF OracleAnswers, OracleExits, others, memory
    <3> QED
      BY <3>1, RecordsAlone DEF Framing
  <2> QED
    BY <1>9, <1>a, <2>1, <2>2, OracleKeepsAligned
<1>10. CASE \E s \in Names : CheckParse(s)
  BY <1>10, FramingAlone DEF CheckParse, memory, disk, Working, InScript
<1>11. CASE Rest \/ UNCHANGED vars
  BY <1>11, FramingAlone DEF Rest, vars, memory, files, disk, Working, InScript
<1> QED
  BY <1>1, <1>2, <1>3, <1>4, <1>5, <1>6, <1>7, <1>8, <1>9, <1>10, <1>11
  DEF Next, MainStep, WorkerStep, Names

LEMMA FramingHolds == Spec => []Framing
<1>1. Core /\ Framing /\ [Next]_vars => Framing'
  BY FramingStep
<1> QED
  BY <1>1, FramingInit, CoreHolds, PTL DEF Spec

(* What a whole corpus says of a case is, line by line, what the oracle    *)
(* said of it, whichever runner it went through and whatever that runner   *)
(* was asked before, for any number of runners, scripts and cases; the     *)
(* record of a case whose message has a line "==" may be cut there.        *)
THEOREM CorpusIsTheOracles == Spec => []CorpusIsTrue
<1>1. Core /\ Framing => CorpusIsTrue
  <2> SUFFICES ASSUME Core, Framing, ~Phantom, NEW s \in Names, corpus[s].state = "whole",
                      NEW c \in DOMAIN corpus[s].cases, ~Has(c, "eqeq"), ~Has(c, "stmtgood")
               PROVE  corpus[s].cases[c] = Lines(c) /\ Genuine(corpus[s].cases[c])
    <3>1. ASSUME Core, Framing, ~Phantom, NEW s \in Names, corpus[s].state = "whole",
                 NEW c \in DOMAIN corpus[s].cases, ~Has(c, "eqeq")
          PROVE  corpus[s].cases[c] = Lines(c)
      BY <3>1 DEF Framing, Truthful, Known
    <3> QED
      BY <3>1 DEF CorpusIsTrue, Names
  <2>1. /\ corpus[s].cases[c] = Lines(c) /\ ~Has(c, "stmtbad") /\ ~MultiLine(Lines(c))
        /\ c \in Case
    BY DEF Framing, Truthful, Known, Core, FileTypes
  <2>2. \A n \in DOMAIN Lines(c) :
          n \in DOMAIN Kinds(c) /\ Lines(c)[n].kind = Kinds(c)[n] /\ Kinds(c)[n] \in LineKinds
    BY <2>1, CasesAssumption, RepliesOf
  <2>3. \A n \in DOMAIN Lines(c) : Lines(c)[n].kind \notin {"text", "eqeq", "stmtgood", "stmtbad"}
    BY <2>1, <2>2 DEF Has, MultiLine
  <2> QED
    BY <2>1, <2>2, <2>3 DEF Genuine, LineKinds
<1> QED
  BY <1>1, FramingHolds, CoreHolds, PTL

---------------------------------------------------------------------------
(* A run that ends well has regenerated every script of the release. The   *)
(* argument begins where the scripts are unpacked: the program knows that  *)
(* they are there by one file of them.                                     *)

Here      == at[Main]
Sources   == Contents["src"]
Unpacking == Here.stage = "unzip" /\ Here.archive = "src"

(* Where the main goroutine may be in Oracle and in TestScripts.           *)
Route ==
  /\ pc = "oracle" =>
       /\ Here.stage \in {"oracle", "download", "unzip", "compile", "link", "ready", "failed"}
       /\ Here.stage \in {"download", "unzip"} => Here.archive = "amalgamation"
  /\ pc = "scripts" =>
       /\ Here.stage \in {"scripts", "download", "unzip", "ready", "failed"}
       /\ Here.stage \in {"download", "unzip"} => Here.archive = "src"
  /\ pc \notin {"oracle", "scripts"} => Here.stage \in {"idle", "ready"}
  /\ Here.stage = "download" => Here.n = 0

(* What of the archive is there, as long as nobody was interrupted.        *)
SourcesThere ==
  /\ Unpacking => \A n \in DOMAIN Sources : n <= Here.n => file[Sources[n]] = "good"
  /\ cut = FALSE /\ ~Unpacking /\ file["fuzzdata1.db"] # "none" =>
       \A n \in DOMAIN Sources : file[Sources[n]] = "good"

MarkerThere ==
  \/ pc \in {"pool", "file"} \/ InScript
  \/ pc = "scripts" /\ Here.stage = "ready"
  => file["fuzzdata1.db"] # "none"

Unpacks == Route /\ SourcesThere /\ MarkerThere

Regenerated(s) ==
  /\ DOMAIN corpus[s].cases = Representable(s)
  /\ corpus[s].state = IF Representable(s) = {} THEN "none" ELSE "whole"

Finished ==
  cut = FALSE /\ ~Unsafe =>
    /\ pc = "pool" \/ Working => names = DOMAIN Scripts
    /\ Working => \A k \in 1 .. idx - 1 : Regenerated(Scripts[k])
    /\ pc \in {"metadata", "remove"} => Regenerated(Name)
    /\ pc = "off" /\ exit = "ok" => \A s \in Names : Regenerated(s)

---------------------------------------------------------------------------
(* Unpacking.                                                              *)

LEMMA SourceFacts ==
  /\ Main \in Procs /\ "src" \in Archives /\ "amalgamation" \in Archives
  /\ DOMAIN Sources = 1 .. Len(Sources) /\ Len(Sources) \in Nat
  /\ \A n \in DOMAIN Sources : Sources[n] \in Unpacked
  /\ \E n \in DOMAIN Sources : Sources[n] = "fuzzdata1.db"
  /\ \A s \in Names : \E n \in DOMAIN Sources : Sources[n] = s
  /\ \A a \in Archives \ {"src"} : \A m \in DOMAIN Contents[a], n \in DOMAIN Sources : Contents[a][m] # Sources[n]
<1>1. Main \in Procs /\ "src" \in Archives /\ "amalgamation" \in Archives
  BY ArchivesAssumption DEF Archives
<1>2. DOMAIN Sources = 1 .. Len(Sources) /\ Len(Sources) \in Nat
  BY <1>1, ConstantFacts DEF Sources
<1>3. \A n \in DOMAIN Sources : Sources[n] \in Unpacked
  BY <1>1 DEF Unpacked, Sources
<1>4. \E n \in DOMAIN Sources : Sources[n] = "fuzzdata1.db"
  BY ArchivesAssumption DEF ToSet, Sources
<1>5. \A s \in Names : \E n \in DOMAIN Sources : Sources[n] = s
  BY ConstantFacts DEF ToSet, Sources
<1>6. \A a \in Archives \ {"src"} : \A m \in DOMAIN Contents[a], n \in DOMAIN Sources :
         Contents[a][m] # Sources[n]
  BY ArchivesAssumption DEF ToSet, Sources, Archives
<1> QED
  BY <1>1, <1>2, <1>3, <1>4, <1>5, <1>6

LEMMA Stages ==
  /\ Idle.stage = "idle" /\ Ready.stage = "ready" /\ Failed.stage = "failed"
  /\ \A s : Stage(s).stage = s
  /\ \A a : Fetching(a).stage = "download" /\ Fetching(a).archive = a /\ Fetching(a).n = 0
  BY DEF Idle, Ready, Failed, Stage, Fetching

LEMMA UnpacksInit == Init => Unpacks
<1> SUFFICES ASSUME Init PROVE Unpacks
  OBVIOUS
<1>1. pc = "off" /\ Here = Idle /\ file["fuzzdata1.db"] = "none"
  BY SourceFacts DEF Init, Here, NothingCached
<1> QED
  BY <1>1, Stages DEF Unpacks, Route, SourcesThere, MarkerThere, InScript, Unpacking

(* A step on the way to the oracle touches no test script.                 *)
LEMMA OracleArtifact ==
  ASSUME Core, Unpacks, Artifact, pc = "oracle"
  PROVE  Unpacks'
<1>0. /\ pc' = "oracle" /\ cut' = cut /\ at \in [Procs -> Place] /\ Main \in Procs
      /\ file \in [Unpacked -> States]
  BY SourceFacts DEF Artifact, past, Core, PlaceTypes
<1>1. \A where : Go(Main, where) => Here' = where
  BY <1>0 DEF Go, Here
<1>2. /\ Here.stage \in {"oracle", "download", "unzip", "compile", "link", "ready", "failed"}
      /\ Here.stage \in {"download", "unzip"} => Here.archive = "amalgamation"
      /\ Here.stage = "download" => Here.n = 0
      /\ ~Unpacking
  BY DEF Unpacks, Route, Unpacking
<1>3. /\ Here'.stage \in {"download", "unzip", "compile", "link", "ready", "failed"}
      /\ Here'.stage \in {"download", "unzip"} => Here'.archive = "amalgamation"
      /\ Here'.stage = "download" => Here'.n = 0
      /\ \A n \in DOMAIN Sources : file'[Sources[n]] = file[Sources[n]]
  <2>0. Here \in Place
    BY <1>0 DEF Here
  <2>1. CASE StatOracle(Main)
    <3>1. file' = file /\ (Go(Main, Ready) \/ Go(Main, Stage("compile")) \/ Go(Main, Fetching("amalgamation")))
      BY <2>1 DEF StatOracle, disk
    <3> QED
      BY <1>1, <3>1, Stages
  <2>2. CASE StatScripts(Main)
    BY <1>2, <2>2 DEF StatScripts, Here
  <2>3. CASE Download(Main)
    <3>1. file' = file /\ Here' = [Here EXCEPT !.stage = "unzip"] /\ Here.stage = "download"
      BY <1>1, <2>3 DEF Download, Here
    <3>2. Here'.stage = "unzip" /\ Here'.archive = Here.archive
      BY <2>0, <3>1 DEF Place
    <3> QED
      BY <1>2, <3>1, <3>2
  <2>4. CASE UnzipOne(Main)
    <3>1. /\ Here' = [Here EXCEPT !.n = @ + 1] /\ Here.stage = "unzip" /\ Here.n < Len(Contents[Here.archive])
          /\ file' = [file EXCEPT ![Contents[Here.archive][Here.n + 1]] = "good"]
      BY <1>1, <2>4 DEF UnzipOne, NextFile, Here
    <3>2. Here'.stage = "unzip" /\ Here'.archive = Here.archive /\ Here.n \in Nat
      BY <2>0, <3>1 DEF Place
    <3>3. Here.archive = "amalgamation" /\ Here.n + 1 \in DOMAIN Contents["amalgamation"]
      BY <1>2, <3>1, <3>2, ConstantFacts, SourceFacts
    <3>4. \A n \in DOMAIN Sources : Sources[n] # Contents["amalgamation"][Here.n + 1]
      BY <3>3, SourceFacts
    <3> QED
      BY <1>0, <3>1, <3>2, <3>3, <3>4
  <2>5. CASE UnzipEnd(Main)
    <3>1. file' = file /\ (Go(Main, Ready) \/ Go(Main, Stage("compile")))
      BY <2>5 DEF UnzipEnd, disk
    <3> QED
      BY <1>1, <3>1, Stages
  <2>6. CASE DownloadFails(Main) \/ Compile(Main) \/ Compiled(Main) \/ CompileFails(Main)
    <3>1. file' = file /\ (Go(Main, Ready) \/ Go(Main, Failed) \/ Go(Main, Stage("link")))
      BY <2>6 DEF DownloadFails, Compile, Compiled, CompileFails, disk
    <3> QED
      BY <1>1, <3>1, Stages
  <2> QED
    BY <2>1, <2>2, <2>3, <2>4, <2>5, <2>6 DEF Artifact, ArtifactStep
<1>4. ~Unpacking' /\ file'["fuzzdata1.db"] = file["fuzzdata1.db"]
  BY <1>3, SourceFacts DEF Unpacking
<1>5. SourcesThere'
  BY <1>0, <1>2, <1>3, <1>4 DEF Unpacks, SourcesThere
<1>6. Route' /\ MarkerThere'
  BY <1>0, <1>3 DEF Route, MarkerThere, InScript
<1> QED
  BY <1>5, <1>6 DEF Unpacks

LEMMA ScriptsArtifact ==
  ASSUME Core, Unpacks, Artifact, pc = "scripts"
  PROVE  Unpacks'
<1>0. /\ pc' = "scripts" /\ cut' = cut /\ at \in [Procs -> Place] /\ Main \in Procs
      /\ file \in [Unpacked -> States] /\ Here \in Place
  BY SourceFacts DEF Artifact, past, Core, PlaceTypes, Here
<1>1. \A where : Go(Main, where) => Here' = where
  BY <1>0 DEF Go, Here
<1>2. /\ Here.stage \in {"scripts", "download", "unzip", "ready", "failed"}
      /\ Here.stage \in {"download", "unzip"} => Here.archive = "src"
      /\ Here.stage = "download" => Here.n = 0
  BY DEF Unpacks, Route
<1>a. ASSUME file' = file, ~Unpacking,
             \/ Here'.stage = "download" /\ Here'.archive = "src" /\ Here'.n = 0
             \/ Here'.stage = "failed"
             \/ Here'.stage = "ready" /\ file["fuzzdata1.db"] # "none"
      PROVE  Unpacks'
  <2>1. ~Unpacking'
    BY <1>a DEF Unpacking
  <2>2. SourcesThere'
    BY <1>0, <1>a, <2>1 DEF Unpacks, SourcesThere
  <2>3. Route' /\ MarkerThere'
    BY <1>0, <1>a DEF Route, MarkerThere, InScript
  <2> QED
    BY <2>2, <2>3 DEF Unpacks
<1>3. CASE StatScripts(Main)
  <2>1. /\ file' = file /\ ~Unpacking
        /\ \/ Here' = Ready /\ file["fuzzdata1.db"] # "none"
           \/ Here' = Fetching("src")
    BY <1>1, <1>3 DEF StatScripts, disk, Unpacking, Here
  <2> QED
    BY <1>a, <2>1, Stages
<1>4. CASE DownloadFails(Main)
  <2>1. file' = file /\ ~Unpacking /\ Here' = Failed
    BY <1>1, <1>4 DEF DownloadFails, disk, Unpacking, Here
  <2> QED
    BY <1>a, <2>1, Stages
<1>5. CASE Download(Main)
  <2>1. file' = file /\ Here' = [Here EXCEPT !.stage = "unzip"] /\ Here.stage = "download"
    BY <1>1, <1>5 DEF Download, Here
  <2>2. Here'.stage = "unzip" /\ Here'.archive = "src" /\ Here'.n = 0
    BY <1>0, <1>2, <2>1 DEF Place
  <2>3. SourcesThere'
    BY <2>2, SourceFacts DEF SourcesThere, Unpacking
  <2> QED
    BY <1>0, <2>2, <2>3 DEF Unpacks, Route, MarkerThere, InScript
<1>6. CASE UnzipOne(Main)
  <2>1. /\ Here' = [Here EXCEPT !.n = @ + 1] /\ Here.stage = "unzip" /\ Here.archive = "src"
        /\ file' = [file EXCEPT ![Sources[Here.n + 1]] = "good"] /\ Here.n < Len(Sources)
    BY <1>1, <1>2, <1>6 DEF UnzipOne, NextFile, Here, Sources
  <2>2. Here'.stage = "unzip" /\ Here'.archive = "src" /\ Here.n \in Nat /\ Here'.n = Here.n + 1
    BY <1>0, <2>1 DEF Place
  <2>3. \A n \in DOMAIN Sources : n <= Here.n + 1 => file'[Sources[n]] = "good"
    <3>1. \A n \in DOMAIN Sources : n <= Here.n => file[Sources[n]] = "good"
      BY <2>1 DEF Unpacks, SourcesThere, Unpacking
    <3>2. Here.n + 1 \in DOMAIN Sources
      BY <2>1, <2>2, SourceFacts
    <3>3. \A n \in DOMAIN Sources : n <= Here.n + 1 => n <= Here.n \/ n = Here.n + 1
      BY <2>2, SourceFacts
    <3> QED
      BY <1>0, <2>1, <3>1, <3>2, <3>3, SourceFacts
  <2>4. SourcesThere'
    BY <2>2, <2>3 DEF SourcesThere, Unpacking
  <2> QED
    BY <1>0, <2>2, <2>4 DEF Unpacks, Route, MarkerThere, InScript
<1>7. CASE UnzipEnd(Main)
  <2>1. /\ file' = file /\ Here.stage = "unzip" /\ Here.archive = "src" /\ Here.n = Len(Sources)
        /\ Here' = Ready
    BY <1>1, <1>2, <1>7 DEF UnzipEnd, disk, Here, Sources
  <2>2. \A n \in DOMAIN Sources : file[Sources[n]] = "good"
    BY <2>1, SourceFacts DEF Unpacks, SourcesThere, Unpacking
  <2>3. file["fuzzdata1.db"] = "good"
    BY <2>2, SourceFacts
  <2>4. SourcesThere' /\ Here'.stage = "ready"
    BY <2>1, <2>2, Stages DEF SourcesThere, Unpacking
  <2> QED
    BY <1>0, <2>1, <2>3, <2>4 DEF Unpacks, Route, MarkerThere, InScript
<1>8. CASE StatOracle(Main) \/ Compile(Main) \/ Compiled(Main) \/ CompileFails(Main)
  BY <1>2, <1>8 DEF StatOracle, Compile, Compiled, CompileFails, Here
<1> QED
  BY <1>3, <1>4, <1>5, <1>6, <1>7, <1>8 DEF Artifact, ArtifactStep

(* What a kill leaves of the files, when no test script was being written. *)
LEMMA CrashKeepsUnpacks ==
  ASSUME Core, Unpacks, Crash
  PROVE  Unpacks'
<1>0. /\ pc' = "off" /\ at' = [p \in Procs |-> Idle] /\ Main \in Procs /\ Torn(Main)
      /\ cut' = (cut \/ Unpacking) /\ file \in [Unpacked -> States]
  BY SourceFacts DEF Crash, Ends, Core, PlaceTypes, Unpacking, Here
<1>1. Here' = Idle /\ ~Unpacking' /\ Here'.stage = "idle"
  BY <1>0, Stages DEF Here, Unpacking
<1>2. cut' = FALSE => cut = FALSE /\ ~Unpacking
  <2>1. cut \in BOOLEAN
    BY DEF Core, FileTypes
  <2> QED
    BY <1>0, <2>1
<1>3. ~Unpacking => \A n \in DOMAIN Sources : file'[Sources[n]] = file[Sources[n]]
  <2> SUFFICES ASSUME ~Unpacking, file' # file
               PROVE  \A n \in DOMAIN Sources : file'[Sources[n]] = file[Sources[n]]
    OBVIOUS
  <2>1. /\ Here.stage = "unzip" /\ Here.n < Len(Contents[Here.archive])
        /\ file' = [file EXCEPT ![Contents[Here.archive][Here.n + 1]] = "torn"]
    BY <1>0 DEF Torn, disk, NextFile, Here
  <2>2. Here.archive \in Archives \ {"src"} /\ Here.n \in Nat
    BY <1>0, <2>1 DEF Unpacking, Core, PlaceTypes, Here, Place
  <2>3. Here.n + 1 \in DOMAIN Contents[Here.archive]
    BY <2>1, <2>2, ConstantFacts
  <2>4. \A n \in DOMAIN Sources : Sources[n] # Contents[Here.archive][Here.n + 1]
    BY <2>2, <2>3, SourceFacts
  <2> QED
    BY <1>0, <2>1, <2>4
<1>4. ~Unpacking => file'["fuzzdata1.db"] = file["fuzzdata1.db"]
  BY <1>3, SourceFacts
<1>5. SourcesThere'
  BY <1>1, <1>2, <1>3, <1>4 DEF Unpacks, SourcesThere
<1> QED
  BY <1>0, <1>1, <1>5 DEF Unpacks, Route, MarkerThere, InScript

LEMMA UnpacksStep == Core /\ Unpacks /\ [Next]_vars => Unpacks'
<1> SUFFICES ASSUME Core, Unpacks, [Next]_vars PROVE Unpacks'
  OBVIOUS
<1>0. Main \in Procs /\ at \in [Procs -> Place]
  BY SourceFacts DEF Core, PlaceTypes
<1>a. ASSUME UNCHANGED <<at, file, cut>>, pc \notin {"oracle", "scripts"}, pc' \notin {"oracle", "scripts"},
             pc' \in {"pool", "file"} \/ InScript' => pc \in {"pool", "file"} \/ InScript
      PROVE  Unpacks'
  <2>1. Here' = Here
    BY <1>a DEF Here
  <2>2. Route'
    BY <1>a, <2>1 DEF Unpacks, Route
  <2>3. SourcesThere'
    BY <1>a, <2>1 DEF Unpacks, SourcesThere, Unpacking
  <2>4. MarkerThere'
    BY <1>a DEF Unpacks, MarkerThere
  <2> QED
    BY <2>2, <2>3, <2>4 DEF Unpacks
<1>b. ASSUME UNCHANGED <<file, cut>>, at' = [p \in Procs |-> Idle], pc' = "off", ~Unpacking PROVE Unpacks'
  <2>1. Here'.stage = "idle"
    BY <1>0, <1>b, Stages DEF Here
  <2>2. SourcesThere'
    BY <1>b, <2>1 DEF Unpacks, SourcesThere, Unpacking
  <2> QED
    BY <1>b, <2>1, <2>2 DEF Unpacks, Route, MarkerThere, InScript
<1>c. ASSUME UNCHANGED <<at, file, cut, pc>> PROVE Unpacks'
  <2>1. Here' = Here
    BY <1>c DEF Here
  <2>2. (Route' <=> Route) /\ (SourcesThere' <=> SourcesThere) /\ (MarkerThere' <=> MarkerThere)
    BY <1>c, <2>1 DEF Route, SourcesThere, MarkerThere, Unpacking, InScript
  <2> QED
    BY <2>2 DEF Unpacks
<1>1. CASE Launch \/ OracleBuilt
  <2>1. /\ UNCHANGED <<file, cut>> /\ ~Unpacking
        /\ \/ pc' = "oracle" /\ Here' = Stage("oracle")
           \/ pc' = "scripts" /\ Here' = Stage("scripts")
    <3>1. CASE Launch
      <4>1. Here.stage \in {"idle", "ready"}
        BY <3>1 DEF Launch, Unpacks, Route
      <4> QED
        BY <1>0, <3>1, <4>1 DEF Launch, CallOracle, Go, disk, past, Here, Unpacking
    <3>2. CASE OracleBuilt
      BY <1>0, <3>2, Stages DEF OracleBuilt, CallTestScripts, Go, disk, past, Here, Unpacking
    <3> QED
      BY <1>1, <3>1, <3>2
  <2>2. Here'.stage \in {"oracle", "scripts"} /\ ~Unpacking'
    BY <2>1, Stages DEF Unpacking
  <2>3. SourcesThere'
    BY <2>1, <2>2 DEF Unpacks, SourcesThere
  <2>4. Route' /\ MarkerThere'
    BY <2>1, <2>2, Stages DEF Route, MarkerThere, InScript
  <2> QED
    BY <2>3, <2>4 DEF Unpacks
<1>2. CASE Artifact
  BY <1>2, OracleArtifact, ScriptsArtifact DEF Artifact
<1>3. CASE ArtifactError
  <2>1. ~Unpacking
    BY <1>3, Stages DEF ArtifactError, Unpacking, Here
  <2> QED
    BY <1>3, <1>b, <2>1 DEF ArtifactError, Fatal, Ends, disk, past
<1>4. CASE NotExecutable \/ MetadataError \/ MainReturns \/ AllAsleep \/ RunError
  <2>1. pc \notin {"oracle", "scripts"} /\ UNCHANGED <<file, cut>> /\ at' = [p \in Procs |-> Idle] /\ pc' = "off"
    BY <1>4 DEF NotExecutable, MetadataError, MainReturns, AllAsleep, RunError, Waited, Fatal, Ends, disk, past
  <2>2. ~Unpacking
    BY <2>1 DEF Unpacks, Route, Unpacking
  <2> QED
    BY <1>b, <2>1, <2>2
<1>5. CASE AllScripts
  <2>1. pc = "scripts" /\ pc' = "pool" /\ Here.stage = "ready" /\ UNCHANGED <<at, file, cut>>
    BY <1>5, Stages DEF AllScripts, disk, past, Here
  <2>2. Here' = Here
    BY <2>1 DEF Here
  <2>3. SourcesThere'
    BY <2>1, <2>2 DEF Unpacks, SourcesThere, Unpacking
  <2>4. Route' /\ MarkerThere'
    BY <2>1, <2>2 DEF Unpacks, Route, MarkerThere, InScript
  <2> QED
    BY <2>3, <2>4 DEF Unpacks
<1>6. CASE NewPool \/ Snapshot \/ CloseWork
  BY <1>6, <1>a DEF NewPool, Snapshot, CloseWork, disk, past, InScript
<1>7. CASE WriteCorpus \/ RemoveCorpus \/ WriteMetadata \/ RemoveMetadata
  BY <1>7, <1>a DEF WriteCorpus, RemoveCorpus, WriteMetadata, RemoveMetadata, Waited, NextFileName, disk, past,
     InScript
<1>8. CASE \E w \in Jobs : Send(w) \/ WorkerStep(w)
  BY <1>8, <1>c DEF Send, WorkerStep, Take, ReceiveClosed, RunWrites, RunReturns, Put, WgDone, rest, disk, past
<1>9. CASE \E r \in Jobs : OracleAnswers(r) \/ OracleExits(r)
  BY <1>9, <1>c DEF OracleAnswers, OracleExits, others, disk, past
<1>10. CASE \E s \in Names : CheckParse(s)
  BY <1>10, <1>c DEF CheckParse, disk
<1>11. CASE Crash
  BY <1>11, CrashKeepsUnpacks
<1>12. CASE Rest \/ UNCHANGED vars
  BY <1>12, <1>c DEF Rest, vars, disk, past
<1> QED
  BY <1>1, <1>2, <1>3, <1>4, <1>5, <1>6, <1>7, <1>8, <1>9, <1>10, <1>11, <1>12 DEF Next, MainStep, Names

---------------------------------------------------------------------------
(* Regenerating.                                                           *)

LEMMA SafeFacts == ~Unsafe => ~Phantom /\ \A s \in Names : \A c \in ToSet(release[s]) : ~Has(c, "eqeq")
  BY DEF Unsafe, Phantom, Spills, Has, Names

LEMMA AllThere ==
  ASSUME Unpacks, cut = FALSE, pc \in {"pool", "file"} \/ InScript
  PROVE  \A s \in Names : file[s] = "good"
<1>1. file["fuzzdata1.db"] # "none" /\ ~Unpacking
  <2>1. Here.stage \in {"idle", "ready"}
    BY DEF Unpacks, Route, InScript
  <2> QED
    BY <2>1 DEF Unpacks, MarkerThere, Unpacking
<1>2. \A n \in DOMAIN Sources : file[Sources[n]] = "good"
  BY <1>1 DEF Unpacks, SourcesThere
<1> QED
  BY <1>2, SourceFacts

LEMMA LinesAndText ==
  ASSUME NEW c \in Case
  PROVE  MultiLine(Lines(c)) <=> Has(c, "text")
  BY DEF MultiLine, Lines, Has

(* The cases that are kept are those the format can represent.             *)
LEMMA KeptFacts ==
  ASSUME Core, Framing, Unpacks, cut = FALSE, ~Unsafe, Waited, ~firstErr
  PROVE  {extracted[n] : n \in Kept} = Representable(Name)
<1>1. /\ pc = "wait" /\ \A w \in Jobs : worker[w].pc = "done"
      /\ Name \in Names /\ sent = Len(extracted) /\ InScript
      /\ extracted \in Seq(Case) /\ DOMAIN extracted = 1 .. Len(extracted)
  BY NameIsOne, LenProperties DEF Waited, Core, Numbers, WorkTypes, InScript
<1>2. firstErr = FALSE
  <2>1. firstErr \in BOOLEAN
    BY DEF Core, WorkTypes
  <2> QED
    BY <2>1
<1>3. extracted = release[Name]
  <2>1. file[Name] = "good"
    BY <1>1, AllThere
  <2> QED
    BY <1>1, <2>1 DEF Framing, InHand, Found
<1>4. \A n \in DOMAIN extracted : cases[n] = Lines(extracted[n])
  <2>1. \A n \in 1 .. sent : Known(extracted[n], cases[n])
    BY <1>1, <1>2, SafeFacts DEF Framing, Recorded
  <2>2. \A n \in DOMAIN extracted : ~Has(extracted[n], "eqeq")
    BY <1>1, <1>3, SafeFacts DEF ToSet
  <2> QED
    BY <1>1, <2>1, <2>2 DEF Known
<1>5. \A n \in DOMAIN extracted : extracted[n] \in Case
  BY <1>1, ElementOfSeq
<1>6. \A n \in DOMAIN extracted :
        n \in Kept <=> extracted[n] \notin Unrepresentable /\ ~Has(extracted[n], "text")
  BY <1>4, <1>5, LinesAndText DEF Kept
<1>7. Representable(Name) = {c \in ToSet(extracted) : c \notin Unrepresentable /\ ~Has(c, "text")}
  BY <1>3 DEF Representable
<1> QED
  BY <1>6, <1>7 DEF Kept, ToSet

LEMMA SameRelease ==
  ASSUME release' = release
  PROVE  /\ Unsafe' <=> Unsafe
         /\ \A s : corpus'[s] = corpus[s] => (Regenerated(s)' <=> Regenerated(s))
  BY DEF Unsafe, Regenerated, Representable

LEMMA NothingElse ==
  ASSUME Core, Finished, UNCHANGED <<release, corpus, names, idx>>, cut' = FALSE => cut = FALSE,
         pc' = "pool" \/ Working' => (pc = "pool" /\ ~Working') \/ Working,
         pc' \in {"metadata", "remove"} => pc \in {"metadata", "remove"},
         pc' = "off" /\ exit' = "ok" => pc = "off" /\ exit = "ok"
  PROVE  Finished'
<1> SUFFICES ASSUME cut' = FALSE, ~Unsafe' PROVE Finished'
  BY DEF Finished
<1>1. cut = FALSE /\ ~Unsafe /\ Name' = Name
  BY SameRelease DEF Name
<1>2. \A s : Regenerated(s)' <=> Regenerated(s)
  BY SameRelease
<1>3. pc' = "pool" \/ Working' => names' = DOMAIN Scripts
  BY <1>1 DEF Finished
<1>4. Working' => \A k \in 1 .. idx' - 1 : Regenerated(Scripts[k])'
  BY <1>1, <1>2 DEF Finished
<1>5. pc' \in {"metadata", "remove"} => Regenerated(Name)'
  <2>1. \A s : s = Name => (Regenerated(s)' <=> Regenerated(s))
    BY <1>2
  <2> QED
    BY <1>1, <2>1 DEF Finished, Regenerated
<1>6. pc' = "off" /\ exit' = "ok" => \A s \in Names : Regenerated(s)'
  BY <1>1, <1>2 DEF Finished
<1> QED
  BY <1>3, <1>4, <1>5, <1>6 DEF Finished

(* With all scripts to do, the next one is the one after this.             *)
LEMMA NextIsOneFurther ==
  ASSUME names = DOMAIN Scripts, NEW i \in 0 .. Len(Scripts)
  PROVE  After(i) = i + 1
<1>1. /\ After(i) \in names \cup {Len(Scripts) + 1} /\ After(i) > i
      /\ \A k \in names : k > i => After(i) <= k
  BY AfterIsNext
<1>2. Len(Scripts) \in Nat /\ names = 1 .. Len(Scripts)
  BY ConstantFacts
<1>3. After(i) \in Nat /\ After(i) <= Len(Scripts) + 1
  BY <1>1, <1>2
<1>4. i < Len(Scripts) => i + 1 \in names
  BY <1>2
<1> QED
  BY <1>1, <1>2, <1>3, <1>4

LEMMA WriteFinishes ==
  ASSUME Core, Framing, Unpacks, Finished, WriteCorpus \/ RemoveCorpus
  PROVE  Finished'
<1>0. /\ pc = "wait" /\ pc' \in {"metadata", "remove"} /\ Waited /\ ~firstErr
      /\ UNCHANGED <<release, names, idx, cut>> /\ Name' = Name
      /\ DOMAIN corpus = Names /\ Name \in Names
  BY NameIsOne DEF WriteCorpus, RemoveCorpus, Waited, memory, InScript, Core, FileTypes, Name
<1> SUFFICES ASSUME cut = FALSE, ~Unsafe PROVE Finished'
  BY <1>0, SameRelease DEF Finished
<1>1. {extracted[n] : n \in Kept} = Representable(Name)
  BY <1>0, KeptFacts
<1>2. Working /\ Working'
  BY <1>0 DEF Working, InScript
<1>3. corpus'[Name].state = (IF Representable(Name) = {} THEN "none" ELSE "whole")
        /\ DOMAIN corpus'[Name].cases = Representable(Name)
  <2>1. CASE WriteCorpus
    <3>1. corpus'[Name] = [state |-> "whole", cases |-> Written] /\ Kept # {}
      BY <1>0, <2>1 DEF WriteCorpus
    <3>2. DOMAIN Written = Representable(Name) /\ Representable(Name) # {}
      BY <1>1, <3>1, WrittenFacts DEF Core
    <3> QED
      BY <3>1, <3>2
  <2>2. CASE RemoveCorpus
    <3>1. corpus'[Name] = NoCorpus /\ Kept = {}
      BY <1>0, <2>2 DEF RemoveCorpus
    <3> QED
      BY <1>1, <3>1, NothingThere
  <2> QED
    BY <2>1, <2>2
<1>4. Regenerated(Name)'
  BY <1>0, <1>3 DEF Regenerated, Representable
<1>5. ASSUME NEW k \in 1 .. idx - 1 PROVE Regenerated(Scripts[k])'
  <2>1. Regenerated(Scripts[k]) /\ Scripts[k] \in Names
    <3>1. k \in DOMAIN Scripts
      BY <1>0, <1>5, NameIsOne, ConstantFacts DEF Core, MainTypes, InScript
    <3> QED
      BY <1>2, <3>1 DEF Finished, Names, ToSet
  <2>2. CASE Scripts[k] = Name
    BY <1>0, <1>3, <2>2 DEF Regenerated, Representable
  <2>3. CASE Scripts[k] # Name
    <3>1. corpus'[Scripts[k]] = corpus[Scripts[k]]
      BY <1>0, <2>1, <2>3 DEF WriteCorpus, RemoveCorpus
    <3> QED
      BY <1>0, <2>1, <3>1, SameRelease
  <2> QED
    BY <2>2, <2>3
<1> QED
  BY <1>0, <1>2, <1>4, <1>5 DEF Finished

LEMMA NextNameFinishes ==
  ASSUME Core, Finished, WriteMetadata \/ RemoveMetadata
  PROVE  Finished'
<1>0. /\ pc \in {"metadata", "remove"} /\ pc' = "file" /\ idx' = After(idx) /\ Working
      /\ UNCHANGED <<release, corpus, names, cut>>
  BY DEF WriteMetadata, RemoveMetadata, NextFileName, Working, InScript, past
<1> SUFFICES ASSUME cut = FALSE, ~Unsafe PROVE Finished'
  BY <1>0, SameRelease DEF Finished
<1>1. /\ names = DOMAIN Scripts /\ \A k \in 1 .. idx - 1 : Regenerated(Scripts[k])
      /\ Regenerated(Name)
  BY <1>0 DEF Finished
<1>2. idx \in 0 .. Len(Scripts) /\ idx \in Nat
  BY <1>0, NameIsOne, ConstantFacts DEF Core, InScript
<1>3. idx' = idx + 1
  BY <1>0, <1>1, <1>2, NextIsOneFurther
<1>4. \A k \in 1 .. idx : Regenerated(Scripts[k])
  <2>1. \A k \in 1 .. idx : k \in 1 .. idx - 1 \/ k = idx
    BY <1>2
  <2> QED
    BY <1>1, <2>1 DEF Name
<1>5. \A k \in 1 .. idx' - 1 : Regenerated(Scripts[k])'
  <2>1. 1 .. idx' - 1 = 1 .. idx
    BY <1>2, <1>3
  <2>2. \A s : Regenerated(s)' <=> Regenerated(s)
    BY <1>0, SameRelease
  <2> QED
    BY <1>4, <2>1, <2>2
<1> QED
  BY <1>0, <1>1, <1>5 DEF Finished

LEMMA FinishedStep == Core /\ Framing /\ Unpacks /\ Finished /\ [Next]_vars => Finished'
<1> SUFFICES ASSUME Core, Framing, Unpacks, Finished, [Next]_vars PROVE Finished'
  OBVIOUS
<1> USE DEF Working, InScript
<1>1. CASE Launch \/ Artifact \/ OracleBuilt
  BY <1>1, NothingElse DEF Launch, Artifact, OracleBuilt, memory, files, past
<1>2. CASE ArtifactError \/ NotExecutable \/ MetadataError \/ AllAsleep \/ RunError
  <2>1. /\ pc' = "off" /\ exit' = "fatal" /\ cut' = cut
    BY <1>2 DEF ArtifactError, NotExecutable, MetadataError, AllAsleep, RunError, Fatal, Ends, past
  <2> QED
    BY <2>1 DEF Finished
<1>3. CASE AllScripts
  <2>1. pc = "scripts" /\ pc' = "pool" /\ names' = {n \in DOMAIN Scripts : Present(Scripts[n])}
          /\ Here.stage = "ready" /\ UNCHANGED <<release, cut, file>>
    BY <1>3, Stages DEF AllScripts, past, disk, Here
  <2>2. cut = FALSE => \A n \in DOMAIN Scripts : Present(Scripts[n])
    <3> SUFFICES ASSUME cut = FALSE PROVE \A n \in DOMAIN Scripts : Present(Scripts[n])
      OBVIOUS
    <3>1. file["fuzzdata1.db"] # "none" /\ ~Unpacking
      BY <2>1 DEF Unpacks, MarkerThere, Unpacking
    <3>2. \A n \in DOMAIN Sources : file[Sources[n]] = "good"
      BY <3>1 DEF Unpacks, SourcesThere
    <3> QED
      BY <3>2, SourceFacts DEF Present, Names, ToSet
  <2> QED
    BY <2>1, <2>2 DEF Finished
<1>4. CASE NewPool
  <2>1. pc = "pool" /\ pc' = "file" /\ idx' = After(0) /\ UNCHANGED <<release, cut, names>>
    BY <1>4 DEF NewPool, past
  <2>2. cut = FALSE /\ ~Unsafe => names = DOMAIN Scripts /\ idx' = 1
    <3>1. 0 \in 0 .. Len(Scripts)
      BY ConstantFacts
    <3> QED
      BY <2>1, <3>1, NextIsOneFurther DEF Finished
  <2> QED
    BY <2>1, <2>2, SameRelease DEF Finished
<1>5. CASE Snapshot \/ CloseWork
  BY <1>5, NothingElse DEF Snapshot, CloseWork, memory, files, past
<1>6. CASE WriteCorpus \/ RemoveCorpus \/ WriteMetadata \/ RemoveMetadata
  BY <1>6, WriteFinishes, NextNameFinishes
<1>7. CASE MainReturns
  <2>1. /\ pc = "file" /\ idx \notin names /\ pc' = "off"
        /\ UNCHANGED <<release, corpus, cut>>
    BY <1>7 DEF MainReturns, Ends, files, past
  <2> SUFFICES ASSUME cut = FALSE, ~Unsafe PROVE \A s \in Names : Regenerated(s)'
    BY <2>1, SameRelease DEF Finished
  <2>2. names = DOMAIN Scripts /\ \A k \in 1 .. idx - 1 : Regenerated(Scripts[k])
    BY <2>1 DEF Finished
  <2>3. idx = Len(Scripts) + 1 /\ DOMAIN Scripts = 1 .. Len(Scripts) /\ Len(Scripts) \in Nat
    BY <2>1, ConstantFacts DEF Core, MainTypes
  <2>4. 1 .. idx - 1 = DOMAIN Scripts
    BY <2>3
  <2>5. \A s \in Names : Regenerated(s)
    BY <2>2, <2>4 DEF Names, ToSet
  <2> QED
    BY <2>1, <2>5, SameRelease
<1>8. CASE \E w \in Jobs : Send(w) \/ WorkerStep(w)
  BY <1>8, NothingElse DEF Send, WorkerStep, Take, ReceiveClosed, RunWrites, RunReturns, Put, WgDone, rest,
     files, past
<1>9. CASE \E r \in Jobs : OracleAnswers(r) \/ OracleExits(r)
  BY <1>9, NothingElse DEF OracleAnswers, OracleExits, others, memory, files, past
<1>10. CASE \E s \in Names : CheckParse(s)
  BY <1>10, NothingElse DEF CheckParse, memory
<1>11. CASE Crash
  <2>1. pc' = "off" /\ exit' = "killed"
    BY <1>11 DEF Crash, Ends
  <2> QED
    BY <2>1 DEF Finished
<1>12. CASE Rest \/ UNCHANGED vars
  BY <1>12, NothingElse DEF Rest, vars, memory, files, past
<1> QED
  BY <1>1, <1>2, <1>3, <1>4, <1>5, <1>6, <1>7, <1>8, <1>9, <1>10, <1>11, <1>12 DEF Next, MainStep, Names

LEMMA ReleaseInit == Init => Unpacks /\ Finished
<1> SUFFICES ASSUME Init PROVE Finished
  BY UnpacksInit
<1>1. pc = "off" /\ exit = "none"
  BY DEF Init
<1> QED
  BY <1>1 DEF Finished, Working, InScript

(* A run that ends well leaves, for every script of the release, a corpus  *)
(* of exactly the cases the format can represent, and none for a script    *)
(* that has no such case, whatever earlier runs left behind; one that was  *)
(* interrupted while it unpacked the scripts, and a message with a line    *)
(* "==", are the only exceptions.                                          *)
THEOREM ReleaseIsRegenerated == Spec => []EveryScriptRegenerated
<1>1. Core /\ Finished => EveryScriptRegenerated
  <2> SUFFICES ASSUME Core, Finished, pc = "off", exit = "ok", ~cut, ~Unsafe
               PROVE  \A s \in Names : Regenerated(s)
    BY DEF EveryScriptRegenerated, Regenerated, Names
  <2>1. cut = FALSE
    <3>1. cut \in BOOLEAN
      BY DEF Core, FileTypes
    <3> QED
      BY <3>1
  <2> QED
    BY <2>1 DEF Finished
<1>2. Core /\ Unpacks /\ [Next]_vars => Unpacks'
  BY UnpacksStep
<1>3. Core /\ Framing /\ Unpacks /\ Finished /\ [Next]_vars => Finished'
  BY FinishedStep
<1> QED
  BY <1>1, <1>2, <1>3, ReleaseInit, CoreHolds, FramingHolds, PTL DEF Spec
====
