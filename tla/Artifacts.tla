---- MODULE Artifacts ----
(***************************************************************************)
(* The cache of SQLite artifacts (internal/sqlitesrc): Oracle, which       *)
(* downloads and compiles the oracle, and TestScripts, which unpacks the   *)
(* test scripts. What is in the cache is judged by the presence of one     *)
(* file, except for the archives, whose checksums are compared.            *)
(*                                                                         *)
(* A file is "none", "torn" (begun and not finished) or "good". Procs are  *)
(* the goroutines that call these functions.                               *)
(***************************************************************************)
EXTENDS Integers, Sequences

CONSTANTS Procs,
          Contents      \* archive -> the files unpacked from it, in its order

VARIABLES zip,          \* archive -> state of the downloaded file
          file,         \* file -> its state
          bin,          \* state of the oracle binary
          at            \* where each goroutine is

disk == <<zip, file, bin>>

Archives == DOMAIN Contents
Unpacked == UNION {{Contents[a][n] : n \in DOMAIN Contents[a]} : a \in Archives}
States   == {"none", "torn", "good"}

Stage(s)     == [stage |-> s, archive |-> "none", n |-> 0]
Fetching(a)  == [stage |-> "download", archive |-> a, n |-> 0]
Idle         == Stage("idle")
Ready        == Stage("ready")
Failed       == Stage("failed")
Go(p, where) == at' = [at EXCEPT ![p] = where]

NothingCached ==
  /\ zip = [a \in Archives |-> "none"]
  /\ file = [f \in Unpacked |-> "none"]
  /\ bin = "none"

(* Oracle is called, TestScripts is called.                                *)
CallOracle(p)      == Go(p, Stage("oracle"))
CallTestScripts(p) == Go(p, Stage("scripts"))

StatOracle(p) ==
  /\ at[p].stage = "oracle"
  /\ Go(p, IF bin # "none" THEN Ready
           ELSE IF file["sqlite3.c"] # "none" THEN Stage("compile") ELSE Fetching("amalgamation"))
  /\ UNCHANGED disk

StatScripts(p) ==
  /\ at[p].stage = "scripts"
  /\ Go(p, IF file["fuzzdata1.db"] # "none" THEN Ready ELSE Fetching("src"))
  /\ UNCHANGED disk

(* download: a cached archive is used if its checksum is right; one from   *)
(* the network is written only if its checksum is right.                   *)
Download(p) ==
  /\ at[p].stage = "download"
  /\ zip' = [zip EXCEPT ![at[p].archive] = "good"]
  /\ Go(p, [at[p] EXCEPT !.stage = "unzip"])
  /\ UNCHANGED <<file, bin>>

DownloadFails(p) ==
  /\ at[p].stage = "download"
  /\ zip[at[p].archive] # "good"
  /\ Go(p, Failed)
  /\ UNCHANGED disk

(* unzip, one file of the archive.                                         *)
NextFile(p) == Contents[at[p].archive][at[p].n + 1]

UnzipOne(p) ==
  /\ at[p].stage = "unzip"
  /\ at[p].n < Len(Contents[at[p].archive])
  /\ file' = [file EXCEPT ![NextFile(p)] = "good"]
  /\ Go(p, [at[p] EXCEPT !.n = @ + 1])
  /\ UNCHANGED <<zip, bin>>

UnzipEnd(p) ==
  /\ at[p].stage = "unzip"
  /\ at[p].n = Len(Contents[at[p].archive])
  /\ Go(p, IF at[p].archive = "amalgamation" THEN Stage("compile") ELSE Ready)
  /\ UNCHANGED disk

(* The compiler writes its output under the final name.                    *)
Compile(p) ==
  /\ at[p].stage = "compile"
  /\ bin' = "torn"
  /\ Go(p, Stage("link"))
  /\ UNCHANGED <<zip, file>>

Compilable == \A n \in DOMAIN Contents["amalgamation"] : file[Contents["amalgamation"][n]] = "good"

Compiled(p) ==
  /\ at[p].stage = "link"
  /\ Compilable
  /\ bin' = "good"
  /\ Go(p, Ready)
  /\ UNCHANGED <<zip, file>>

(* There may be no compiler, or it fails: on good sources as well.         *)
CompileFails(p) ==
  /\ at[p].stage = "link"
  /\ bin' = "none"
  /\ Go(p, Failed)
  /\ UNCHANGED <<zip, file>>

ArtifactStep(p) ==
  \/ StatOracle(p) \/ StatScripts(p)
  \/ Download(p) \/ DownloadFails(p)
  \/ UnzipOne(p) \/ UnzipEnd(p)
  \/ Compile(p) \/ Compiled(p) \/ CompileFails(p)

(* What the disk may look like when p is killed where it is: whatever it   *)
(* was about to write may be torn; a compiler that is interrupted removes  *)
(* its output if it can.                                                   *)
Torn(p) ==
  \/ UNCHANGED disk
  \/ /\ at[p].stage = "download" /\ zip[at[p].archive] # "good"
     /\ zip' = [zip EXCEPT ![at[p].archive] = "torn"]
     /\ UNCHANGED <<file, bin>>
  \/ /\ at[p].stage = "unzip" /\ at[p].n < Len(Contents[at[p].archive])
     /\ file' = [file EXCEPT ![NextFile(p)] = "torn"]
     /\ UNCHANGED <<zip, bin>>
  \/ /\ at[p].stage = "link"
     /\ bin' = "none"
     /\ UNCHANGED <<zip, file>>

ArtifactTypeOK ==
  /\ zip \in [Archives -> States]
  /\ file \in [Unpacked -> States]
  /\ bin \in States
  /\ \A p \in Procs : at[p].stage \in
       {"idle", "oracle", "scripts", "download", "unzip", "compile", "link", "ready", "failed"}
====
