------------------------------- MODULE CafsStore -------------------------------
(***************************************************************************)
(* The content-addressable store: store/cafs/src/writeBufferToCafs.ts,     *)
(* store/cafs/src/checkPkgFilesIntegrity.ts and the add-tarball and        *)
(* readPkgFromCafs messages of worker/src/worker.ts.                       *)
(*                                                                         *)
(* A job installs one package: a worker reads and verifies its index; if   *)
(* that fails, a worker (often another one) adds the tarball's files and   *)
(* writes the index; then the files are imported.  Workers are threads of  *)
(* processes that share the store directory and nothing else; each worker  *)
(* remembers the files it wrote (the cafs locker) until its process ends.  *)
(* A file is written to a temporary file named after the process id and    *)
(* the thread id, and renamed.  Two containers that mount one store may    *)
(* run processes of the same id: they then write to the same inode, which  *)
(* an open descriptor still reaches after the other renamed it.            *)
(* A file is "edited" when its content no longer matches its address, and  *)
(* "partial" between the truncation and the end of a write.  File times    *)
(* are abstracted: a bad file is found whenever it is verified.            *)
(***************************************************************************)
EXTENDS Naturals, FiniteSets

CONSTANTS
  Jobs, Workers, Procs, Pkgs, Files, Pids, Threads,
  ProcOf,      \* [Workers -> Procs]
  PidOf,       \* [Procs -> Pids]: process.pid, as the process sees it
  ThreadOf,    \* [Workers -> Threads]: threadId, unique in its process
  JobProc,     \* [Jobs -> Procs]
  PkgOf,       \* [Jobs -> Pkgs]
  FilesOf,     \* [Pkgs -> SUBSET Files]
  DirtyStore,  \* whether the store starts with edited or missing files
  MaxEdits,    \* bound: files edited while the jobs run
  MaxCrashes,  \* bound: processes that die
  NoWorker, NoFile

ASSUME StoreConstants ==
  /\ ProcOf \in [Workers -> Procs] /\ JobProc \in [Jobs -> Procs]
  /\ PkgOf \in [Jobs -> Pkgs] /\ FilesOf \in [Pkgs -> SUBSET Files]
  /\ PidOf \in [Procs -> Pids] /\ ThreadOf \in [Workers -> Threads]
  /\ \A w, u \in Workers : ProcOf[w] = ProcOf[u] /\ ThreadOf[w] = ThreadOf[u] => w = u
  /\ DirtyStore \in BOOLEAN /\ MaxEdits \in Nat /\ MaxCrashes \in Nat
  /\ NoWorker \notin Workers /\ NoFile \notin Files

VARIABLES
  content,  \* the file at each content address
  temp,     \* its temporary file of each name
  index,    \* the packages whose index file exists
  locker,   \* per worker: the files it wrote
  st,       \* where each job is
  at,       \* the worker that runs it
  todo,     \* the files it has still to look at
  cur,      \* the file it is removing or writing
  fd,       \* where the inode it writes to is: under its temporary name,
            \* in place (somebody renamed it), or unlinked ("none")
  passed,   \* verification found no bad file so far
  edits, crashes

vars == <<content, temp, index, locker, st, at, todo, cur, fd, passed, edits, crashes>>
jobVars == <<st, at, todo, cur, fd, passed>>

Temps == Pids \X Threads

\* Mutant of PathTemp: the thread id is left out.
PathTempOfPid(w) == <<PidOf[ProcOf[w]], CHOOSE t \in Threads : TRUE>>

\* pathTemp
PathTemp(w) == <<PidOf[ProcOf[w]], ThreadOf[w]>>

\* Where a job holds a worker, and where it does not.
OnWorker == {"reading", "verifying", "dropping", "adding", "replacing",
             "writing", "filling", "renaming"}
Ended == {"imported", "broken", "failed"}
OffWorker == {"start", "fetched", "ready"} \cup Ended

TypeOK ==
  /\ content \in [Files -> {"absent", "partial", "good", "edited"}]
  /\ temp \in [Files -> [Temps -> {"absent", "partial", "good"}]]
  /\ index \subseteq Pkgs
  /\ locker \in [Workers -> SUBSET Files]
  /\ st \in [Jobs -> OnWorker \cup OffWorker]
  /\ at \in [Jobs -> Workers \cup {NoWorker}]
  /\ todo \in [Jobs -> SUBSET Files]
  /\ cur \in [Jobs -> Files \cup {NoFile}]
  /\ fd \in [Jobs -> {"none", "temp", "placed"}]
  /\ passed \in [Jobs -> BOOLEAN]
  /\ edits \in 0..MaxEdits /\ crashes \in 0..MaxCrashes

Init ==
  /\ content \in [Files -> {"absent", "good", "edited"}]
  /\ index \in SUBSET Pkgs
  /\ ~DirtyStore => /\ \A f \in Files : content[f] # "edited"
                    /\ \A p \in index : \A f \in FilesOf[p] : content[f] = "good"
  /\ temp = [f \in Files |-> [t \in Temps |-> "absent"]]
  /\ locker = [w \in Workers |-> {}]
  /\ st = [j \in Jobs |-> "start"]
  /\ at = [j \in Jobs |-> NoWorker]
  /\ todo = [j \in Jobs |-> {}]
  /\ cur = [j \in Jobs |-> NoFile]
  /\ fd = [j \in Jobs |-> "none"]
  /\ passed = [j \in Jobs |-> FALSE]
  /\ edits = 0 /\ crashes = 0

-----------------------------------------------------------------------------
\* The worker pool: a job that needs a worker takes a free one of its process.

Free(w) == \A j \in Jobs : at[j] # w

CheckOut(j, from, to) ==
  \E w \in Workers :
    /\ st[j] = from /\ ProcOf[w] = JobProc[j] /\ Free(w)
    /\ at' = [at EXCEPT ![j] = w]
    /\ st' = [st EXCEPT ![j] = to]

\* Mutant of CheckIn: the worker is not given back.
CheckInLeaks(j, to) ==
  /\ st' = [st EXCEPT ![j] = to]
  /\ UNCHANGED at

\* The worker answers and is checked in.
CheckIn(j, to) ==
  /\ at' = [at EXCEPT ![j] = NoWorker]
  /\ st' = [st EXCEPT ![j] = to]

\* The file at its address is removed; descriptors open on it reach nothing.
Unlink(f) ==
  /\ content' = [content EXCEPT ![f] = "absent"]
  /\ fd' = [k \in Jobs |-> IF cur[k] = f /\ fd[k] = "placed" THEN "none" ELSE fd[k]]

-----------------------------------------------------------------------------
\* readPkgFromCafs and checkPkgFilesIntegrity

StartRead(j) ==
  /\ CheckOut(j, "start", "reading")
  /\ UNCHANGED <<content, temp, index, locker, todo, cur, fd, passed, edits, crashes>>

\* No index: not verified.  Otherwise every file of it is checked.
LoadIndex(j) ==
  /\ st[j] = "reading"
  /\ \/ /\ PkgOf[j] \notin index
        /\ CheckIn(j, "fetched")
        /\ UNCHANGED <<todo, passed>>
     \/ /\ PkgOf[j] \in index
        /\ st' = [st EXCEPT ![j] = "verifying"]
        /\ todo' = [todo EXCEPT ![j] = FilesOf[PkgOf[j]]]
        /\ passed' = [passed EXCEPT ![j] = TRUE]
        /\ UNCHANGED at
  /\ UNCHANGED <<content, temp, index, locker, cur, fd, edits, crashes>>

\* Mutant of VerifyFile: every file after a bad one is removed.
VerifyFileSoFar(j, f) ==
  /\ st[j] = "verifying" /\ f \in todo[j]
  /\ todo' = [todo EXCEPT ![j] = @ \ {f}]
  /\ passed' = [passed EXCEPT ![j] = @ /\ content[f] = "good"]
  /\ IF content[f] # "absent" /\ ~passed'[j]
     THEN /\ st' = [st EXCEPT ![j] = "dropping"]
          /\ cur' = [cur EXCEPT ![j] = f]
     ELSE UNCHANGED <<st, cur>>
  /\ UNCHANGED <<content, temp, index, locker, at, fd, edits, crashes>>

\* verifyFile up to the moment the content has been read.  A bad file is
\* removed in a step of its own.
VerifyFile(j, f) ==
  /\ st[j] = "verifying" /\ f \in todo[j]
  /\ todo' = [todo EXCEPT ![j] = @ \ {f}]
  /\ passed' = [passed EXCEPT ![j] = @ /\ content[f] = "good"]
  /\ IF content[f] \in {"edited", "partial"}
     THEN /\ st' = [st EXCEPT ![j] = "dropping"]
          /\ cur' = [cur EXCEPT ![j] = f]
     ELSE UNCHANGED <<st, cur>>
  /\ UNCHANGED <<content, temp, index, locker, at, fd, edits, crashes>>

\* "Broken files are removed from the store."  The path is unlinked, whatever
\* is there by now; a path that is gone is ignored.
Drop(j) ==
  /\ st[j] = "dropping"
  /\ Unlink(cur[j])
  /\ cur' = [cur EXCEPT ![j] = NoFile]
  /\ st' = [st EXCEPT ![j] = "verifying"]
  /\ UNCHANGED <<temp, index, locker, at, todo, passed, edits, crashes>>

\* Mutant of EndVerify: the result of the checks is ignored.
EndVerifyTrusts(j) ==
  /\ st[j] = "verifying" /\ todo[j] = {}
  /\ CheckIn(j, "ready")
  /\ UNCHANGED <<content, temp, index, locker, todo, cur, fd, passed, edits, crashes>>

\* A verified package is used as it is, another one is fetched.
EndVerify(j) ==
  /\ st[j] = "verifying" /\ todo[j] = {}
  /\ CheckIn(j, IF passed[j] THEN "ready" ELSE "fetched")
  /\ UNCHANGED <<content, temp, index, locker, todo, cur, fd, passed, edits, crashes>>

-----------------------------------------------------------------------------
\* addTarballToStore and writeBufferToCafs

StartAdd(j) ==
  /\ CheckOut(j, "fetched", "adding")
  /\ todo' = [todo EXCEPT ![j] = FilesOf[PkgOf[j]]]
  /\ UNCHANGED <<content, temp, index, locker, cur, fd, passed, edits, crashes>>

\* A file this worker wrote before is not looked at (locker.has).
InLocker(j, f) == f \in locker[at[j]]

\* A file of the locker or of the right content is taken as it is
\* (lines 19-35), a broken one is removed first, a missing one is written.
AddFile(j, f) ==
  /\ st[j] = "adding" /\ f \in todo[j]
  /\ todo' = [todo EXCEPT ![j] = @ \ {f}]
  /\ IF InLocker(j, f) \/ content[f] = "good"
     THEN UNCHANGED <<st, cur>>
     ELSE /\ cur' = [cur EXCEPT ![j] = f]
          /\ st' = [st EXCEPT ![j] = IF content[f] = "absent" THEN "writing" ELSE "replacing"]
  /\ UNCHANGED <<content, temp, index, locker, at, fd, passed, edits, crashes>>

Replace(j) ==
  /\ st[j] = "replacing"
  /\ Unlink(cur[j])
  /\ st' = [st EXCEPT ![j] = "writing"]
  /\ UNCHANGED <<temp, index, locker, at, todo, cur, passed, edits, crashes>>

\* writeFile opens the temporary file, which truncates one that is there ...
OpenTemp(j) ==
  /\ st[j] = "writing"
  /\ st' = [st EXCEPT ![j] = "filling"]
  /\ temp' = [temp EXCEPT ![cur[j]][PathTemp(at[j])] = "partial"]
  /\ fd' = [fd EXCEPT ![j] = "temp"]
  /\ UNCHANGED <<content, index, locker, at, todo, cur, passed, edits, crashes>>

\* Mutant of FillTemp: the write is not awaited.
FillTempLater(j) ==
  /\ st[j] = "filling"
  /\ st' = [st EXCEPT ![j] = "renaming"]
  /\ UNCHANGED <<content, temp, index, locker, at, todo, cur, fd, passed, edits, crashes>>

\* ... and writes the whole content through the descriptor.
FillTemp(j) ==
  /\ st[j] = "filling"
  /\ st' = [st EXCEPT ![j] = "renaming"]
  /\ temp' = IF fd[j] = "temp" THEN [temp EXCEPT ![cur[j]][PathTemp(at[j])] = "good"] ELSE temp
  /\ content' = IF fd[j] = "placed" THEN [content EXCEPT ![cur[j]] = "good"] ELSE content
  /\ fd' = [fd EXCEPT ![j] = "none"]
  /\ UNCHANGED <<index, locker, at, todo, cur, passed, edits, crashes>>

\* Mutant of Stored: the name is reset before it is remembered.
StoredAfterReset(j) ==
  /\ cur' = [cur EXCEPT ![j] = NoFile]
  /\ locker' = [locker EXCEPT ![at[j]] = @ \cup {cur'[j]}]
  /\ st' = [st EXCEPT ![j] = "adding"]

\* The file of j is in the store: the worker remembers it.
Stored(j) ==
  /\ locker' = [locker EXCEPT ![at[j]] = @ \cup {cur[j]}]
  /\ cur' = [cur EXCEPT ![j] = NoFile]
  /\ st' = [st EXCEPT ![j] = "adding"]

TempIsThere(j) == temp[cur[j]][PathTemp(at[j])] # "absent"

\* optimisticRenameOverwrite: the temporary file takes the place of the
\* target; descriptors that are open on either follow their inode.
Rename(j) ==
  /\ st[j] = "renaming" /\ TempIsThere(j)
  /\ content' = [content EXCEPT ![cur[j]] = temp[cur[j]][PathTemp(at[j])]]
  /\ temp' = [temp EXCEPT ![cur[j]][PathTemp(at[j])] = "absent"]
  /\ fd' = [k \in Jobs |->
       IF cur[k] # cur[j] \/ fd[k] = "none" THEN fd[k]
       ELSE IF fd[k] = "placed" THEN "none"
       ELSE IF PathTemp(at[k]) = PathTemp(at[j]) THEN "placed" ELSE "temp"]
  /\ Stored(j)
  /\ UNCHANGED <<index, at, todo, passed, edits, crashes>>

\* "if the temp file doesn't exist but the target file does, we just ignore
\* the issue".
IgnoreLostTemp(j) ==
  /\ st[j] = "renaming" /\ ~TempIsThere(j) /\ content[cur[j]] # "absent"
  /\ Stored(j)
  /\ UNCHANGED <<content, temp, fd, index, at, todo, passed, edits, crashes>>

\* Neither is there: the error goes up and the install fails.
RenameFails(j) ==
  /\ st[j] = "renaming" /\ ~TempIsThere(j) /\ content[cur[j]] = "absent"
  /\ CheckIn(j, "failed")
  /\ UNCHANGED <<content, temp, index, locker, todo, cur, fd, passed, edits, crashes>>

\* Mutant of FilesWritten: the last file is not waited for.
AllButOneWritten(j) == Cardinality(todo[j]) <= 1

\* Every file has been written.
FilesWritten(j) == todo[j] = {}

\* writeFilesIndexFile, after the files.
WriteIndex(j) ==
  /\ st[j] = "adding" /\ FilesWritten(j)
  /\ index' = index \cup {PkgOf[j]}
  /\ CheckIn(j, "ready")
  /\ UNCHANGED <<content, temp, locker, todo, cur, fd, passed, edits, crashes>>

\* The importer links the files: a missing or edited one breaks the package.
Import(j) ==
  /\ st[j] = "ready"
  /\ st' = [st EXCEPT ![j] =
       IF \A f \in FilesOf[PkgOf[j]] : content[f] = "good" THEN "imported" ELSE "broken"]
  /\ UNCHANGED <<content, temp, index, locker, at, todo, cur, fd, passed, edits, crashes>>

-----------------------------------------------------------------------------
\* The environment

\* A process dies: its workers forget what they wrote, its unfinished jobs
\* are started again by the next run.
Crash(p) ==
  /\ crashes < MaxCrashes
  /\ crashes' = crashes + 1
  /\ locker' = [w \in Workers |-> IF ProcOf[w] = p THEN {} ELSE locker[w]]
  /\ \E j \in Jobs : JobProc[j] = p /\ st[j] \in OnWorker \cup {"fetched", "ready"}
  /\ LET lost == {j \in Jobs : JobProc[j] = p /\ st[j] \notin Ended} IN
       /\ st' = [j \in Jobs |-> IF j \in lost THEN "start" ELSE st[j]]
       /\ at' = [j \in Jobs |-> IF j \in lost THEN NoWorker ELSE at[j]]
       /\ todo' = [j \in Jobs |-> IF j \in lost THEN {} ELSE todo[j]]
       /\ cur' = [j \in Jobs |-> IF j \in lost THEN NoFile ELSE cur[j]]
       /\ fd' = [j \in Jobs |-> IF j \in lost THEN "none" ELSE fd[j]]
       /\ passed' = [j \in Jobs |-> IF j \in lost THEN FALSE ELSE passed[j]]
  /\ UNCHANGED <<content, temp, index, edits>>

\* Somebody edits a stored file through a hard link in a node_modules.
Edit(f) ==
  /\ edits < MaxEdits /\ content[f] = "good"
  /\ edits' = edits + 1
  /\ content' = [content EXCEPT ![f] = "edited"]
  /\ UNCHANGED <<temp, index, locker, jobVars, crashes>>

AllDone == (\A j \in Jobs : st[j] \in Ended) /\ UNCHANGED vars

JobStep(j) ==
  \/ StartRead(j) \/ LoadIndex(j) \/ Drop(j) \/ EndVerify(j)
  \/ StartAdd(j) \/ Replace(j) \/ WriteIndex(j)
  \/ OpenTemp(j) \/ FillTemp(j) \/ Rename(j) \/ IgnoreLostTemp(j) \/ RenameFails(j)
  \/ \E f \in Files : VerifyFile(j, f) \/ AddFile(j, f)
  \/ Import(j)

Next ==
  \/ \E j \in Jobs : JobStep(j)
  \/ \E p \in Procs : Crash(p)
  \/ \E f \in Files : Edit(f)
  \/ AllDone

\* The worker pool serves every job; crashes and edits are not owed.
Spec == Init /\ [][Next]_vars
FairSpec == Spec /\ \A j \in Jobs : WF_vars(JobStep(j))

-----------------------------------------------------------------------------
\* Properties

\* In a store nobody edits, a package that has an index has all its files,
\* at every moment, with any number of processes writing and dying: files go
\* before the index and nothing is visible before it is whole.
IndexedPackagesAreComplete ==
  \A p \in index : \A f \in FilesOf[p] : content[f] = "good"

\* A package that was verified or added can be imported: unless somebody edits
\* a file in between, none is missing or wrong by then.
ImportNeverMisses == edits = 0 => \A j \in Jobs : st[j] # "broken"

\* "The write is atomic, so in case pnpm crashes, no broken file will be added
\* to the store" (writeBufferToCafs.ts, lines 38-39).  It holds as long as two
\* workers never have the same temporary name.
NoBrokenFileAdded == \A f \in Files : content[f] # "partial"

\* "if the temp file doesn't exist but the target file does, we just ignore
\* the issue and assume that the target file is correct" (lines 73-74).  It
\* holds while two workers at most share a temporary name; with two such pairs a
\* worker may rename a file that its namesake has just truncated.
AssumedTargetIsCorrect ==
  \A j \in Jobs :
    st[j] = "renaming" /\ ~TempIsThere(j) /\ content[cur[j]] # "absent"
      => content[cur[j]] = "good"

\* Every job ends, and with its package imported unless a file is edited
\* meanwhile, although files of the store are missing or edited at the start
\* and its process dies on the way.
StoreHeals ==
  \A j \in Jobs : <>(st[j] = "imported" \/ (st[j] = "broken" /\ edits > 0))

\* A package is available when it has an index and all the files of it.
Available == {p \in index : \A f \in FilesOf[p] : content[f] = "good"}
Served == {j \in Jobs : st[j] \in {"imported", "broken"}}

AtomicStore == INSTANCE PackageStore WITH available <- Available, served <- Served

\* Behind the workers, the temporary files and the crashes the store keeps the
\* promise of PackageStore: packages appear at once and for good, and no job
\* links a package that is not there as a whole.
ImplementsPackageStore == AtomicStore!Spec

\* "Broken files are removed from the store" (checkPkgFilesIntegrity.ts,
\* lines 147-148): what verification removes is broken.  The file is read
\* and unlinked in two steps, so another worker's rename may come between.
OnlyBrokenFilesAreRemoved ==
  [][\A f \in Files : content[f] = "good" => content'[f] # "absent"]_vars
=============================================================================
