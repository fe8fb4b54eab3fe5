---------------------------- MODULE CafsStoreProofs ----------------------------
(***************************************************************************)
(* Proofs about CafsStore: in a store that nobody edits, packages with an  *)
(* index are complete and every verified or added package can be imported, *)
(* for any jobs, workers, processes, packages, files and crashes.  In any  *)
(* store a single worker removes broken files only, and two workers that   *)
(* share a temporary name may take a lost one for written.                 *)
(***************************************************************************)
EXTENDS CafsStore, TLAPS

\* A job that needs a worker or a current file has one.
Placed ==
  \A j \in Jobs :
    /\ st[j] \in OnWorker => at[j] \in Workers
    /\ st[j] \in OffWorker => at[j] = NoWorker
    /\ st[j] \in {"dropping", "replacing", "writing", "filling", "renaming"} => cur[j] \in Files
    /\ fd[j] # "none" => st[j] = "filling"

\* A worker runs one job at a time.
OneJobPerWorker ==
  \A j, k \in Jobs : at[j] = at[k] /\ at[j] # NoWorker => j = k

\* No two workers have the same temporary name: no two live processes that
\* share the store have the same id.
UniqueTemps == \A w, u \in Workers : PathTemp(w) = PathTemp(u) => w = u

Good(f) == content[f] = "good"

\* What each stage of a job has established in a store nobody edits: the
\* files it has looked at, but for the one it is about to write, are good.
StageOf(j) ==
  /\ st[j] \notin {"dropping", "replacing", "broken", "failed"}
  /\ st[j] = "verifying" /\ passed[j] => \A f \in FilesOf[PkgOf[j]] \ todo[j] : Good(f)
  /\ st[j] = "adding" => \A f \in FilesOf[PkgOf[j]] \ todo[j] : Good(f)
  /\ st[j] \in {"writing", "filling", "renaming"} =>
       \A f \in FilesOf[PkgOf[j]] \ (todo[j] \cup {cur[j]}) : Good(f)
  /\ fd[j] = IF st[j] = "filling" THEN "temp" ELSE "none"
  /\ st[j] = "renaming" => temp[cur[j]][PathTemp(at[j])] = "good"
  /\ st[j] = "ready" => \A f \in FilesOf[PkgOf[j]] : Good(f)

\* No file is bad, what a worker remembers is true, every stage is sound and
\* so is every index.
SoundStore ==
  /\ \A f \in Files : content[f] \in {"absent", "good"}
  /\ \A w \in Workers : \A f \in locker[w] : Good(f)
  /\ \A j \in Jobs : StageOf(j)
  /\ IndexedPackagesAreComplete

-----------------------------------------------------------------------------
\* Every variable keeps its type, in any store.

\* The initial states have their types.
LEMMA StoreInitTyped == Init => TypeOK /\ Placed
BY StoreConstants DEF Init, TypeOK, Placed, OffWorker, OnWorker, Ended

\* A worker's temporary name is one of the names.
LEMMA TempNames == \A w \in Workers : PathTemp(w) \in Temps
BY StoreConstants DEF PathTemp, Temps

\* Setting one temporary file leaves well-typed temporary files.
LEMMA TempUpdate ==
  ASSUME TypeOK, NEW f \in Files, NEW w \in Workers, NEW x \in {"absent", "partial", "good"}
  PROVE  /\ [temp EXCEPT ![f][PathTemp(w)] = x] \in [Files -> [Temps -> {"absent", "partial", "good"}]]
         /\ temp[f][PathTemp(w)] \in {"absent", "partial", "good"}
<1>1. [temp[f] EXCEPT ![PathTemp(w)] = x] \in [Temps -> {"absent", "partial", "good"}]
  BY TempNames DEF TypeOK
<1> QED BY <1>1, TempNames DEF TypeOK

\* Every step keeps the types.
LEMMA StoreStepTyped ==
  ASSUME TypeOK, Placed, [Next]_vars
  PROVE  TypeOK' /\ Placed'
<1> USE DEF TypeOK, Placed, OnWorker, OffWorker, Ended
<1>1. \A j \in Jobs : FilesOf[PkgOf[j]] \subseteq Files /\ PkgOf[j] \in Pkgs
  BY StoreConstants
<1>2. ASSUME NEW j \in Jobs, StartRead(j) PROVE TypeOK' /\ Placed'
  BY <1>2 DEF StartRead, CheckOut
<1>3. ASSUME NEW j \in Jobs, LoadIndex(j) PROVE TypeOK' /\ Placed'
  <2>1. st[j] = "reading" /\ UNCHANGED <<content, temp, index, locker, cur, fd, edits, crashes>>
    BY <1>3 DEF LoadIndex
  <2>2. CASE PkgOf[j] \notin index
    BY <1>3, <2>1, <2>2 DEF LoadIndex, CheckIn
  <2>3. CASE PkgOf[j] \in index
    <3>1. /\ st' = [st EXCEPT ![j] = "verifying"] /\ UNCHANGED at
          /\ todo' = [todo EXCEPT ![j] = FilesOf[PkgOf[j]]]
          /\ passed' = [passed EXCEPT ![j] = TRUE]
      BY <1>3, <2>3 DEF LoadIndex
    <3>2. TypeOK'
      BY <1>1, <2>1, <3>1
    <3>3. Placed'
      BY <2>1, <3>1
    <3> QED BY <3>2, <3>3
  <2> QED BY <2>2, <2>3
<1>4. ASSUME NEW j \in Jobs, Drop(j) PROVE TypeOK' /\ Placed'
  BY <1>4 DEF Drop, Unlink
<1>5. ASSUME NEW j \in Jobs, EndVerify(j) PROVE TypeOK' /\ Placed'
  BY <1>5 DEF EndVerify, CheckIn
<1>6. ASSUME NEW j \in Jobs, StartAdd(j) PROVE TypeOK' /\ Placed'
  BY <1>1, <1>6 DEF StartAdd, CheckOut
<1>7. ASSUME NEW j \in Jobs, Replace(j) PROVE TypeOK' /\ Placed'
  BY <1>7 DEF Replace, Unlink
<1>8. ASSUME NEW j \in Jobs, OpenTemp(j) PROVE TypeOK' /\ Placed'
  <2>1. cur[j] \in Files /\ at[j] \in Workers
    BY <1>8 DEF OpenTemp
  <2>2. temp' \in [Files -> [Temps -> {"absent", "partial", "good"}]]
    BY <1>8, <2>1, TempUpdate DEF OpenTemp
  <2> QED BY <1>8, <2>2 DEF OpenTemp
<1>9. ASSUME NEW j \in Jobs, FillTemp(j) PROVE TypeOK' /\ Placed'
  <2>1. cur[j] \in Files /\ at[j] \in Workers
    BY <1>9 DEF FillTemp
  <2>2. temp' \in [Files -> [Temps -> {"absent", "partial", "good"}]]
    BY <1>9, <2>1, TempUpdate DEF FillTemp
  <2> QED BY <1>9, <2>1, <2>2 DEF FillTemp
<1>10. ASSUME NEW j \in Jobs, Rename(j) PROVE TypeOK' /\ Placed'
  <2>1. cur[j] \in Files /\ at[j] \in Workers
    BY <1>10 DEF Rename
  <2>2. /\ temp' \in [Files -> [Temps -> {"absent", "partial", "good"}]]
        /\ temp[cur[j]][PathTemp(at[j])] \in {"absent", "partial", "good"}
    BY <1>10, <2>1, TempUpdate DEF Rename
  <2>3. content' \in [Files -> {"absent", "partial", "good", "edited"}]
    BY <1>10, <2>1, <2>2 DEF Rename
  <2>4. fd' \in [Jobs -> {"none", "temp", "placed"}]
        /\ \A k \in Jobs : fd'[k] # "none" => fd[k] # "none"
    BY <1>10 DEF Rename
  <2>5. fd[j] = "none"
    BY <1>10 DEF Rename
  <2> QED BY <1>10, <2>1, <2>2, <2>3, <2>4, <2>5 DEF Rename, Stored
<1>11. ASSUME NEW j \in Jobs, IgnoreLostTemp(j) PROVE TypeOK' /\ Placed'
  BY <1>11 DEF IgnoreLostTemp, Stored
<1>12. ASSUME NEW j \in Jobs, RenameFails(j) PROVE TypeOK' /\ Placed'
  BY <1>12 DEF RenameFails, CheckIn
<1>13. ASSUME NEW j \in Jobs, WriteIndex(j) PROVE TypeOK' /\ Placed'
  BY <1>1, <1>13 DEF WriteIndex, CheckIn
<1>14. ASSUME NEW j \in Jobs, NEW f \in Files, VerifyFile(j, f) PROVE TypeOK' /\ Placed'
  BY <1>14 DEF VerifyFile
<1>15. ASSUME NEW j \in Jobs, NEW f \in Files, AddFile(j, f) PROVE TypeOK' /\ Placed'
  BY <1>15 DEF AddFile
<1>16. ASSUME NEW j \in Jobs, Import(j) PROVE TypeOK' /\ Placed'
  BY <1>16 DEF Import
<1>17. ASSUME NEW p \in Procs, Crash(p) PROVE TypeOK' /\ Placed'
  <2>1. crashes' \in 0..MaxCrashes /\ UNCHANGED <<content, temp, index, edits>>
    BY <1>17, StoreConstants DEF Crash
  <2>2. locker' \in [Workers -> SUBSET Files]
    BY <1>17 DEF Crash
  <2>3. st' \in [Jobs -> OnWorker \cup OffWorker] /\ at' \in [Jobs -> Workers \cup {NoWorker}]
    BY <1>17 DEF Crash
  <2>4. todo' \in [Jobs -> SUBSET Files] /\ cur' \in [Jobs -> Files \cup {NoFile}]
        /\ passed' \in [Jobs -> BOOLEAN] /\ fd' \in [Jobs -> {"none", "temp", "placed"}]
    BY <1>17 DEF Crash
  <2>5. Placed'
    BY <1>17 DEF Crash
  <2> QED BY <2>1, <2>2, <2>3, <2>4, <2>5
<1>18. ASSUME NEW f \in Files, Edit(f) PROVE TypeOK' /\ Placed'
  BY <1>18, StoreConstants DEF Edit, jobVars
<1>19. CASE UNCHANGED vars
  BY <1>19 DEF vars
<1> QED BY <1>2, <1>3, <1>4, <1>5, <1>6, <1>7, <1>8, <1>9, <1>10, <1>11, <1>12, <1>13,
           <1>14, <1>15, <1>16, <1>17, <1>18, <1>19 DEF Next, JobStep, AllDone

\* Every variable of the store keeps its type.
THEOREM StoreTypeCorrect == Spec => []TypeOK
<1>1. Init => TypeOK /\ Placed
  BY StoreInitTyped
<1>2. TypeOK /\ Placed /\ [Next]_vars => TypeOK' /\ Placed'
  BY StoreStepTyped
<1> QED BY <1>1, <1>2, PTL DEF Spec

-----------------------------------------------------------------------------
\* The worker pool

\* Only a check-out gives a worker to a job, and it takes a free one.
LEMMA PoolStep ==
  ASSUME TypeOK, OneJobPerWorker, [Next]_vars
  PROVE  OneJobPerWorker'
<1> USE DEF TypeOK, OneJobPerWorker
<1>1. ASSUME NEW j \in Jobs, StartRead(j) \/ StartAdd(j) PROVE OneJobPerWorker'
  BY <1>1, StoreConstants DEF StartRead, StartAdd, CheckOut, Free
<1>2. CASE \A j \in Jobs : at'[j] = at[j] \/ at'[j] = NoWorker
  BY <1>2
<1>3. ASSUME NEW j \in Jobs, JobStep(j), ~StartRead(j), ~StartAdd(j) PROVE OneJobPerWorker'
  <2>1. at' = at \/ at' = [at EXCEPT ![j] = NoWorker]
    BY <1>3 DEF JobStep, LoadIndex, Drop, EndVerify, Replace, OpenTemp, FillTemp, Rename,
       IgnoreLostTemp, RenameFails, WriteIndex, VerifyFile, AddFile, Import, CheckIn
  <2> QED BY <1>2, <2>1
<1>4. ASSUME NEW p \in Procs, Crash(p) PROVE OneJobPerWorker'
  <2>1. at' = [j \in Jobs |-> IF JobProc[j] = p /\ st[j] \notin Ended THEN NoWorker ELSE at[j]]
    BY <1>4 DEF Crash
  <2> QED BY <1>2, <2>1
<1>5. ASSUME NEW f \in Files, Edit(f) PROVE OneJobPerWorker'
  BY <1>2, <1>5 DEF Edit, jobVars
<1>6. CASE UNCHANGED vars
  BY <1>2, <1>6 DEF vars
<1> QED BY <1>1, <1>3, <1>4, <1>5, <1>6 DEF Next, AllDone

-----------------------------------------------------------------------------
\* The clean store

\* A store that is not dirty starts sound.
LEMMA CleanInit == ASSUME ~DirtyStore PROVE Init => SoundStore /\ OneJobPerWorker
BY DEF Init, SoundStore, StageOf, IndexedPackagesAreComplete, Good, OneJobPerWorker

\* Jobs on workers write to temporary files of different names.
LEMMA OtherTemps ==
  ASSUME TypeOK, Placed, OneJobPerWorker, UniqueTemps,
         NEW j \in Jobs, NEW k \in Jobs \ {j},
         st[j] \in OnWorker, st[k] \in OnWorker
  PROVE  PathTemp(at[k]) # PathTemp(at[j])
<1>1. at[j] \in Workers /\ at[k] \in Workers /\ at[j] # at[k]
  BY StoreConstants DEF Placed, OneJobPerWorker, TypeOK
<1> QED BY <1>1 DEF UniqueTemps

\* A step of one job j that only makes files good, and remembers good files,
\* keeps the store sound if the job's own stage is sound afterwards.
LEMMA OneJobMoves ==
  ASSUME TypeOK, SoundStore, NEW j \in Jobs,
         \A f \in Files : content'[f] = content[f] \/ content'[f] = "good",
         \A w \in Workers : \A f \in locker'[w] : f \in locker[w] \/ content'[f] = "good",
         \A p \in index' : p \in index \/ \A f \in FilesOf[p] : content'[f] = "good",
         \A k \in Jobs \ {j} : /\ st'[k] = st[k] /\ todo'[k] = todo[k] /\ at'[k] = at[k]
                               /\ cur'[k] = cur[k] /\ passed'[k] = passed[k] /\ fd'[k] = fd[k],
         \A k \in Jobs \ {j} : st[k] = "renaming" =>
            temp'[cur[k]][PathTemp(at[k])] = temp[cur[k]][PathTemp(at[k])],
         index' \subseteq Pkgs,
         StageOf(j)'
  PROVE  SoundStore'
<1>1. \A p \in Pkgs : FilesOf[p] \subseteq Files
  BY StoreConstants
<1>2. \A k \in Jobs : FilesOf[PkgOf[k]] \subseteq Files
  BY StoreConstants
<1>3. \A f \in Files : content[f] = "good" => content'[f] = "good"
  OBVIOUS
<1>4. \A f \in Files : content'[f] \in {"absent", "good"}
  BY DEF SoundStore
<1>5. \A w \in Workers : \A f \in locker'[w] : content'[f] = "good"
  BY <1>3 DEF SoundStore, TypeOK, Good
<1>6. \A k \in Jobs \ {j} : StageOf(k)'
  <2> TAKE k \in Jobs \ {j}
  <2>1. StageOf(k)
    BY DEF SoundStore
  <2>2. st'[k] = "renaming" => temp'[cur'[k]][PathTemp(at'[k])] = "good"
    BY <2>1 DEF StageOf
  <2> QED BY <1>2, <1>3, <2>1, <2>2 DEF StageOf, Good, PathTemp
<1>7. IndexedPackagesAreComplete'
  BY <1>1, <1>3 DEF SoundStore, IndexedPackagesAreComplete
<1> QED BY <1>4, <1>5, <1>6, <1>7 DEF SoundStore, Good

\* A step of a sound store that nobody edits leaves it sound.
LEMMA CleanStep ==
  ASSUME MaxEdits = 0, UniqueTemps, TypeOK, Placed, OneJobPerWorker, SoundStore, [Next]_vars
  PROVE  SoundStore'
<1> USE DEF TypeOK
<1>1. \A j \in Jobs : FilesOf[PkgOf[j]] \subseteq Files /\ PkgOf[j] \in Pkgs
  BY StoreConstants
<1>2. ASSUME NEW j \in Jobs, StartRead(j) PROVE SoundStore'
  <2>1. StageOf(j)'
    BY <1>2 DEF StartRead, CheckOut, StageOf, SoundStore
  <2> QED BY <1>2, <2>1, OneJobMoves DEF StartRead, CheckOut
<1>3. ASSUME NEW j \in Jobs, LoadIndex(j) PROVE SoundStore'
  <2>1. StageOf(j)'
    BY <1>3 DEF LoadIndex, CheckIn, StageOf, SoundStore
  <2> QED BY <1>3, <2>1, OneJobMoves DEF LoadIndex, CheckIn
<1>4. ASSUME NEW j \in Jobs, Drop(j) \/ Replace(j) PROVE SoundStore'
  BY <1>4 DEF Drop, Replace, SoundStore, StageOf
<1>5. ASSUME NEW j \in Jobs, EndVerify(j) PROVE SoundStore'
  <2>1. StageOf(j)'
    BY <1>5 DEF EndVerify, CheckIn, SoundStore, StageOf, Good
  <2> QED BY <1>5, <2>1, OneJobMoves DEF EndVerify, CheckIn
<1>6. ASSUME NEW j \in Jobs, StartAdd(j) PROVE SoundStore'
  <2>1. StageOf(j)'
    BY <1>6 DEF StartAdd, CheckOut, StageOf, SoundStore
  <2> QED BY <1>6, <2>1, OneJobMoves DEF StartAdd, CheckOut
<1>7. ASSUME NEW j \in Jobs, OpenTemp(j) PROVE SoundStore'
  <2>1. cur[j] \in Files /\ at[j] \in Workers
    BY <1>7 DEF OpenTemp, Placed, OnWorker
  <2>2. StageOf(j)'
    BY <1>7 DEF OpenTemp, SoundStore, StageOf, Good
  <2>3. \A k \in Jobs \ {j} : st[k] = "renaming" =>
           temp'[cur[k]][PathTemp(at[k])] = temp[cur[k]][PathTemp(at[k])]
    BY <1>7, <2>1, OtherTemps, TempNames DEF OpenTemp, OnWorker, Placed
  <2> QED BY <1>7, <2>2, <2>3, OneJobMoves DEF OpenTemp
<1>8. ASSUME NEW j \in Jobs, FillTemp(j) PROVE SoundStore'
  <2>1. cur[j] \in Files /\ at[j] \in Workers /\ PathTemp(at[j]) \in Temps
    BY <1>8, TempNames DEF FillTemp, Placed, OnWorker
  <2>2. /\ temp' = [temp EXCEPT ![cur[j]][PathTemp(at[j])] = "good"]
        /\ UNCHANGED <<content, index, locker, at, todo, cur, passed>>
    BY <1>8 DEF FillTemp, SoundStore, StageOf
  <2>3. temp'[cur[j]][PathTemp(at[j])] = "good"
    BY <2>1, <2>2
  <2>4. StageOf(j)'
    BY <1>8, <2>2, <2>3 DEF FillTemp, SoundStore, StageOf, Good, PathTemp
  <2>5. \A k \in Jobs \ {j} : st[k] = "renaming" =>
           temp'[cur[k]][PathTemp(at[k])] = temp[cur[k]][PathTemp(at[k])]
    BY <1>8, <2>1, <2>2, OtherTemps, TempNames DEF FillTemp, OnWorker, Placed
  <2> QED BY <1>8, <2>2, <2>4, <2>5, OneJobMoves DEF FillTemp
<1>9. ASSUME NEW j \in Jobs, Rename(j) PROVE SoundStore'
  <2>1. cur[j] \in Files /\ at[j] \in Workers /\ PathTemp(at[j]) \in Temps
    BY <1>9, TempNames DEF Rename, Placed, OnWorker
  <2>2. temp[cur[j]][PathTemp(at[j])] = "good" /\ fd[j] = "none"
    BY <1>9 DEF Rename, SoundStore, StageOf
  <2>3. /\ content' = [content EXCEPT ![cur[j]] = "good"]
        /\ locker' = [locker EXCEPT ![at[j]] = @ \cup {cur[j]}]
        /\ temp' = [temp EXCEPT ![cur[j]][PathTemp(at[j])] = "absent"]
        /\ st' = [st EXCEPT ![j] = "adding"] /\ cur' = [cur EXCEPT ![j] = NoFile]
        /\ UNCHANGED <<index, at, todo, passed>> /\ st[j] = "renaming"
    BY <1>9, <2>2 DEF Rename, Stored
  <2>4. fd' = fd
    <3>1. \A k \in Jobs : fd[k] # "none" => /\ fd[k] = "temp" /\ k # j
                                           /\ PathTemp(at[k]) # PathTemp(at[j])
      BY <2>2, <2>3, OtherTemps DEF SoundStore, StageOf, OnWorker
    <3>2. fd' = [k \in Jobs |-> fd[k]]
      BY <1>9, <3>1 DEF Rename
    <3> QED BY <3>2
  <2>5. StageOf(j)'
    BY <1>1, <2>1, <2>2, <2>3, <2>4 DEF SoundStore, StageOf, Good
  <2>6. \A f \in Files : content'[f] = content[f] \/ content'[f] = "good"
    BY <2>3
  <2>7. \A w \in Workers : \A f \in locker'[w] : f \in locker[w] \/ content'[f] = "good"
    BY <2>1, <2>3
  <2>8. \A k \in Jobs \ {j} : st[k] = "renaming" =>
           temp'[cur[k]][PathTemp(at[k])] = temp[cur[k]][PathTemp(at[k])]
    BY <2>1, <2>3, OtherTemps, TempNames DEF OnWorker, Placed
  <2> QED BY <2>3, <2>4, <2>5, <2>6, <2>7, <2>8, OneJobMoves
<1>10. ASSUME NEW j \in Jobs, IgnoreLostTemp(j) \/ RenameFails(j) PROVE SoundStore'
  BY <1>10 DEF IgnoreLostTemp, RenameFails, TempIsThere, SoundStore, StageOf
<1>11. ASSUME NEW j \in Jobs, WriteIndex(j) PROVE SoundStore'
  <2>1. \A f \in FilesOf[PkgOf[j]] : content[f] = "good"
    BY <1>11 DEF WriteIndex, FilesWritten, SoundStore, StageOf, Good
  <2>2. StageOf(j)'
    BY <1>11, <2>1 DEF WriteIndex, CheckIn, StageOf, Good, SoundStore
  <2> QED BY <1>1, <1>11, <2>1, <2>2, OneJobMoves DEF WriteIndex, CheckIn
<1>12. ASSUME NEW j \in Jobs, NEW f \in Files, VerifyFile(j, f) PROVE SoundStore'
  <2>1. content[f] \in {"absent", "good"}
    BY DEF SoundStore
  <2>2. /\ st[j] = "verifying" /\ todo' = [todo EXCEPT ![j] = @ \ {f}]
        /\ passed' = [passed EXCEPT ![j] = @ /\ content[f] = "good"]
        /\ UNCHANGED <<content, temp, index, locker, st, at, cur, fd>>
    BY <1>12, <2>1 DEF VerifyFile
  <2>3. passed'[j] => content[f] = "good" /\ passed[j]
    BY <2>2
  <2>4. /\ todo'[j] = todo[j] \ {f} /\ st'[j] = "verifying" /\ fd'[j] = fd[j]
        /\ content' = content
    BY <2>2
  <2>5. StageOf(j)
    BY DEF SoundStore
  <2>6. StageOf(j)'
    BY <2>2, <2>3, <2>4, <2>5 DEF StageOf, Good
  <2> QED BY <2>2, <2>6, OneJobMoves
<1>13. ASSUME NEW j \in Jobs, NEW f \in Files, AddFile(j, f) PROVE SoundStore'
  <2>1. content[f] \in {"absent", "good"} /\ at[j] \in Workers
    BY <1>13 DEF AddFile, SoundStore, Placed, OnWorker
  <2>2. /\ st[j] = "adding" /\ todo' = [todo EXCEPT ![j] = @ \ {f}]
        /\ UNCHANGED <<content, temp, index, locker, at, fd, passed>>
    BY <1>13 DEF AddFile
  <2>3. CASE content[f] = "good"
    <3>1. UNCHANGED <<st, cur>>
      BY <1>13, <2>3 DEF AddFile
    <3>2. StageOf(j)'
      BY <2>2, <2>3, <3>1 DEF SoundStore, StageOf, Good
    <3> QED BY <2>2, <3>1, <3>2, OneJobMoves
  <2>4. CASE content[f] = "absent"
    <3>1. cur' = [cur EXCEPT ![j] = f] /\ st' = [st EXCEPT ![j] = "writing"]
      BY <1>13, <2>1, <2>4 DEF AddFile, InLocker, SoundStore, Good
    <3>2. StageOf(j)'
      BY <2>2, <3>1 DEF SoundStore, StageOf, Good
    <3> QED BY <2>2, <3>1, <3>2, OneJobMoves
  <2> QED BY <2>1, <2>3, <2>4
<1>14. ASSUME NEW j \in Jobs, Import(j) PROVE SoundStore'
  <2>1. StageOf(j)'
    BY <1>14 DEF Import, SoundStore, StageOf, Good
  <2> QED BY <1>14, <2>1, OneJobMoves DEF Import
<1>15. ASSUME NEW p \in Procs, Crash(p) PROVE SoundStore'
  <2>1. UNCHANGED <<content, temp, index>> /\ \A w \in Workers : locker'[w] \subseteq locker[w]
    BY <1>15 DEF Crash
  <2>2. \A j \in Jobs : \/ st'[j] = "start" /\ fd'[j] = "none"
                        \/ /\ st'[j] = st[j] /\ todo'[j] = todo[j] /\ cur'[j] = cur[j]
                           /\ passed'[j] = passed[j] /\ fd'[j] = fd[j] /\ at'[j] = at[j]
    BY <1>15 DEF Crash
  <2>3. \A j \in Jobs : StageOf(j)'
    <3> TAKE j \in Jobs
    <3>1. StageOf(j)
      BY DEF SoundStore
    <3>2. CASE st'[j] = "start" /\ fd'[j] = "none"
      BY <3>2 DEF StageOf
    <3>3. CASE /\ st'[j] = st[j] /\ todo'[j] = todo[j] /\ cur'[j] = cur[j]
               /\ passed'[j] = passed[j] /\ fd'[j] = fd[j] /\ at'[j] = at[j]
      BY <2>1, <3>1, <3>3 DEF StageOf, Good, PathTemp
    <3> QED BY <2>2, <3>2, <3>3
  <2> QED BY <2>1, <2>3 DEF SoundStore, Good, IndexedPackagesAreComplete
<1>16. ASSUME NEW f \in Files, Edit(f) PROVE SoundStore'
  BY <1>16 DEF Edit
<1>17. CASE UNCHANGED vars
  BY <1>17 DEF vars, SoundStore, StageOf, Good, IndexedPackagesAreComplete, PathTemp
<1> QED BY <1>2, <1>3, <1>4, <1>5, <1>6, <1>7, <1>8, <1>9, <1>10, <1>11, <1>12, <1>13,
           <1>14, <1>15, <1>16, <1>17 DEF Next, JobStep, AllDone

\* In a store that starts sound and that nobody edits, whatever crashes, while
\* workers have temporary names of their own: every stage of every job is sound.
THEOREM CleanStoreInvariant ==
  ASSUME ~DirtyStore, MaxEdits = 0, UniqueTemps
  PROVE  Spec => [](TypeOK /\ Placed /\ OneJobPerWorker /\ SoundStore)
<1>1. Init => TypeOK /\ Placed /\ OneJobPerWorker /\ SoundStore
  BY StoreInitTyped, CleanInit
<1>2. TypeOK /\ Placed /\ OneJobPerWorker /\ SoundStore /\ [Next]_vars
      => (TypeOK /\ Placed /\ OneJobPerWorker /\ SoundStore)'
  BY StoreStepTyped, PoolStep, CleanStep
<1> QED BY <1>1, <1>2, PTL DEF Spec

\* ... every package with an index is complete: files are whole before they
\* are visible, and are there before the index that names them.
THEOREM IndexedPackagesComplete ==
  ASSUME ~DirtyStore, MaxEdits = 0, UniqueTemps
  PROVE  Spec => []IndexedPackagesAreComplete
<1>1. SoundStore => IndexedPackagesAreComplete
  BY DEF SoundStore
<1> QED BY <1>1, CleanStoreInvariant, PTL

\* ... no import misses a file of a package that was verified or added.
THEOREM ImportsNeverMiss ==
  ASSUME ~DirtyStore, MaxEdits = 0, UniqueTemps
  PROVE  Spec => []ImportNeverMisses
<1>1. SoundStore => ImportNeverMisses
  BY DEF SoundStore, StageOf, ImportNeverMisses
<1> QED BY <1>1, CleanStoreInvariant, PTL

\* ... and "no broken file will be added to the store": the write is atomic.
THEOREM WritesAreAtomic ==
  ASSUME ~DirtyStore, MaxEdits = 0, UniqueTemps
  PROVE  Spec => []NoBrokenFileAdded
<1>1. SoundStore => NoBrokenFileAdded
  BY DEF SoundStore, NoBrokenFileAdded
<1> QED BY <1>1, CleanStoreInvariant, PTL
-----------------------------------------------------------------------------
\* The store implements PackageStore

\* What is verified or ready has an index.
IndexKnown ==
  \A j \in Jobs : st[j] \in {"verifying", "dropping", "ready"} => PkgOf[j] \in index

\* No step takes an index away, and a job gets on only with one.
LEMMA StepKnowsIndex ==
  ASSUME TypeOK, IndexKnown, [Next]_vars
  PROVE  IndexKnown'
<1>1. index \subseteq index'
  BY DEF Next, JobStep, AllDone, vars, jobVars, StartRead, LoadIndex, Drop, EndVerify, StartAdd,
         Replace, OpenTemp, FillTemp, Rename, IgnoreLostTemp, RenameFails, VerifyFile, AddFile,
         WriteIndex, Import, Crash, Edit
<1>2. ASSUME NEW j \in Jobs, JobStep(j), NEW k \in Jobs
      PROVE  st'[k] \in {"verifying", "dropping", "ready"} => PkgOf[k] \in index'
  <2>1. CASE k # j
    <3>1. st'[k] = st[k]
      BY <1>2, <2>1 DEF JobStep, StartRead, LoadIndex, Drop, EndVerify, StartAdd, Replace,
         OpenTemp, FillTemp, Rename, IgnoreLostTemp, RenameFails, VerifyFile, AddFile,
         WriteIndex, Import, CheckOut, CheckIn, Stored, TypeOK
    <3> QED BY <1>1, <3>1 DEF IndexKnown
  <2>2. CASE k = j
    BY <1>1, <1>2, <2>2 DEF IndexKnown, JobStep, StartRead, LoadIndex, Drop, EndVerify,
       StartAdd, Replace, OpenTemp, FillTemp, Rename, IgnoreLostTemp, RenameFails, VerifyFile,
       AddFile, WriteIndex, Import, CheckOut, CheckIn, Stored, TypeOK
  <2> QED BY <2>1, <2>2
<1>3. ASSUME NEW p \in Procs, Crash(p) PROVE IndexKnown'
  <2>1. \A j \in Jobs : st'[j] \in {"start", st[j]}
    BY <1>3 DEF Crash
  <2> QED BY <1>1, <2>1 DEF IndexKnown
<1>4. CASE \E f \in Files : Edit(f)
  BY <1>4 DEF Edit, jobVars, IndexKnown
<1>5. CASE UNCHANGED vars
  BY <1>5 DEF vars, IndexKnown
<1> QED BY <1>2, <1>3, <1>4, <1>5 DEF Next, AllDone, IndexKnown

\* A step of the store publishes a package, serves a job, or is not seen.
LEMMA StepIsAtomic ==
  ASSUME TypeOK, SoundStore, IndexKnown, IndexedPackagesAreComplete', [Next]_vars
  PROVE  [AtomicStore!Next]_<<Available, Served>>
<1> USE DEF AtomicStore!Next, AtomicStore!Publish, AtomicStore!Serve
<1>1. Available = index /\ Available' = index'
  BY DEF Available, SoundStore, IndexedPackagesAreComplete
<1>2. ASSUME NEW j \in Jobs, WriteIndex(j)
      PROVE  [AtomicStore!Next]_<<Available, Served>>
  <2>1. index' = index \cup {PkgOf[j]} /\ PkgOf[j] \in Pkgs
    BY <1>2, StoreConstants DEF WriteIndex
  <2>2. Served' = Served
    BY <1>2 DEF WriteIndex, CheckIn, Served, TypeOK
  <2> QED BY <1>1, <2>1, <2>2
<1>3. ASSUME NEW j \in Jobs, Import(j)
      PROVE  [AtomicStore!Next]_<<Available, Served>>
  <2>1. PkgOf[j] \in index
    BY <1>3 DEF Import, IndexKnown
  <2>2. j \notin Served /\ Served' = Served \cup {j}
    BY <1>3 DEF Import, Served, TypeOK
  <2>3. index' = index
    BY <1>3 DEF Import
  <2> QED BY <1>1, <2>1, <2>2, <2>3
<1>4. ASSUME NEW j \in Jobs, JobStep(j), ~WriteIndex(j), ~Import(j)
      PROVE  UNCHANGED <<index, Served>>
  <2>1. index' = index
    BY <1>4 DEF JobStep, StartRead, LoadIndex, Drop, EndVerify, StartAdd, Replace, OpenTemp,
                FillTemp, Rename, IgnoreLostTemp, RenameFails, VerifyFile, AddFile
  <2>2. PICK s \in OnWorker \cup {"fetched", "ready", "failed"} :
            st[j] \notin {"imported", "broken"} /\ st' = [st EXCEPT ![j] = s]
    <3>1. st[j] \notin {"imported", "broken"}
      BY <1>4 DEF JobStep, StartRead, LoadIndex, Drop, EndVerify, StartAdd, Replace, OpenTemp,
                  FillTemp, Rename, IgnoreLostTemp, RenameFails, VerifyFile, AddFile, CheckOut
    <3>2. \/ \E s \in OnWorker \cup {"fetched", "ready", "failed"} : st' = [st EXCEPT ![j] = s]
          \/ st' = st /\ st[j] \in OnWorker
      BY <1>4 DEF JobStep, StartRead, LoadIndex, Drop, EndVerify, StartAdd, Replace, OpenTemp,
                  FillTemp, Rename, IgnoreLostTemp, RenameFails, VerifyFile, AddFile, CheckOut,
                  CheckIn, Stored, OnWorker
    <3>3. CASE st' = st /\ st[j] \in OnWorker
      <4>1. st' = [st EXCEPT ![j] = st[j]]
        BY <3>3 DEF TypeOK
      <4> QED BY <3>1, <3>3, <4>1
    <3> QED BY <3>1, <3>2, <3>3
  <2>3. Served' = Served
    BY <2>2 DEF Served, TypeOK, OnWorker
  <2> QED BY <2>1, <2>3
<1>5. ASSUME NEW p \in Procs, Crash(p)
      PROVE  UNCHANGED <<index, Served>>
  <2>1. index' = index
    BY <1>5 DEF Crash
  <2>2. \A j \in Jobs : st'[j] = IF JobProc[j] = p /\ st[j] \notin Ended THEN "start" ELSE st[j]
    BY <1>5 DEF Crash
  <2> QED BY <2>1, <2>2 DEF Served, Ended
<1>6. ASSUME NEW f \in Files, Edit(f)
      PROVE  UNCHANGED <<index, Served>>
  BY <1>6 DEF Edit, jobVars, Served
<1>7. CASE UNCHANGED vars
  BY <1>7 DEF vars, Available, Served
<1>8. UNCHANGED <<index, Served>> => UNCHANGED <<Available, Served>>
  BY <1>1
<1> QED BY <1>2, <1>3, <1>4, <1>5, <1>6, <1>7, <1>8 DEF Next, AllDone

\* ... so the store implements PackageStore: a package appears at once and for
\* good, and no job links a package that is not there as a whole.
THEOREM StoreIsAtomic ==
  ASSUME ~DirtyStore, MaxEdits = 0, UniqueTemps
  PROVE  Spec => ImplementsPackageStore
<1>1. Init => AtomicStore!Init
  BY DEF Init, AtomicStore!Init, Available, Served
<1>2. SoundStore => IndexedPackagesAreComplete
  BY DEF SoundStore
<1>3. Init => IndexKnown
  BY DEF Init, IndexKnown
<1>4. TypeOK /\ IndexKnown /\ [Next]_vars => IndexKnown'
  BY StepKnowsIndex
<1>5. TypeOK /\ SoundStore /\ IndexKnown /\ IndexedPackagesAreComplete' /\ [Next]_vars
      => [AtomicStore!Next]_<<Available, Served>>
  BY StepIsAtomic
<1> QED BY <1>1, <1>2, <1>3, <1>4, <1>5, CleanStoreInvariant, PTL
        DEF Spec, ImplementsPackageStore, AtomicStore!Spec
-----------------------------------------------------------------------------
\* Verification with one worker

\* One worker in all: the pool of a process on two cores.
OneWorker == \A w, u \in Workers : w = u

\* What is about to be removed is still the bad file that was read.
BadOnesGo ==
  \A j \in Jobs : st[j] \in {"dropping", "replacing"} => content[cur[j]] # "good"

\* With one worker no other job writes between the reading of a file and its
\* removal.
LEMMA StepKeepsBadOnes ==
  ASSUME OneWorker, TypeOK, Placed, OneJobPerWorker, BadOnesGo, [Next]_vars
  PROVE  BadOnesGo'
<1> USE DEF TypeOK, BadOnesGo
<1>1. ASSUME NEW j \in Jobs, NEW k \in Jobs, st[j] \in OnWorker, st[k] \in OnWorker
      PROVE  j = k
  <2>1. at[j] \in Workers /\ at[k] \in Workers
    BY <1>1 DEF Placed
  <2> QED BY <2>1, StoreConstants DEF OneWorker, OneJobPerWorker
<1>2. CASE \E j \in Jobs : FillTemp(j) \/ Rename(j)
  <2>1. PICK j \in Jobs : FillTemp(j) \/ Rename(j)
    BY <1>2
  <2>2. st[j] \in {"filling", "renaming"} /\ st[j] \in OnWorker
    BY <2>1 DEF FillTemp, Rename, OnWorker
  <2>3. \A k \in Jobs : st[k] \notin {"dropping", "replacing"}
    BY <1>1, <2>2 DEF OnWorker
  <2>4. st' = [st EXCEPT ![j] = "renaming"] \/ st' = [st EXCEPT ![j] = "adding"]
    BY <2>1 DEF FillTemp, Rename, Stored
  <2> QED BY <2>3, <2>4
<1>3. CASE \E j \in Jobs : Drop(j) \/ Replace(j)
  BY <1>3 DEF Drop, Replace, Unlink, Placed
<1>4. CASE \E j \in Jobs : StartRead(j) \/ LoadIndex(j) \/ EndVerify(j) \/ StartAdd(j)
             \/ WriteIndex(j) \/ OpenTemp(j) \/ IgnoreLostTemp(j) \/ RenameFails(j) \/ Import(j)
  BY <1>4 DEF StartRead, LoadIndex, EndVerify, StartAdd, WriteIndex, OpenTemp, IgnoreLostTemp,
              RenameFails, Import, CheckOut, CheckIn, Stored
<1>5. CASE \E j \in Jobs, f \in Files : VerifyFile(j, f) \/ AddFile(j, f)
  BY <1>5 DEF VerifyFile, AddFile
<1>6. ASSUME NEW p \in Procs, Crash(p) PROVE BadOnesGo'
  BY <1>6 DEF Crash
<1>7. ASSUME NEW f \in Files, Edit(f) PROVE BadOnesGo'
  BY <1>7 DEF Edit, jobVars, Placed
<1>8. CASE UNCHANGED vars
  BY <1>8 DEF vars
<1> QED BY <1>2, <1>3, <1>4, <1>5, <1>6, <1>7, <1>8 DEF Next, JobStep, AllDone

\* A step that removes a file drops or replaces it, and that file is bad.
LEMMA StepRemovesBadOnes ==
  ASSUME TypeOK, Placed, BadOnesGo, [Next]_vars
  PROVE  \A f \in Files : content[f] = "good" => content'[f] # "absent"
<1> USE DEF TypeOK
<1>1. ASSUME NEW j \in Jobs, Drop(j) \/ Replace(j)
      PROVE  \A f \in Files : content[f] = "good" => content'[f] # "absent"
  BY <1>1 DEF Drop, Replace, Unlink, BadOnesGo
<1>2. ASSUME NEW j \in Jobs, Rename(j)
      PROVE  \A f \in Files : content[f] = "good" => content'[f] # "absent"
  BY <1>2 DEF Rename, TempIsThere
<1>3. ASSUME NEW j \in Jobs, FillTemp(j)
      PROVE  \A f \in Files : content[f] = "good" => content'[f] # "absent"
  BY <1>3 DEF FillTemp
<1>4. CASE UNCHANGED content
  BY <1>4
<1>5. ASSUME NEW j \in Jobs, JobStep(j), ~Drop(j), ~Replace(j), ~Rename(j), ~FillTemp(j)
      PROVE  UNCHANGED content
  BY <1>5 DEF JobStep, StartRead, LoadIndex, EndVerify, StartAdd, OpenTemp, IgnoreLostTemp,
              RenameFails, VerifyFile, AddFile, WriteIndex, Import
<1>6. ASSUME NEW f \in Files, Edit(f)
      PROVE  \A g \in Files : content[g] = "good" => content'[g] # "absent"
  BY <1>6 DEF Edit
<1>7. CASE \E p \in Procs : Crash(p)
  BY <1>4, <1>7 DEF Crash
<1>8. CASE UNCHANGED vars
  BY <1>4, <1>8 DEF vars
<1> QED BY <1>1, <1>2, <1>3, <1>4, <1>5, <1>6, <1>7, <1>8 DEF Next, AllDone

\* In any store, edited meanwhile or not, whatever crashes: as long as one
\* worker serves every job, verification removes broken files only.
THEOREM OneWorkerRemovesBroken ==
  ASSUME OneWorker
  PROVE  Spec => OnlyBrokenFilesAreRemoved
<1>1. Init => TypeOK /\ Placed /\ OneJobPerWorker /\ BadOnesGo
  BY StoreInitTyped DEF Init, OneJobPerWorker, BadOnesGo
<1>2. TypeOK /\ Placed /\ OneJobPerWorker /\ BadOnesGo /\ [Next]_vars
      => (TypeOK /\ Placed /\ OneJobPerWorker /\ BadOnesGo)'
  BY StoreStepTyped, PoolStep, StepKeepsBadOnes
<1>3. TypeOK /\ Placed /\ BadOnesGo /\ [Next]_vars
      => [\A f \in Files : content[f] = "good" => content'[f] # "absent"]_vars
  BY StepRemovesBadOnes
<1> QED BY <1>1, <1>2, <1>3, PTL DEF Spec, OnlyBrokenFilesAreRemoved

-----------------------------------------------------------------------------
\* Two containers of one worker each

SameName(w, u) == PathTemp(w) = PathTemp(u)

\* Having the same name is symmetric and transitive.
LEMMA SameNames ==
  ASSUME NEW w, NEW u, NEW v, SameName(w, u)
  PROVE  SameName(u, w) /\ (SameName(u, v) => SameName(w, v))
BY DEF SameName

\* At most one pair of workers has the same temporary name: two containers
\* with a process of the same id and one worker each, beside any number of
\* processes of other ids.
OnePair ==
  \A w, u, v, x \in Workers :
    SameName(w, u) /\ w # u /\ SameName(v, x) /\ v # x => {w, u} = {v, x}

OwnTemp(j) == temp[cur[j]][PathTemp(at[j])]

Alone(w) == \A u \in Workers : SameName(u, w) => u = w

\* The job has opened its temporary file and does not hold it any more: the
\* file is written, or somebody of its name renamed it.
HasLost(j) == st[j] \in {"filling", "renaming"} /\ fd[j] # "temp"

\* The target was missing or removed before the write: what is there since is
\* not an edited file.
NotEdited ==
  \A j \in Jobs : st[j] \in {"writing", "filling", "renaming"} => content[cur[j]] # "edited"

\* A worker with a name of its own finds its temporary file as it left it.
AloneWrites ==
  \A j \in Jobs : Alone(at[j]) =>
    /\ st[j] = "filling" => fd[j] = "temp"
    /\ st[j] = "renaming" => OwnTemp(j) = "good"

\* A partial temporary file is being written: not both workers of the pair
\* have lost it.
PartialHasWriter ==
  \A j, k \in Jobs :
    j # k /\ HasLost(j) /\ HasLost(k) /\ cur[j] = cur[k] /\ SameName(at[j], at[k])
      => OwnTemp(j) # "partial"

\* Where the temporary file and the descriptor are gone, the target is whole.
LostIsReplaced ==
  \A j \in Jobs :
    HasLost(j) /\ fd[j] = "none" /\ OwnTemp(j) = "absent"
      => content[cur[j]] \in {"absent", "good"}

PairInv == NotEdited /\ AloneWrites /\ PartialHasWriter /\ LostIsReplaced

\* Three jobs on workers do not have one name.
LEMMA NoThirdName ==
  ASSUME OnePair, TypeOK, Placed, OneJobPerWorker,
         NEW j \in Jobs, NEW k \in Jobs, NEW m \in Jobs, j # k, j # m, k # m,
         st[j] \in OnWorker, st[k] \in OnWorker, st[m] \in OnWorker,
         SameName(at[j], at[k])
  PROVE  ~SameName(at[j], at[m])
<1>1. /\ at[j] \in Workers /\ at[k] \in Workers /\ at[m] \in Workers
      /\ at[j] # at[k] /\ at[j] # at[m] /\ at[k] # at[m]
  BY StoreConstants DEF Placed, OneJobPerWorker
<1>2. SUFFICES ASSUME SameName(at[j], at[m]) PROVE FALSE
  OBVIOUS
<1>3. {at[j], at[k]} = {at[j], at[m]}
  BY <1>1, <1>2 DEF OnePair
<1> QED BY <1>1, <1>3

\* A step that leaves the files and the temporary files alone, and makes jobs
\* stop writing or start on a target that is not edited, keeps the invariant.
LEMMA PairQuiet ==
  ASSUME PairInv, UNCHANGED <<content, temp>>,
         \A j \in Jobs : \/ st'[j] \notin {"writing", "filling", "renaming"}
                         \/ st'[j] = "writing" /\ content[cur'[j]] # "edited"
                         \/ /\ st'[j] = st[j] /\ at'[j] = at[j]
                            /\ cur'[j] = cur[j] /\ fd'[j] = fd[j]
  PROVE  PairInv'
<1> DEFINE Writes(j) == st'[j] \in {"filling", "renaming"}
<1>1. \A j \in Jobs : Writes(j) => /\ st'[j] = st[j] /\ at'[j] = at[j]
                                   /\ cur'[j] = cur[j] /\ fd'[j] = fd[j]
  OBVIOUS
<1>2. \A j \in Jobs : Writes(j) => OwnTemp(j)' = OwnTemp(j)
  BY <1>1 DEF OwnTemp, PathTemp
<1>3. \A j \in Jobs : HasLost(j)' => HasLost(j) /\ Writes(j)
  BY <1>1 DEF HasLost
<1>4. NotEdited'
  BY <1>1 DEF PairInv, NotEdited
<1>5. AloneWrites'
  BY <1>1, <1>2 DEF PairInv, AloneWrites, Alone, SameName, PathTemp
<1>6. PartialHasWriter'
  BY <1>1, <1>2, <1>3 DEF PairInv, PartialHasWriter, SameName, PathTemp
<1>7. LostIsReplaced'
  BY <1>1, <1>2, <1>3 DEF PairInv, LostIsReplaced
<1> QED BY <1>4, <1>5, <1>6, <1>7 DEF PairInv

\* A file that is removed was no target of a job, or is missing from now on.
LEMMA PairUnlink ==
  ASSUME TypeOK, Placed, PairInv, NEW j \in Jobs, Drop(j) \/ Replace(j)
  PROVE  PairInv'
<1> USE DEF TypeOK, PairInv
<1>1. /\ content' = [content EXCEPT ![cur[j]] = "absent"] /\ UNCHANGED <<temp, at>>
      /\ cur[j] \in Files /\ st[j] \in {"dropping", "replacing"}
      /\ st' = [st EXCEPT ![j] = "verifying"] \/ st' = [st EXCEPT ![j] = "writing"]
      /\ (cur' = [cur EXCEPT ![j] = NoFile] /\ st'[j] = "verifying") \/ cur' = cur
  BY DEF Drop, Replace, Unlink, Placed
<1>2. /\ \A k \in Jobs : fd[k] = "temp" <=> fd'[k] = "temp"
      /\ \A k \in Jobs : fd'[k] = "none" => fd[k] = "none" \/ content'[cur[k]] = "absent"
  BY <1>1 DEF Drop, Replace, Unlink, Placed
<1>3. \A k \in Jobs : st'[k] \in {"filling", "renaming"} =>
         /\ k # j /\ st'[k] = st[k] /\ cur'[k] = cur[k] /\ OwnTemp(k)' = OwnTemp(k)
  BY <1>1 DEF OwnTemp, PathTemp
<1>4. NotEdited'
  BY <1>1 DEF NotEdited
<1>5. AloneWrites'
  BY <1>1, <1>2, <1>3 DEF AloneWrites, Alone, SameName, PathTemp
<1>6. \A k \in Jobs : HasLost(k)' => HasLost(k) /\ st'[k] \in {"filling", "renaming"}
  BY <1>2, <1>3 DEF HasLost
<1>7. PartialHasWriter'
  BY <1>1, <1>3, <1>6 DEF PartialHasWriter, SameName, PathTemp
<1>8. LostIsReplaced'
  <2> SUFFICES ASSUME NEW k \in Jobs, HasLost(k)', fd'[k] = "none", OwnTemp(k)' = "absent"
      PROVE content'[cur'[k]] \in {"absent", "good"}
    BY DEF LostIsReplaced
  <2>1. HasLost(k) /\ cur'[k] = cur[k] /\ OwnTemp(k) = "absent"
    BY <1>3, <1>6
  <2>2. CASE content'[cur[k]] = "absent"
    BY <2>1, <2>2
  <2>3. CASE content'[cur[k]] # "absent"
    <3>1. fd[k] = "none" /\ content'[cur[k]] = content[cur[k]]
      BY <1>1, <1>2, <2>3
    <3> QED BY <2>1, <3>1 DEF LostIsReplaced
  <2> QED BY <2>2, <2>3
<1> QED BY <1>4, <1>5, <1>7, <1>8

\* An open makes the temporary file partial and is one that holds it.
LEMMA PairOpen ==
  ASSUME OnePair, TypeOK, Placed, OneJobPerWorker, PairInv, NEW j \in Jobs, OpenTemp(j)
  PROVE  PairInv'
<1> USE DEF TypeOK, PairInv
<1>1. cur[j] \in Files /\ at[j] \in Workers /\ PathTemp(at[j]) \in Temps /\ st[j] = "writing"
  BY TempNames DEF OpenTemp, Placed, OnWorker
<1>2. /\ st' = [st EXCEPT ![j] = "filling"] /\ fd' = [fd EXCEPT ![j] = "temp"]
      /\ temp' = [temp EXCEPT ![cur[j]][PathTemp(at[j])] = "partial"]
      /\ UNCHANGED <<content, at, cur>>
  BY DEF OpenTemp
<1>3. \A k \in Jobs : st[k] \in {"filling", "renaming"} =>
         /\ cur[k] \in Files /\ at[k] \in Workers /\ PathTemp(at[k]) \in Temps
         /\ st'[k] = st[k] /\ fd'[k] = fd[k] /\ k # j /\ at[k] # at[j]
  BY <1>1, <1>2, TempNames, StoreConstants DEF Placed, OnWorker, OneJobPerWorker
<1>4. \A k \in Jobs : st[k] \in {"filling", "renaming"} =>
         OwnTemp(k)' = IF cur[k] = cur[j] /\ SameName(at[k], at[j]) THEN "partial" ELSE OwnTemp(k)
  BY <1>1, <1>2, <1>3 DEF OwnTemp, SameName, PathTemp
<1>5. \A k \in Jobs : HasLost(k)' => HasLost(k) /\ k # j
  BY <1>2 DEF HasLost
<1>6. NotEdited'
  BY <1>1, <1>2 DEF NotEdited
<1>7. AloneWrites'
  <2> SUFFICES ASSUME NEW k \in Jobs, Alone(at[k])
      PROVE  /\ st'[k] = "filling" => fd'[k] = "temp"
             /\ st'[k] = "renaming" => OwnTemp(k)' = "good"
    BY <1>2 DEF AloneWrites, Alone, SameName, PathTemp
  <2>1. CASE k = j
    BY <1>2, <2>1
  <2>2. CASE k # j
    <3>1. st[k] = "renaming" => ~SameName(at[j], at[k])
      BY <1>1, <1>3 DEF Alone
    <3> QED BY <1>2, <1>3, <1>4, <2>2, <3>1 DEF AloneWrites, SameName
  <2> QED BY <2>1, <2>2
<1>8. PartialHasWriter'
  <2> SUFFICES ASSUME NEW k \in Jobs, NEW m \in Jobs, k # m, HasLost(k)', HasLost(m)',
                      cur[k] = cur[m], SameName(at[k], at[m])
      PROVE  OwnTemp(k)' # "partial"
    BY <1>2 DEF PartialHasWriter, SameName, PathTemp
  <2>1. HasLost(k) /\ HasLost(m) /\ k # j /\ m # j
    BY <1>5
  <2>2. ~SameName(at[k], at[j]) \/ cur[k] # cur[j]
    BY <1>2, <2>1, NoThirdName, SameNames DEF HasLost, OpenTemp, OnWorker
  <2> QED BY <1>4, <2>1, <2>2 DEF PartialHasWriter, HasLost
<1>9. LostIsReplaced'
  BY <1>2, <1>4, <1>5 DEF LostIsReplaced, HasLost
<1> QED BY <1>6, <1>7, <1>8, <1>9

\* A write through the descriptor makes the file whole, wherever it is.
LEMMA PairFill ==
  ASSUME TypeOK, Placed, OneJobPerWorker, PairInv, NEW j \in Jobs, FillTemp(j)
  PROVE  PairInv'
<1> USE DEF TypeOK, PairInv
<1>1. cur[j] \in Files /\ at[j] \in Workers /\ PathTemp(at[j]) \in Temps /\ st[j] = "filling"
  BY TempNames DEF FillTemp, Placed, OnWorker
<1>2. /\ st' = [st EXCEPT ![j] = "renaming"] /\ fd' = [fd EXCEPT ![j] = "none"]
      /\ UNCHANGED <<at, cur>>
  BY DEF FillTemp
<1>3. \A k \in Jobs : /\ content'[cur[k]] = content[cur[k]] \/ content'[cur[k]] = "good"
                      /\ fd[j] = "placed" => content'[cur[j]] = "good"
  BY <1>1 DEF FillTemp
<1>4. \A k \in Jobs : st[k] \in {"filling", "renaming"} =>
         OwnTemp(k)' = IF fd[j] = "temp" /\ cur[k] = cur[j] /\ SameName(at[k], at[j])
                       THEN "good" ELSE OwnTemp(k)
  <2> TAKE k \in Jobs
  <2> HAVE st[k] \in {"filling", "renaming"}
  <2>1. cur[k] \in Files /\ at[k] \in Workers /\ PathTemp(at[k]) \in Temps
    BY TempNames DEF Placed, OnWorker
  <2>2. CASE fd[j] = "temp"
    <3>1. temp' = [temp EXCEPT ![cur[j]][PathTemp(at[j])] = "good"]
      BY <2>2 DEF FillTemp
    <3> QED BY <1>1, <1>2, <2>1, <2>2, <3>1 DEF OwnTemp, SameName, PathTemp
  <2>3. CASE fd[j] # "temp"
    BY <1>2, <2>3 DEF FillTemp, OwnTemp, PathTemp
  <2> QED BY <2>2, <2>3
<1>5. \A k \in Jobs : st'[k] \in {"filling", "renaming"} => st[k] \in {"filling", "renaming"}
  BY <1>1, <1>2
<1>6. \A k \in Jobs : k # j => st'[k] = st[k] /\ fd'[k] = fd[k] /\ (HasLost(k)' <=> HasLost(k))
  BY <1>2 DEF HasLost
<1>7. SameName(at[j], at[j])
  BY DEF SameName
<1>8. NotEdited'
  BY <1>1, <1>2, <1>3 DEF NotEdited
<1>9. AloneWrites'
  <2> SUFFICES ASSUME NEW k \in Jobs, Alone(at[k])
      PROVE  /\ st'[k] = "filling" => fd'[k] = "temp"
             /\ st'[k] = "renaming" => OwnTemp(k)' = "good"
    BY <1>2 DEF AloneWrites, Alone, SameName, PathTemp
  <2>1. CASE k = j
    BY <1>1, <1>2, <1>4, <1>7, <2>1 DEF AloneWrites
  <2>2. CASE k # j
    BY <1>4, <1>6, <2>2 DEF AloneWrites
  <2> QED BY <2>1, <2>2
<1>10. PartialHasWriter'
  <2> SUFFICES ASSUME NEW k \in Jobs, NEW m \in Jobs, k # m, HasLost(k)', HasLost(m)',
                      cur[k] = cur[m], SameName(at[k], at[m])
      PROVE  OwnTemp(k)' # "partial"
    BY <1>2 DEF PartialHasWriter, SameName, PathTemp
  <2>1. st[k] \in {"filling", "renaming"} /\ st[m] \in {"filling", "renaming"}
    BY <1>5 DEF HasLost
  <2>2. CASE fd[j] = "temp" /\ cur[k] = cur[j] /\ SameName(at[k], at[j])
    BY <1>4, <2>1, <2>2
  <2>3. CASE fd[j] = "temp" /\ ~(cur[k] = cur[j] /\ SameName(at[k], at[j]))
    <3>1. k # j /\ m # j
      BY <1>7, <2>3
    <3> QED BY <1>4, <1>6, <2>1, <2>3, <3>1 DEF PartialHasWriter
  <2>4. CASE fd[j] # "temp"
    <3>1. HasLost(k) /\ HasLost(m)
      BY <1>1, <1>6, <2>4 DEF HasLost
    <3> QED BY <1>4, <2>1, <2>4, <3>1 DEF PartialHasWriter
  <2> QED BY <2>2, <2>3, <2>4
<1>11. LostIsReplaced'
  <2> SUFFICES ASSUME NEW k \in Jobs, HasLost(k)', fd'[k] = "none", OwnTemp(k)' = "absent"
      PROVE content'[cur[k]] \in {"absent", "good"}
    BY <1>2 DEF LostIsReplaced
  <2>1. st[k] \in {"filling", "renaming"} /\ OwnTemp(k) = "absent"
    BY <1>4, <1>5 DEF HasLost
  <2>2. CASE k = j
    <3>1. fd[j] # "temp"
      BY <1>1, <1>4, <1>7, <2>2
    <3>2. fd[j] = "placed" \/ (fd[j] = "none" /\ HasLost(j))
      BY <1>1, <3>1 DEF HasLost
    <3> QED BY <1>3, <2>1, <2>2, <3>2 DEF LostIsReplaced
  <2>3. CASE k # j
    BY <1>3, <1>6, <2>1, <2>3 DEF LostIsReplaced
  <2> QED BY <2>2, <2>3
<1> QED BY <1>8, <1>9, <1>10, <1>11

\* Where a job has lost its temporary file, what another one renames to its
\* target is whole.
LEMMA PairReplaces ==
  ASSUME OnePair, TypeOK, Placed, PairInv,
         NEW j \in Jobs, st[j] = "renaming", OwnTemp(j) # "absent",
         NEW k \in Jobs \ {j}, HasLost(k), cur[k] = cur[j],
         SameName(at[k], at[j]) \/ OwnTemp(k) = "absent"
  PROVE  OwnTemp(j) = "good"
<1>1. /\ at[j] \in Workers /\ at[k] \in Workers /\ cur[j] \in Files
      /\ fd[j] = "none" /\ OwnTemp(j) \in {"partial", "good"}
  BY TempUpdate, TempNames DEF Placed, OnWorker, HasLost, TypeOK, OwnTemp
<1>2. HasLost(j)
  BY <1>1 DEF HasLost
<1>3. CASE SameName(at[k], at[j])
  BY <1>1, <1>2, <1>3, SameNames DEF PairInv, PartialHasWriter
<1>4. CASE ~SameName(at[k], at[j]) /\ OwnTemp(k) = "absent"
  <2>1. ~Alone(at[k])
    BY <1>4 DEF PairInv, AloneWrites, HasLost
  <2>2. Alone(at[j])
    BY <1>1, <1>4, <2>1 DEF Alone, OnePair, SameName
  <2> QED BY <2>2 DEF PairInv, AloneWrites
<1> QED BY <1>3, <1>4

\* A rename takes the temporary file from those who share its name.
LEMMA PairRename ==
  ASSUME OnePair, TypeOK, Placed, OneJobPerWorker, PairInv, NEW j \in Jobs, Rename(j)
  PROVE  PairInv'
<1> USE DEF TypeOK, PairInv
<1>1. cur[j] \in Files /\ at[j] \in Workers /\ PathTemp(at[j]) \in Temps /\ st[j] = "renaming"
  BY TempNames DEF Rename, Placed, OnWorker
<1>2. /\ st' = [st EXCEPT ![j] = "adding"] /\ cur' = [cur EXCEPT ![j] = NoFile]
      /\ content' = [content EXCEPT ![cur[j]] = OwnTemp(j)]
      /\ temp' = [temp EXCEPT ![cur[j]][PathTemp(at[j])] = "absent"]
      /\ UNCHANGED at
  BY DEF Rename, Stored, OwnTemp
<1>3. OwnTemp(j) \in {"partial", "good"}
  BY <1>1, TempUpdate DEF Rename, TempIsThere, OwnTemp
<1>4. \A k \in Jobs : /\ fd[k] = "none" => fd'[k] = "none"
                      /\ fd'[k] = "none" => fd[k] # "temp"
                      /\ cur[k] # cur[j] => fd'[k] = fd[k]
                      /\ fd[k] = "temp" /\ ~SameName(at[k], at[j]) => fd'[k] = "temp"
                      /\ fd[k] # "temp" => fd'[k] # "temp"
  BY DEF Rename, SameName
<1>5. \A k \in Jobs : st'[k] \in {"writing", "filling", "renaming"} =>
         k # j /\ st'[k] = st[k] /\ cur'[k] = cur[k] /\ cur[k] \in Files
  BY <1>2 DEF Placed
<1>6. \A k \in Jobs : st'[k] \in {"filling", "renaming"} =>
         OwnTemp(k)' = IF cur[k] = cur[j] /\ SameName(at[k], at[j]) THEN "absent" ELSE OwnTemp(k)
  <2> TAKE k \in Jobs
  <2> HAVE st'[k] \in {"filling", "renaming"}
  <2>1. cur[k] \in Files /\ at[k] \in Workers /\ PathTemp(at[k]) \in Temps /\ cur'[k] = cur[k]
    BY <1>5, TempNames DEF Placed, OnWorker
  <2> QED BY <1>1, <1>2, <2>1 DEF OwnTemp, SameName, PathTemp
<1>7. \A k \in Jobs : HasLost(k)' =>
         k # j /\ (HasLost(k) \/ (cur[k] = cur[j] /\ SameName(at[k], at[j])))
  BY <1>4, <1>5 DEF HasLost
<1>8. NotEdited'
  BY <1>1, <1>2, <1>3, <1>5 DEF NotEdited
<1>9. AloneWrites'
  <2> SUFFICES ASSUME NEW k \in Jobs, Alone(at[k]), st'[k] \in {"filling", "renaming"}
      PROVE  /\ st'[k] = "filling" => fd'[k] = "temp"
             /\ st'[k] = "renaming" => OwnTemp(k)' = "good"
    BY <1>2 DEF AloneWrites, Alone, SameName, PathTemp
  <2>1. k # j /\ st'[k] = st[k]
    BY <1>5
  <2>2. ~SameName(at[k], at[j])
    <3>1. at[k] # at[j]
      BY <1>1, <2>1, StoreConstants DEF OneJobPerWorker
    <3> QED BY <1>1, <3>1 DEF Alone, SameName
  <2> QED BY <1>4, <1>6, <2>1, <2>2 DEF AloneWrites
<1>10. PartialHasWriter'
  <2> SUFFICES ASSUME NEW k \in Jobs, NEW m \in Jobs, k # m, HasLost(k)', HasLost(m)',
                      cur'[k] = cur'[m], SameName(at[k], at[m])
      PROVE  OwnTemp(k)' # "partial"
    BY <1>2 DEF PartialHasWriter, SameName, PathTemp
  <2>1. st'[k] \in {"filling", "renaming"} /\ cur'[k] = cur[k] /\ cur'[m] = cur[m]
    BY <1>5 DEF HasLost
  <2>2. CASE cur[k] = cur[j] /\ SameName(at[k], at[j])
    BY <1>6, <2>1, <2>2
  <2>3. CASE ~(cur[k] = cur[j] /\ SameName(at[k], at[j]))
    <3>1. HasLost(k) /\ HasLost(m)
      BY <1>7, <2>1, <2>3 DEF SameName
    <3> QED BY <1>6, <2>1, <2>3, <3>1 DEF PartialHasWriter
  <2> QED BY <2>2, <2>3
<1>11. LostIsReplaced'
  <2> SUFFICES ASSUME NEW k \in Jobs, HasLost(k)', fd'[k] = "none", OwnTemp(k)' = "absent"
      PROVE content'[cur[k]] \in {"absent", "good"}
    BY <1>5 DEF LostIsReplaced, HasLost
  <2>1. k # j /\ st'[k] \in {"filling", "renaming"} /\ HasLost(k) /\ cur[k] \in Files
    BY <1>4, <1>5, <1>7 DEF HasLost
  <2>2. CASE cur[k] = cur[j]
    <3>1. SameName(at[k], at[j]) \/ OwnTemp(k) = "absent"
      BY <1>6, <2>1
    <3>2. OwnTemp(j) = "good"
      BY <1>1, <1>3, <2>1, <2>2, <3>1, PairReplaces
    <3> QED BY <1>1, <1>2, <2>2, <3>2
  <2>3. CASE cur[k] # cur[j]
    BY <1>2, <1>4, <1>6, <2>1, <2>3 DEF LostIsReplaced
  <2> QED BY <2>2, <2>3
<1> QED BY <1>8, <1>9, <1>10, <1>11

\* Every step keeps the invariant of the pair.
LEMMA PairStep ==
  ASSUME OnePair, MaxEdits = 0, TypeOK, Placed, OneJobPerWorker, PairInv, [Next]_vars
  PROVE  PairInv'
<1>1. ASSUME NEW j \in Jobs, StartRead(j) \/ LoadIndex(j) \/ EndVerify(j) \/ StartAdd(j)
               \/ WriteIndex(j) \/ IgnoreLostTemp(j) \/ RenameFails(j) \/ Import(j)
      PROVE  PairInv'
  <2>1. /\ UNCHANGED <<content, temp>> /\ st'[j] \notin {"writing", "filling", "renaming"}
        /\ \A k \in Jobs \ {j} : /\ st'[k] = st[k] /\ at'[k] = at[k]
                                 /\ cur'[k] = cur[k] /\ fd'[k] = fd[k]
    BY <1>1 DEF StartRead, LoadIndex, EndVerify, StartAdd, WriteIndex, IgnoreLostTemp,
                RenameFails, Import, CheckOut, CheckIn, Stored, TypeOK
  <2> QED BY <2>1, PairQuiet
<1>2. ASSUME NEW j \in Jobs, NEW f \in Files, VerifyFile(j, f) \/ AddFile(j, f)
      PROVE  PairInv'
  <2>1. /\ UNCHANGED <<content, temp>>
        /\ \/ st'[j] \notin {"writing", "filling", "renaming"}
           \/ st'[j] = "writing" /\ content[cur'[j]] # "edited"
        /\ \A k \in Jobs \ {j} : /\ st'[k] = st[k] /\ at'[k] = at[k]
                                 /\ cur'[k] = cur[k] /\ fd'[k] = fd[k]
    BY <1>2 DEF VerifyFile, AddFile, TypeOK
  <2> QED BY <2>1, PairQuiet
<1>3. ASSUME NEW p \in Procs, Crash(p) PROVE PairInv'
  <2>1. /\ UNCHANGED <<content, temp>>
        /\ \A j \in Jobs : \/ st'[j] = "start"
                           \/ /\ st'[j] = st[j] /\ at'[j] = at[j]
                              /\ cur'[j] = cur[j] /\ fd'[j] = fd[j]
    BY <1>3 DEF Crash
  <2> QED BY <2>1, PairQuiet
<1>4. ASSUME NEW f \in Files, Edit(f) PROVE PairInv'
  BY <1>4 DEF Edit, TypeOK
<1>5. CASE UNCHANGED vars
  BY <1>5, PairQuiet DEF vars
<1> QED BY <1>1, <1>2, <1>3, <1>4, <1>5, PairUnlink, PairOpen, PairFill, PairRename
        DEF Next, JobStep, AllDone

\* In any store that nobody edits while it is used, whatever crashes: as long
\* as no more than two workers share a temporary name, "we just ignore the
\* issue and assume that the target file is correct" is right.  With two pairs
\* it is not: a worker of the other pair may rename a file that its namesake
\* has just truncated.
THEOREM AssumedTargets ==
  ASSUME OnePair, MaxEdits = 0
  PROVE  Spec => []AssumedTargetIsCorrect
<1>1. Init => TypeOK /\ Placed /\ OneJobPerWorker /\ PairInv
  BY StoreInitTyped DEF Init, OneJobPerWorker, PairInv, NotEdited, AloneWrites,
     PartialHasWriter, LostIsReplaced, HasLost
<1>2. TypeOK /\ Placed /\ OneJobPerWorker /\ PairInv /\ [Next]_vars
      => (TypeOK /\ Placed /\ OneJobPerWorker /\ PairInv)'
  BY StoreStepTyped, PoolStep, PairStep
<1>3. Placed /\ PairInv => AssumedTargetIsCorrect
  BY DEF Placed, PairInv, LostIsReplaced, HasLost, OwnTemp, AssumedTargetIsCorrect, TempIsThere
<1> QED BY <1>1, <1>2, <1>3, PTL DEF Spec
=============================================================================
