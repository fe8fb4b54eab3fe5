----------------------------- MODULE StorePrune -----------------------------
\* store/package-store/src/storeController/prune.ts beside installs of other
\* processes: what nothing but the store links to is removed, and then the
\* index of every package whose package.json was.
EXTENDS Naturals, FiniteSets, Functions, TLC

CONSTANTS
  Prunes, Installs,  \* processes
  MaxBeside,         \* of them that run beside another one
  MaxBegun,          \* of them that ever run
  After,             \* process -> one like it that begins before it, or itself
  MaxDead,           \* processes that are killed
  FilesOf,           \* package -> its files, by content
  PackageOf,         \* install -> the package it installs
  Manifest           \* package -> the content of its package.json, where it has one

PruneAssumption ==
  /\ Prunes \cap Installs = {} /\ PackageOf \in [Installs -> DOMAIN FilesOf] /\ MaxDead \in Nat
  /\ After \in [Prunes \cup Installs -> Prunes \cup Installs]
  /\ \A k \in DOMAIN Manifest : k \in DOMAIN FilesOf /\ Manifest[k] \in FilesOf[k]

VARIABLES
  files,    \* <<"file", f>> and, by an install, <<"temp", i, f>> in the store
  indexes,  \* packages that have an index
  shared,   \* install -> files of its node_modules that are those of the store
  job,      \* install -> what it does
  prune,    \* prune -> what it does
  beside,   \* process -> those that were active while it was
  dead      \* processes killed

pruneVars == <<files, indexes, shared, job, prune, beside, dead>>

Packages == DOMAIN FilesOf
Hashes == UNION {FilesOf[k] : k \in Packages}
File(f) == <<"file", f>>
Temp(i, f) == <<"temp", i, f>>
Index(k) == <<"index", k>>
Entries(f) == {File(f)} \cup {Temp(i, f) : i \in Installs}
Stored == {f \in Hashes : File(f) \in files}

Idle == [at |-> "idle", listed |-> {}, dirs |-> {}, ops |-> <<>>, removed |-> {}]

Init ==
  /\ files = {} /\ indexes = {} /\ shared = [i \in Installs |-> {}]
  /\ job = [i \in Installs |-> [at |-> "idle", todo |-> {}, temp |-> {}]]
  /\ prune = [p \in Prunes |-> Idle]
  /\ beside = [x \in Prunes \cup Installs |-> {}] /\ dead = 0

Active ==
  {i \in Installs : job[i].at \in {"load", "verify", "add", "import"}}
  \cup {p \in Prunes : prune[p].at \in {"files", "indexes", "failed"}}

Begun == {i \in Installs : job[i].at # "idle"} \cup {p \in Prunes : prune[p].at # "idle"}

Begin(x) ==
  /\ Cardinality(Begun) < MaxBegun /\ After[x] \in Begun \cup {x}
  /\ Active # {} => Cardinality({y \in DOMAIN beside : beside[y] # {}} \cup Active \cup {x}) <= MaxBeside
  /\ beside' = [y \in DOMAIN beside |->
       IF y = x THEN Active ELSE IF y \in Active THEN beside[y] \cup {x} ELSE beside[y]]
  /\ UNCHANGED dead

-----------------------------------------------------------------------------
\* An install (abstracted from CafsStore and Importer): the files of a package
\* that has an index are verified, those that are missing are added, the index
\* comes last, and then the files are linked.

At(i, at) == job[i].at = at
Goto(i, at) == job' = [job EXCEPT ![i].at = at, ![i].todo = FilesOf[PackageOf[i]]]
Did(i, f) == job' = [job EXCEPT ![i].todo = @ \ {f}]
InstallKeeps == UNCHANGED <<prune, beside, dead>>

StartInstall(i) ==
  /\ At(i, "idle") /\ Begin(i) /\ Goto(i, "load") /\ UNCHANGED <<files, indexes, shared, prune>>

LoadIndexFile(i) ==
  /\ At(i, "load") /\ Goto(i, IF PackageOf[i] \in indexes THEN "verify" ELSE "add")
  /\ UNCHANGED <<files, indexes, shared>> /\ InstallKeeps

\* Mutant of Verified: whatever has an index is taken to be in the store.
IndexIsEnough(f) == TRUE

Verified(f) == f \in Stored

Verify(i) ==
  /\ At(i, "verify")
  /\ IF job[i].todo = {} THEN Goto(i, "import")
     ELSE \E f \in job[i].todo : IF Verified(f) THEN Did(i, f) ELSE Goto(i, "add")
  /\ UNCHANGED <<files, indexes, shared>> /\ InstallKeeps

\* writeBufferToCafs
AddKnown(i, f) ==
  /\ At(i, "add") /\ job[i].temp = {} /\ f \in job[i].todo \cap Stored
  /\ Did(i, f) /\ UNCHANGED <<files, indexes, shared>> /\ InstallKeeps

WriteTemp(i, f) ==
  /\ At(i, "add") /\ job[i].temp = {} /\ f \in job[i].todo \ Stored
  /\ job' = [job EXCEPT ![i].temp = {f}] /\ files' = files \cup {Temp(i, f)}
  /\ UNCHANGED <<indexes, shared>> /\ InstallKeeps

\* The file is another one than that which others may have shared meanwhile.
\* A temporary file that is gone is an error, unless the file is there.
RenameTemp(i) ==
  /\ At(i, "add")
  /\ \E f \in job[i].temp :
       /\ job' = [job EXCEPT ![i].temp = {}, ![i].todo = @ \ {f},
                             ![i].at = IF {Temp(i, f), File(f)} \cap files # {} THEN "add" ELSE "failed"]
       /\ IF Temp(i, f) \in files
          THEN files' = (files \ {Temp(i, f)}) \cup {File(f)} /\ shared' = [j \in Installs |-> shared[j] \ {f}]
          ELSE UNCHANGED <<files, shared>>
  /\ UNCHANGED indexes /\ InstallKeeps

WriteIndex(i) ==
  /\ At(i, "add") /\ job[i].todo = {} /\ job[i].temp = {}
  /\ indexes' = indexes \cup {PackageOf[i]} /\ Goto(i, "import")
  /\ UNCHANGED <<files, shared>> /\ InstallKeeps

\* What cannot be shared cannot be copied either; what was linked goes with the
\* staging directory.
Import(i) ==
  /\ At(i, "import")
  /\ \/ /\ job[i].todo = {} /\ Goto(i, "done") /\ UNCHANGED shared
     \/ \E f \in job[i].todo :
          IF f \in Stored THEN Did(i, f) /\ shared' = [shared EXCEPT ![i] = @ \cup {f}]
          ELSE Goto(i, "failed") /\ shared' = [shared EXCEPT ![i] = {}]
  /\ UNCHANGED <<files, indexes>> /\ InstallKeeps

\* node_modules is removed.
Uninstall(i) ==
  /\ At(i, "done") /\ Goto(i, "gone") /\ shared' = [shared EXCEPT ![i] = {}]
  /\ UNCHANGED <<files, indexes>> /\ InstallKeeps

KillInstall(i) ==
  /\ i \in Active /\ dead < MaxDead /\ dead' = dead + 1
  /\ job' = [job EXCEPT ![i].at = "killed"]
  /\ UNCHANGED <<files, indexes, shared, prune, beside>>

-----------------------------------------------------------------------------
\* prune

Working(p, e, op) == e \in DOMAIN prune[p].ops /\ prune[p].ops[e] = op
PruneKeeps == UNCHANGED <<shared, job, beside, dead>>

\* The operation on an entry ended.
Done(p, e) == [prune[p] EXCEPT !.ops = Restrict(@, DOMAIN @ \ {e})]
Became(p, state) == prune' = [prune EXCEPT ![p] = state]
Fails(p, e) == Became(p, [Done(p, e) EXCEPT !.at = "failed"])

\* The indexes are listed first.
StartPrune(p) ==
  /\ prune[p].at = "idle" /\ Begin(p)
  /\ Became(p, [Idle EXCEPT !.at = "files", !.listed = indexes, !.dirs = Hashes])
  /\ UNCHANGED <<files, indexes, shared, job>>

\* Every file is in a directory of its own, by the start of its hash.
ReadDir(p, f) ==
  /\ f \in prune[p].dirs /\ p \in Active
  /\ Became(p, [prune[p] EXCEPT !.dirs = @ \ {f},
                 !.ops = [e \in (Entries(f) \cap files) \cup DOMAIN @ |->
                           IF e \in Entries(f) \cap files THEN "stat" ELSE @[e]]])
  /\ UNCHANGED <<files, indexes>> /\ PruneKeeps

\* Mutant of OnlyInStore: the count is never more than two.
FewLinks(e) == Cardinality({i \in Installs : e \in {File(f) : f \in shared[i]}}) <= 1

\* nlink = 1
OnlyInStore(e) == \A i \in Installs : e \notin {File(f) : f \in shared[i]}

Stat(p, e) ==
  /\ p \in Active /\ Working(p, e, "stat")
  /\ IF e \notin files THEN Fails(p, e)
     ELSE IF OnlyInStore(e) THEN Became(p, [prune[p] EXCEPT !.ops[e] = "unlink"])
     ELSE Became(p, Done(p, e))
  /\ UNCHANGED <<files, indexes>> /\ PruneKeeps

Unlink(p, e) ==
  /\ p \in Active /\ Working(p, e, "unlink")
  /\ IF e \notin files THEN Fails(p, e) /\ UNCHANGED <<files, shared>>
     ELSE /\ files' = files \ {e} /\ shared' = [i \in Installs |-> {f \in shared[i] : File(f) # e}]
          /\ Became(p, [Done(p, e) EXCEPT !.removed = @ \cup {f \in Hashes : File(f) = e}])
  /\ UNCHANGED <<indexes, job, beside, dead>>

StartIndexes(p) ==
  /\ prune[p].at = "files" /\ prune[p].dirs = {} /\ prune[p].ops = <<>>
  /\ Became(p, [prune[p] EXCEPT !.at = "indexes", !.ops = [e \in {Index(k) : k \in prune[p].listed} |-> "load"]])
  /\ UNCHANGED <<files, indexes>> /\ PruneKeeps

\* Mutant of Pruned: a package is gone when all its files are.
AllPruned(p, k) == FilesOf[k] \subseteq prune[p].removed

Pruned(p, k) == Manifest[k] \in prune[p].removed

\* An index that names no package.json is an error.
Load(p, k) ==
  /\ p \in Active /\ Working(p, Index(k), "load")
  /\ IF k \notin indexes \/ k \notin DOMAIN Manifest THEN Fails(p, Index(k))
     ELSE IF Pruned(p, k) THEN Became(p, [prune[p] EXCEPT !.ops[Index(k)] = "remove"])
     ELSE Became(p, Done(p, Index(k)))
  /\ UNCHANGED <<files, indexes>> /\ PruneKeeps

RemoveIndex(p, k) ==
  /\ p \in Active /\ Working(p, Index(k), "remove")
  /\ IF k \notin indexes THEN Fails(p, Index(k)) ELSE Became(p, Done(p, Index(k)))
  /\ indexes' = indexes \ {k}
  /\ UNCHANGED files /\ PruneKeeps

EndPrune(p) ==
  /\ prune[p].at = "indexes" /\ prune[p].ops = <<>>
  /\ Became(p, [Idle EXCEPT !.at = "ok"]) /\ UNCHANGED <<files, indexes>> /\ PruneKeeps

\* One operation failed: the others go on until the process has ended.
Exit(p) ==
  /\ prune[p].at = "failed" /\ Became(p, [Idle EXCEPT !.at = "over", !.listed = prune[p].listed])
  /\ UNCHANGED <<files, indexes>> /\ PruneKeeps

KillPrune(p) ==
  /\ prune[p].at \in {"files", "indexes"} /\ dead < MaxDead /\ dead' = dead + 1
  /\ Became(p, [Idle EXCEPT !.at = "killed"])
  /\ UNCHANGED <<files, indexes, shared, job, beside>>

AtRest == Active = {} /\ UNCHANGED pruneVars

InstallStep(i) ==
  \/ StartInstall(i) \/ LoadIndexFile(i) \/ Verify(i) \/ RenameTemp(i) \/ WriteIndex(i) \/ Import(i)
  \/ Uninstall(i) \/ KillInstall(i)
  \/ \E f \in Hashes : AddKnown(i, f) \/ WriteTemp(i, f)

PruneStep(p) ==
  \/ StartPrune(p) \/ StartIndexes(p) \/ EndPrune(p) \/ Exit(p) \/ KillPrune(p)
  \/ \E f \in Hashes : ReadDir(p, f) \/ \E e \in Entries(f) : Stat(p, e) \/ Unlink(p, e)
  \/ \E k \in Packages : Load(p, k) \/ RemoveIndex(p, k)

Next == AtRest \/ (\E i \in Installs : InstallStep(i)) \/ (\E p \in Prunes : PruneStep(p))
Spec == Init /\ [][Next]_pruneVars

-----------------------------------------------------------------------------
PruneTypeOK ==
  /\ files \subseteq UNION {Entries(f) : f \in Hashes} /\ indexes \subseteq Packages
  /\ \A i \in Installs : shared[i] \subseteq FilesOf[PackageOf[i]] \cap Stored
  /\ \A p \in Prunes : prune[p].listed \subseteq Packages /\ prune[p].removed \subseteq Hashes
  /\ dead \in 0..MaxDead

\* Whatever prunes and installs left behind, an install with no prune beside it
\* succeeds.
InstallAloneSucceeds == \A i \in Installs : At(i, "failed") => beside[i] \cap Prunes # {}

\* What an install shared stays in the store as long as node_modules is there,
\* unless another process was at work while it installed.
LinkedFilesAreKept ==
  \A i \in Installs : At(i, "done") /\ beside[i] = {} => shared[i] = FilesOf[PackageOf[i]]

\* After prunes, also concurrent ones, that all ended well and with no install
\* beside them, every package that has an index has its package.json.
IndexesHaveManifests ==
  (/\ Active = {}
   /\ \A p \in Prunes : prune[p].at \in {"idle", "ok"} /\ beside[p] \cap Installs = {})
  => \A k \in indexes \cap DOMAIN Manifest : Manifest[k] \in Stored

\* A prune fails only because of another process, or of a package that has no
\* package.json.
PruneAloneSucceeds ==
  \A p \in Prunes : prune[p].at \in {"failed", "over"} =>
    beside[p] # {} \/ ~ prune[p].listed \subseteq DOMAIN Manifest
=============================================================================
