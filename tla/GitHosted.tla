----------------------------- MODULE GitHosted -----------------------------
\* Packages from git repositories: downloaded as a tarball
\* (fetching/tarball-fetcher/src/gitHostedTarballFetcher.ts) or cloned
\* (fetching/git-fetcher/src/index.ts), prepared by their own scripts
\* (exec/prepare-package/src/index.ts) and stored under one of two index
\* files (getFilesIndexFilePath of packageRequester.ts).  Several installs,
\* with and without --ignore-scripts, share the store; any of them may fail
\* or die half-way.
EXTENDS Naturals

CONSTANTS
  GitInstalls,
  MaxGitFaults   \* failures and crashes

GitAssumption == MaxGitFaults \in Nat

VARIABLES
  pkg,      \* the package: needs scripts, packs less than it has, is a subdirectory
  ignore,   \* install -> ignoreScripts
  cloned,   \* install -> the package is cloned (or a tarball)
  git,      \* where each install is
  tree,     \* its temporary directory: how far the scripts have come
  index,    \* the two index files of the package in the store
  got,      \* what the install was given, {} before
  gitFaults

gitVars == <<pkg, ignore, cloned, git, tree, index, got, gitFaults>>

IndexFiles == {"integrity.json", "integrity-not-built.json"}
\* What an index lists: the files packlist selects of the directory the
\* package is in, or all of the tarball; and how far they were prepared.
Contents == [files : {"packed", "all"}, tree : {"raw", "half", "prepared"}]

GitTypeOK ==
  /\ pkg \in [needsScripts : BOOLEAN, packsLess : BOOLEAN, subDir : BOOLEAN]
  /\ ignore \in [GitInstalls -> BOOLEAN] /\ cloned \in [GitInstalls -> BOOLEAN]
  /\ git \in [GitInstalls -> {"look", "fetch", "prepare", "scripts", "pack", "add", "done", "failed"}]
  /\ tree \in [GitInstalls -> {"raw", "half", "prepared"}]
  /\ \A x \in IndexFiles : index[x] \subseteq Contents
  /\ \A i \in GitInstalls : got[i] \subseteq Contents
  /\ gitFaults \in 0..MaxGitFaults

Init ==
  /\ pkg \in [needsScripts : BOOLEAN, packsLess : BOOLEAN, subDir : BOOLEAN]
  /\ ignore \in [GitInstalls -> BOOLEAN] /\ cloned \in [GitInstalls -> BOOLEAN]
  /\ git = [i \in GitInstalls |-> "look"]
  /\ tree = [i \in GitInstalls |-> "raw"]
  /\ index = [x \in IndexFiles |-> {}]
  /\ got = [i \in GitInstalls |-> {}]
  /\ gitFaults = 0

-----------------------------------------------------------------------------
\* Mutant of IndexFile: one file for both kinds of installs.
OneIndexFile(i) == "integrity.json"

\* getFilesIndexFilePath, of a resolution without integrity
IndexFile(i) == IF ignore[i] THEN "integrity-not-built.json" ELSE "integrity.json"

Ends(i, contents) ==
  /\ git' = [git EXCEPT ![i] = "done"]
  /\ got' = [got EXCEPT ![i] = contents]

\* doFetchToStore: what is in the store is not fetched.
Look(i) ==
  /\ git[i] = "look"
  /\ IF index[IndexFile(i)] # {}
     THEN Ends(i, index[IndexFile(i)])
     ELSE git' = [git EXCEPT ![i] = "fetch"] /\ UNCHANGED got
  /\ UNCHANGED <<pkg, ignore, cloned, tree, index, gitFaults>>

\* git clone and checkout; or the remote tarball fetcher, which stores the
\* package under a temporary index file, and its import into a directory.
Fetch(i) ==
  /\ git[i] = "fetch"
  /\ git' = [git EXCEPT ![i] = "prepare"]
  /\ tree' = [tree EXCEPT ![i] = "raw"]
  /\ UNCHANGED <<pkg, ignore, cloned, index, got, gitFaults>>

\* preparePackage: the scripts run unless there is no need or they are
\* ignored.
Prepare(i) ==
  /\ git[i] = "prepare"
  /\ IF pkg.needsScripts /\ ~ignore[i]
     THEN git' = [git EXCEPT ![i] = "scripts"] /\ tree' = [tree EXCEPT ![i] = "half"]
     ELSE git' = [git EXCEPT ![i] = "pack"] /\ UNCHANGED tree
  /\ UNCHANGED <<pkg, ignore, cloned, index, got, gitFaults>>

ScriptsEnd(i) ==
  /\ git[i] = "scripts"
  /\ git' = [git EXCEPT ![i] = "pack"]
  /\ tree' = [tree EXCEPT ![i] = "prepared"]
  /\ UNCHANGED <<pkg, ignore, cloned, index, got, gitFaults>>

\* Mutant of SameFiles: a prepared package may have as many files as the
\* tarball had; the number is all that is looked at.
SameNumber(i, sameNumber) ==
  IF tree[i] = "raw" THEN ~pkg.packsLess ELSE sameNumber

\* packlist selects as many files as the tarball has, and what it has is the
\* package: for a tree that the scripts changed that is a coincidence.
SameFiles(i, sameNumber) ==
  /\ ~pkg.subDir
  /\ IF tree[i] = "raw" THEN ~pkg.packsLess ELSE sameNumber

\* The index of the tarball serves as it is.
KeepsTarball(i, same) == ~cloned[i] /\ same /\ ~pkg.needsScripts

\* prepareGitHostedPkg after preparePackage.  When the scripts were ignored
\* the temporary index is left where it is: the files are given to this
\* install and nothing is stored under the index file.
Pack(i) ==
  /\ git[i] = "pack"
  /\ \E n \in BOOLEAN :
       \/ /\ KeepsTarball(i, SameFiles(i, n))
          /\ index' = [index EXCEPT ![IndexFile(i)] = {[files |-> "all", tree |-> "raw"]}]
          /\ Ends(i, {[files |-> "all", tree |-> "raw"]})
       \/ /\ ~KeepsTarball(i, SameFiles(i, n)) /\ ~cloned[i] /\ SameFiles(i, n) /\ ignore[i]
          /\ Ends(i, {[files |-> "all", tree |-> "raw"]})
          /\ UNCHANGED index
       \/ /\ ~KeepsTarball(i, SameFiles(i, n))
          /\ cloned[i] \/ ~(SameFiles(i, n) /\ ignore[i])
          /\ git' = [git EXCEPT ![i] = "add"]
          /\ UNCHANGED <<index, got>>
  /\ UNCHANGED <<pkg, ignore, cloned, tree, gitFaults>>

\* addFilesFromDir of what packlist selected
AddFiles(i) ==
  /\ git[i] = "add"
  /\ index' = [index EXCEPT ![IndexFile(i)] = {[files |-> "packed", tree |-> tree[i]]}]
  /\ Ends(i, {[files |-> "packed", tree |-> tree[i]]})
  /\ UNCHANGED <<pkg, ignore, cloned, tree, gitFaults>>

-----------------------------------------------------------------------------
\* The download, a script or the worker fails: the temporary files stay.
Fail(i) ==
  /\ git[i] \in {"fetch", "prepare", "scripts", "add"} /\ gitFaults < MaxGitFaults
  /\ git' = [git EXCEPT ![i] = "failed"]
  /\ gitFaults' = gitFaults + 1
  /\ UNCHANGED <<pkg, ignore, cloned, tree, index, got>>

\* The install is run again, after a failure or a crash, perhaps with another
\* --ignore-scripts.
Again(i) ==
  /\ \/ git[i] = "failed" /\ UNCHANGED gitFaults
     \/ /\ git[i] \notin {"look", "done", "failed"} /\ gitFaults < MaxGitFaults
        /\ gitFaults' = gitFaults + 1
  /\ git' = [git EXCEPT ![i] = "look"]
  /\ \E b \in BOOLEAN : ignore' = [ignore EXCEPT ![i] = b]
  /\ UNCHANGED <<pkg, cloned, tree, index, got>>

Step == \E i \in GitInstalls :
  Look(i) \/ Fetch(i) \/ Prepare(i) \/ ScriptsEnd(i) \/ Pack(i) \/ AddFiles(i)
Over == (\A i \in GitInstalls : git[i] \in {"done", "failed"}) /\ UNCHANGED gitVars
Next == Step \/ Over \/ \E i \in GitInstalls : Fail(i) \/ Again(i)

SafetySpec == Init /\ [][Next]_gitVars
Spec == SafetySpec /\ WF_gitVars(Step)

-----------------------------------------------------------------------------
\* Properties

Prepared(c) == c.tree = IF pkg.needsScripts THEN "prepared" ELSE "raw"
Published(c) == c.files = "packed" \/ ~(pkg.packsLess \/ pkg.subDir)

\* The two index files are never confused: integrity.json lists a package
\* whose scripts have run to their end, integrity-not-built.json one that no
\* script has touched; through failures, crashes, repeated installs and any
\* overlap of installs that ignore scripts and installs that do not.
IndexesAreTrue ==
  /\ \A c \in index["integrity.json"] : Prepared(c)
  /\ \A c \in index["integrity-not-built.json"] : c.tree = "raw"

\* An install gets the package in the state its own --ignore-scripts asks
\* for, and the files that would be published of it: neither the whole
\* repository nor the tarball around a subdirectory.
GotWhatWasAsked ==
  \A i \in GitInstalls : \A c \in got[i] :
    /\ IF ignore[i] THEN c.tree = "raw" ELSE Prepared(c)
    /\ Published(c)
=============================================================================
