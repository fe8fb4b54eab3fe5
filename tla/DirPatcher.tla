----------------------------- MODULE DirPatcher -----------------------------
\* workspace/injected-deps-syncer/src/DirPatcher.ts: after a script of a
\* package, its copies in the workspace become what its directory is.  The
\* differences are computed first; then everything is added, removed and
\* replaced concurrently.
EXTENDS Naturals

CONSTANTS
  Paths,      \* relative paths of files and directories, without the root
  Ancestors,  \* path -> the paths of the directories it is in
  Inodes,     \* what files may be
  MaxTries    \* patches: one that failed is followed by that of the next script

DirPatcherAssumption ==
  /\ Ancestors \in [Paths -> SUBSET Paths]
  /\ \A p \in Paths : p \notin Ancestors[p] /\ \A q \in Ancestors[p] : Ancestors[q] \subseteq Ancestors[p]
  /\ "DIR" \notin Inodes /\ MaxTries \in Nat

VARIABLES
  sourceDir,  \* path -> inode or "DIR": the package
  targetDir,  \* the same for its copy, which changes
  before,     \* the copy as it was
  ops,        \* path -> what is still to be done there
  patched,    \* "no", "working", "ok" or "failed" (the rejection of apply)
  tries       \* patches begun

patchVars == <<sourceDir, targetDir, before, ops, patched, tries>>

Beneath(p) == {q \in Paths : p \in Ancestors[q]}
Restricted(dir, keep) == [p \in DOMAIN dir \cap keep |-> dir[p]]

\* A directory on disk: whatever has a file in it is a directory.
Dirs == {d \in UNION {[D -> Inodes \cup {"DIR"}] : D \in SUBSET Paths} :
           \A p \in DOMAIN d : \A q \in Ancestors[p] : q \in DOMAIN d /\ d[q] = "DIR"}

\* extendFilesMap: the files and the directories they are in.
ExtendFilesMap(dir) ==
  LET files == {p \in DOMAIN dir : dir[p] # "DIR"}
  IN  Restricted(dir, files \cup UNION {Ancestors[p] : p \in files})

-----------------------------------------------------------------------------
\* diffDir

Removed(old, new) == DOMAIN old \ DOMAIN new
Added(old, new) == DOMAIN new \ DOMAIN old

\* Mutant of Modified: directories are compared with directories only.
ModifiedFiles(old, new) ==
  {p \in DOMAIN old \cap DOMAIN new : old[p] # new[p] /\ old[p] # "DIR" /\ new[p] # "DIR"}

Modified(old, new) == {p \in DOMAIN old \cap DOMAIN new : old[p] # new[p]}

-----------------------------------------------------------------------------
\* mkdir -p of the directory of a file: a file in its way is an error.
MkdirFails(dir, p) == \E q \in Ancestors[p] : q \in DOMAIN dir /\ dir[q] # "DIR"

\* Mutant of MkdirParents: the directories are expected to be there.
NoMkdir(dir, ps) == dir

\* The directories of the files are there.
MkdirParents(dir, ps) ==
  [q \in DOMAIN dir \cup UNION {Ancestors[p] : p \in ps} |-> IF q \in DOMAIN dir THEN dir[q] ELSE "DIR"]

Put(dir, p, value) == [q \in DOMAIN dir \cup {p} |-> IF q = p THEN value ELSE dir[q]]

Init ==
  /\ sourceDir \in {d \in Dirs : ExtendFilesMap(d) = d}
  /\ targetDir \in Dirs /\ before = targetDir
  /\ ops = <<>> /\ patched = "no" /\ tries = 0

\* The differences, and what is done before anything is awaited: the parents of
\* all the added files.
Apply ==
  LET old == ExtendFilesMap(targetDir)
      added == Added(old, sourceDir)
      files == {p \in added : sourceDir[p] # "DIR"}
      linked == {p \in files : ~MkdirFails(targetDir, p)}
      removed == Removed(old, sourceDir)
  IN  /\ patched \in {"no", "failed"} /\ ops = <<>> /\ tries < MaxTries
      /\ tries' = tries + 1
      /\ targetDir' = MkdirParents(targetDir, linked)
      /\ ops' = [p \in linked \cup (added \ files) \cup removed \cup Modified(old, sourceDir) |->
                   CASE p \in files -> "link" [] p \in added \ files -> "mkdir"
                     [] p \in removed -> "rm" [] OTHER -> "replace"]
      /\ patched' = IF linked = files THEN "working" ELSE "failed"
      /\ UNCHANGED <<sourceDir, before>>

Finish(p) == ops' = [q \in DOMAIN ops \ {p} |-> ops[q]]
Continue(p, op) == ops' = [ops EXCEPT ![p] = op]
Fail == patched' = "failed"

Doing(p, op) == p \in DOMAIN ops /\ ops[p] = op /\ UNCHANGED <<sourceDir, before, tries>>

Mkdir(p) ==
  /\ Doing(p, "mkdir") /\ Finish(p)
  /\ IF MkdirFails(targetDir, p) \/ (p \in DOMAIN targetDir /\ targetDir[p] # "DIR")
     THEN Fail /\ UNCHANGED targetDir
     ELSE targetDir' = Put(MkdirParents(targetDir, {p}), p, "DIR") /\ UNCHANGED patched

\* A link needs its directory, and nothing in its place.
Link(p) ==
  /\ Doing(p, "link") /\ Finish(p)
  /\ IF p \in DOMAIN targetDir \/ \E q \in Ancestors[p] : q \notin DOMAIN targetDir \/ targetDir[q] # "DIR"
     THEN Fail /\ UNCHANGED targetDir
     ELSE targetDir' = Put(targetDir, p, sourceDir[p]) /\ UNCHANGED patched

\* Mutant of Gone: a directory is removed only when it is empty.
GoneIfEmpty(p) ==
  IF Beneath(p) \cap DOMAIN targetDir # {} THEN targetDir ELSE Restricted(targetDir, Paths \ {p})

Gone(p) == Restricted(targetDir, Paths \ ({p} \cup Beneath(p)))

\* What is gone is no error; what is below a file may be one (ENOTDIR).
Rm(p) ==
  /\ Doing(p, "rm") /\ Finish(p)
  /\ targetDir' = Gone(p)
  /\ \/ UNCHANGED patched
     \/ MkdirFails(targetDir, p) /\ Fail

\* A modified item is removed first and then added.
RmToReplace(p) ==
  /\ Doing(p, "replace") /\ Continue(p, "add") /\ targetDir' = Gone(p) /\ UNCHANGED patched

AddAgain(p) ==
  /\ Doing(p, "add")
  /\ IF sourceDir[p] = "DIR" THEN Continue(p, "mkdir") /\ UNCHANGED <<targetDir, patched>>
     ELSE IF MkdirFails(targetDir, p) THEN Finish(p) /\ Fail /\ UNCHANGED targetDir
     ELSE Continue(p, "link") /\ targetDir' = MkdirParents(targetDir, {p}) /\ UNCHANGED patched

Applied ==
  /\ patched = "working" /\ ops = <<>>
  /\ patched' = "ok" /\ UNCHANGED <<sourceDir, targetDir, before, ops, tries>>

AtEnd == patched \in {"ok", "failed"} /\ ops = <<>> /\ UNCHANGED patchVars

Step ==
  \/ Apply \/ Applied
  \/ \E p \in Paths : Mkdir(p) \/ Link(p) \/ Rm(p) \/ RmToReplace(p) \/ AddAgain(p)
Next == Step \/ AtEnd
Spec == Init /\ [][Next]_patchVars

-----------------------------------------------------------------------------
PatchTypeOK ==
  /\ sourceDir \in Dirs /\ targetDir \in Dirs /\ before \in Dirs
  /\ DOMAIN ops \subseteq Paths /\ \A p \in DOMAIN ops : ops[p] \in {"link", "mkdir", "rm", "replace", "add"}
  /\ patched \in {"no", "working", "ok", "failed"} /\ tries \in 0..MaxTries

\* A patch that ends well leaves the files of the package, in whatever order its
\* parts were done.
SyncedIsSource == patched = "ok" => ExtendFilesMap(targetDir) = sourceDir

\* No order of its parts makes a patch fail, where no path is a file in one
\* directory and a directory in the other.
SameKindsSucceed ==
  (\A p \in DOMAIN before \cap DOMAIN sourceDir : before[p] = "DIR" <=> sourceDir[p] = "DIR")
    => patched # "failed"

\* A patch that failed because a file became a directory, or a directory a file,
\* leaves a copy that the next one can patch.
NextOneSucceeds == ExtendFilesMap(before) = before /\ tries > 1 => patched # "failed"
=============================================================================
