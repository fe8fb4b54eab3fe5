---------------------------- MODULE SideEffects ----------------------------
\* The side-effects cache: a built package is uploaded into the index file of
\* its package (worker/src/worker.ts addFilesFromDir, calculateDiff,
\* writeJsonFile) and later imported from it (store/create-cafs-store/src/
\* index.ts getFlatMap, applySideEffectsDiff).  The index file is read,
\* changed and replaced by several workers of several processes at once.
EXTENDS Naturals, FiniteSets, TLC

CONSTANTS
  Names,     \* names of the files of packages
  Versions,  \* contents (and modes) of files
  Uploads,   \* uploads of a built package
  Key,       \* upload -> its sideEffectsCacheKey
  Built,     \* upload -> the files it finds in the built package
  Base,      \* files of the package as it was fetched
  Installs,  \* installs that import the package built under ImportKey
  ImportKey,
  Pid        \* upload or install -> its process

Writers == Uploads \cup Installs
PackageFiles == UNION {[S -> Versions] : S \in SUBSET Names}
SideEffectsAssumption ==
  /\ IsFiniteSet(Writers) /\ Uploads \cap Installs = {}
  /\ \A w \in Writers : Pid[w] # "index"
  /\ Base \in PackageFiles /\ \A u \in Uploads : Built[u] \in PackageFiles

Diffs == [added : PackageFiles, deleted : SUBSET Names]

\* Mutant of Diff: files that the build removed are not recorded.
DiffAddedOnly(base, built) ==
  [added |-> [f \in {g \in DOMAIN built : g \notin DOMAIN base \/ base[g] # built[g]} |-> built[f]],
   deleted |-> {}]

\* calculateDiff
Diff(base, built) ==
  [added |-> [f \in {g \in DOMAIN built : g \notin DOMAIN base \/ base[g] # built[g]} |-> built[f]],
   deleted |-> DOMAIN base \ DOMAIN built]

\* applySideEffectsDiff
Apply(base, diff) ==
  [f \in DOMAIN diff.added \cup (DOMAIN base \ diff.deleted) |->
     IF f \in DOMAIN diff.added THEN diff.added[f] ELSE base[f]]

VARIABLES
  path,      \* the inode of the index file and of each process's temporary file
  content,   \* {index} where an inode holds one, {} where it is truncated or
             \* no JSON
  at,        \* where each upload or install is
  holds,     \* the index it has read, as it will write it
  fd,        \* the inode it writes to
  imported,  \* the files an install imported
  stored,    \* history: uploads that are over and were not overwritten since
  overlap    \* history: a writer of the index read it while another was busy

fxVars == <<path, content, at, holds, fd, imported, stored, overlap>>

Keys == {Key[u] : u \in Uploads}
Temps == {Pid[w] : w \in Writers}
Inodes == 1..(Cardinality(Temps) + Cardinality(Writers) + 1)
NoInode == 0
FirstIndex == [files |-> Base, effects |-> <<>>]
IsIndex(c) == /\ DOMAIN c = {"files", "effects"}
              /\ c.files \in PackageFiles /\ DOMAIN c.effects \subseteq Keys
              /\ \A k \in DOMAIN c.effects : c.effects[k] \in Diffs

SideEffectsTypeOK ==
  /\ path \in [{"index"} \cup Temps -> Inodes \cup {NoInode}]
  /\ \A i \in Inodes : \A c \in content[i] : IsIndex(c)
  /\ at \in [Writers -> {"start", "ready", "open", "written", "imported", "done"}]
  /\ \A w \in Writers : IsIndex(holds[w])
  /\ fd \in [Writers -> Inodes \cup {NoInode}]
  /\ imported \in [Installs -> PackageFiles]
  /\ stored \subseteq Uploads /\ overlap \in BOOLEAN

Init ==
  /\ path = [p \in {"index"} \cup Temps |-> IF p = "index" THEN 1 ELSE NoInode]
  /\ content = [i \in Inodes |-> IF i = 1 THEN {FirstIndex} ELSE {}]
  /\ at = [w \in Writers |-> "start"]
  /\ holds = [w \in Writers |-> FirstIndex]
  /\ fd = [w \in Writers |-> NoInode]
  /\ imported = [i \in Installs |-> Base]
  /\ stored = {} /\ overlap = FALSE

\* The index at its path, {index} if loadJsonFile can read it.
Index == content[path["index"]]
Busy(w) == at[w] \in {"ready", "open", "written"}

-----------------------------------------------------------------------------
\* Mutant of WithEffect: the entries of other builds are dropped.
OnlyEffect(index, u) == [index EXCEPT !.effects = (Key[u] :> Diff(index.files, Built[u]))]

\* filesIndex.sideEffects[sideEffectsCacheKey] = calculateDiff(...)
WithEffect(index, u) ==
  [index EXCEPT !.effects =
     [k \in DOMAIN @ \cup {Key[u]} |-> IF k = Key[u] THEN Diff(index.files, Built[u]) ELSE @[k]]]

\* addFilesFromDir has stored the files of the directory.  Without an index
\* that can be read it stores nothing else.
ReadForUpload(u) ==
  /\ at[u] = "start"
  /\ \/ \E index \in Index : /\ at' = [at EXCEPT ![u] = "ready"]
                             /\ holds' = [holds EXCEPT ![u] = WithEffect(index, u)]
     \/ Index = {} /\ at' = [at EXCEPT ![u] = "done"] /\ UNCHANGED holds
  /\ overlap' = (overlap \/ \E w \in Writers \ {u} : Busy(w))
  /\ UNCHANGED <<path, content, fd, imported, stored>>

\* writeFileSync opens the temporary file, which is named by the process id
\* alone: a file that another worker of the process writes is truncated.
OpenTemp(w) ==
  LET i == IF path[Pid[w]] # NoInode THEN path[Pid[w]]
           ELSE CHOOSE n \in Inodes : /\ \A p \in DOMAIN path : path[p] # n
                                      /\ \A v \in Writers : fd[v] # n
  IN  /\ at[w] = "ready"
      /\ at' = [at EXCEPT ![w] = "open"]
      /\ path' = [path EXCEPT ![Pid[w]] = i]
      /\ fd' = [fd EXCEPT ![w] = i]
      /\ content' = [content EXCEPT ![i] = {}]
      /\ UNCHANGED <<holds, imported, stored, overlap>>

\* The write goes to the file that was opened, wherever it is by now.  On top
\* of what another worker wrote it may leave the end of that behind.
WriteTemp(w) ==
  /\ at[w] = "open"
  /\ at' = [at EXCEPT ![w] = "written"]
  /\ \/ content' = [content EXCEPT ![fd[w]] = {holds[w]}]
     \/ content[fd[w]] # {} /\ content' = [content EXCEPT ![fd[w]] = {}]
  /\ UNCHANGED <<path, holds, fd, imported, stored, overlap>>

\* optimisticRenameOverwrite.  If another worker has renamed the temporary
\* file, the index that is there is taken for the right one.
Rename(w) ==
  /\ at[w] = "written"
  /\ at' = [at EXCEPT ![w] = "done"]
  /\ path' = IF path[Pid[w]] = NoInode THEN path
             ELSE [path EXCEPT !["index"] = path[Pid[w]], ![Pid[w]] = NoInode]
  /\ stored' = IF w \in Uploads THEN stored \cup {w} ELSE {}
  /\ UNCHANGED <<content, holds, fd, imported, overlap>>

\* The process of a writer dies; the others of the process die with it.
Crash(p) ==
  /\ \E w \in Writers : Pid[w] = p /\ Busy(w)
  /\ at' = [w \in Writers |-> IF Pid[w] = p THEN "done" ELSE at[w]]
  /\ UNCHANGED <<path, content, holds, fd, imported, stored, overlap>>

-----------------------------------------------------------------------------
\* Mutant of FlatMap: what the build removed comes back.
FlatMapAdded(index) ==
  IF ImportKey \in DOMAIN index.effects THEN index.effects[ImportKey].added @@ index.files
  ELSE index.files

\* getFlatMap
FlatMap(index) ==
  IF ImportKey \in DOMAIN index.effects THEN Apply(index.files, index.effects[ImportKey])
  ELSE index.files

\* readPkgFromCafs and importPackage; checkPkgFilesIntegrity may find the
\* added files of the entry broken and drop it, in memory only.
Import(i) ==
  /\ at[i] = "start"
  /\ at' = [at EXCEPT ![i] = "imported"]
  /\ \E index \in Index : imported' = [imported EXCEPT ![i] = FlatMap(index)]
  /\ UNCHANGED <<path, content, holds, fd, stored, overlap>>

ImportWithoutEffects(i) ==
  /\ at[i] = "start"
  /\ at' = [at EXCEPT ![i] = "imported"]
  /\ \E index \in Index : imported' = [imported EXCEPT ![i] = index.files]
  /\ UNCHANGED <<path, content, holds, fd, stored, overlap>>

\* No index, none that is JSON, or files that are broken: the package is
\* fetched and its index written anew, without side effects.
Refetch(i) ==
  /\ at[i] = "start"
  /\ at' = [at EXCEPT ![i] = "ready"]
  /\ holds' = [holds EXCEPT ![i] = FirstIndex]
  /\ imported' = [imported EXCEPT ![i] = Base]
  /\ overlap' = (overlap \/ \E w \in Writers \ {i} : Busy(w))
  /\ UNCHANGED <<path, content, fd, stored>>

-----------------------------------------------------------------------------
Step == \/ \E u \in Uploads : ReadForUpload(u)
        \/ \E w \in Writers : OpenTemp(w) \/ WriteTemp(w) \/ Rename(w)
        \/ \E i \in Installs : Import(i) \/ ImportWithoutEffects(i) \/ Refetch(i)
Over == (\A w \in Writers : at[w] \in {"done", "imported"}) /\ UNCHANGED fxVars
Next == Step \/ Over \/ \E p \in Temps : Crash(p)

SafetySpec == Init /\ [][Next]_fxVars
Spec == SafetySpec /\ WF_fxVars(Step)

-----------------------------------------------------------------------------
\* Properties

\* Whatever mixture of workers and processes wrote the index last, an entry
\* that can be read turns the files of that index into a package built under
\* its key.
EntriesAreTrue ==
  \A index \in Index : \A k \in DOMAIN index.effects :
    \E u \in Uploads : Key[u] = k /\ Apply(index.files, index.effects[k]) = Built[u]

\* An install imports the package as it was fetched or as it was built, never
\* a mixture.
ImportedIsWhole ==
  \A i \in Installs :
    imported[i] \in {Base} \cup {Built[u] : u \in {v \in Uploads : Key[v] = ImportKey}}

\* Uploads to one index that do not overlap (and that no refetch overwrites)
\* are all kept, and leave an index that can be read; those that overlap may
\* lose entries, or the index: the package is then fetched again.
LostByOverlapOnly ==
  ~overlap => \E index \in Index : \A u \in stored : Key[u] \in DOMAIN index.effects
=============================================================================
