---------------------------- MODULE LockfileFile ----------------------------
\* lockfile/fs and get-context (readLockfiles): the files that hold lockfiles,
\* what is written into them, and what is made of them when they are read.
EXTENDS DepPaths

CONSTANT LockfileVersion  \* the major version that this pnpm writes

\* A lockfile object is [version, settings, importers, packages, time]: importers
\* project -> [specifiers, and by field alias -> reference], packages in order
\* [path, snapshot, info], time package -> date.  Its file has the specifiers beside
\* the references, and what packages of one id have in common only once.
DependenciesFields == {"optionalDependencies", "dependencies", "devDependencies"}
Entries(packages) == {packages[i] : i \in DOMAIN packages}

\* Times are kept under the keys that the direct dependencies once had.
KeyOfTime(reference, alias) ==
  LET bracket == IndexOf(reference, "(", 1)
      version == IF bracket = 0 THEN reference ELSE Upto(reference, bracket - 1)
  IN  CASE IsPrefix(<<"link", ":">>, version) -> NoPath
        [] ~IsPrefix(<<"link", ":">>, version) /\ (IsPrefix(<<"file", ":">>, version) \/ "/" \in ToSet(version)) -> version
        [] OTHER -> <<"/">> \o alias \o <<"@">> \o version
PruneTimeInLockfile(time, importers) ==
  LET keys == UNION {{KeyOfTime(importers[p][f][alias].version, alias) : alias \in DOMAIN importers[p][f]} :
                       p \in DOMAIN importers, f \in DependenciesFields}
  IN  [key \in DOMAIN time \cap keys |-> time[key]]

ConvertToLockfileFile(lockfile) ==
  LET entries == Entries(lockfile.packages)
      FirstOf(id) ==
        lockfile.packages[CHOOSE i \in DOMAIN lockfile.packages :
          /\ RemoveSuffix(lockfile.packages[i].path) = id
          /\ \A j \in 1 .. i - 1 : RemoveSuffix(lockfile.packages[j].path) # id]
      Inline(importer) ==
        [field \in DependenciesFields |->
           [alias \in DOMAIN importer[field] |->
              [specifier |-> importer.specifiers[alias], version |-> importer[field][alias]]]]
      importers == [p \in DOMAIN lockfile.importers |-> Inline(lockfile.importers[p])]
      defaults == {"peersSuffixMaxLength" :> "1000", "injectWorkspacePackages" :> "false"}
  IN  [version |-> LockfileVersion,
       settings |-> [name \in {n \in DOMAIN lockfile.settings : (n :> lockfile.settings[n]) \notin defaults} |->
                       lockfile.settings[name]],
       importers |-> importers,
       snapshots |-> [path \in {e.path : e \in entries} |-> (CHOOSE e \in entries : e.path = path).snapshot],
       packages |-> [id \in {RemoveSuffix(e.path) : e \in entries} |-> FirstOf(id).info],
       time |-> PruneTimeInLockfile(lockfile.time, importers)]

\* A project cannot have two specifiers of one alias.
RevertProjectSnapshot(from) ==
  LET Specs(alias) == {from[f][alias].specifier : f \in {f \in DependenciesFields : alias \in DOMAIN from[f]}}
      aliases == UNION {DOMAIN from[f] : f \in DependenciesFields}
      Plain(field) == [alias \in DOMAIN from[field] |-> from[field][alias].version]
  IN  [throws |-> \E alias \in aliases : Cardinality(Specs(alias)) > 1,
       importer |-> [specifiers |-> [alias \in aliases |-> CHOOSE s \in Specs(alias) : TRUE],
                     optionalDependencies |-> Plain("optionalDependencies"),
                     dependencies |-> Plain("dependencies"), devDependencies |-> Plain("devDependencies")]]

ConvertToLockfileObject(file) ==
  LET reverted == [p \in DOMAIN file.importers |-> RevertProjectSnapshot(file.importers[p])]
      paths == SetToSeq(DOMAIN file.snapshots)
  IN  [throws |-> \E p \in DOMAIN reverted : reverted[p].throws,
       lockfile |-> [version |-> file.version, settings |-> file.settings, time |-> file.time,
         importers |-> [p \in DOMAIN reverted |-> reverted[p].importer],
         packages |-> [i \in DOMAIN paths |->
           [path |-> paths[i], snapshot |-> file.snapshots[paths[i]],
            info |-> LET id == RemoveSuffix(paths[i])
                     IN  IF id \in DOMAIN file.packages THEN file.packages[id] ELSE "none"]]]]
-----------------------------------------------------------------------------
\* A file with conflicts is a sequence of lines; the marks are "<<<", "|||", "===" and ">>>".
SideAfter(side, line) ==
  CASE line = "|||" -> "parent"
    [] line = "<<<" -> "ours"
    [] line = "===" -> "theirs"
    [] line = ">>>" -> "top"
    [] OTHER -> side

ParseMergeFile(lines) ==
  LET side[i \in 0 .. Len(lines)] == IF i = 0 THEN "top" ELSE SideAfter(side[i - 1], lines[i])
      LinesOf(sides) ==
        LET at == SelectSeq([i \in DOMAIN lines |-> i],
                            LAMBDA i : lines[i] \notin {"|||", "<<<", "===", ">>>"} /\ side[i] \in sides)
        IN  [n \in DOMAIN at |-> lines[at[n]]]
  IN  [ours |-> LinesOf({"top", "ours"}), theirs |-> LinesOf({"top", "theirs"})]
IsDiff(lines) == {"<<<", "===", ">>>"} \subseteq ToSet(lines)
-----------------------------------------------------------------------------
\* The files of a directory: name -> content, [kind, sides], a lockfile being
\* [version, items]: its one side, or the two of a conflict.
Main == "pnpm-lock.yaml"
Nothing == [kind |-> "missing", sides |-> <<>>]
Plain(lockfile) == [kind |-> "plain", sides |-> <<lockfile>>]

\* lockfile/merger: LockfileMerge.
MergeSides(ours, theirs) ==
  [version |-> IF theirs.version > ours.version THEN theirs.version ELSE ours.version,
   items |-> ours.items \cup theirs.items]

None == [lockfile |-> <<>>, hadConflicts |-> FALSE, throws |-> FALSE]
Read(content, autofixMergeConflicts, ignoreIncompatible) ==
  LET fixed == content.kind = "conflict" /\ autofixMergeConflicts
      lockfile == IF fixed THEN MergeSides(content.sides[1], content.sides[2]) ELSE content.sides[1]
  IN  CASE content.kind = "missing" -> None
        [] content.kind \in {"broken", "conflict"} /\ ~fixed -> [None EXCEPT !.throws = TRUE]
        [] OTHER -> IF lockfile.version = LockfileVersion
                    THEN [lockfile |-> <<lockfile>>, hadConflicts |-> fixed, throws |-> FALSE]
                    ELSE [None EXCEPT !.throws = ~ignoreIncompatible]

\* The file of the branch, unless the lockfiles of all branches are merged.
GetWantedLockfileName(opts) ==
  IF opts.useGitBranchLockfile /\ ~opts.mergeGitBranchLockfiles /\ opts.branch # "" THEN opts.branch ELSE Main

\* The first that there is; conflicts in a wanted lockfile are always resolved.
ReadWantedLockfile(files, opts) ==
  LET name == GetWantedLockfileName(opts)
      One(n) == Read(files[n], TRUE, opts.ignoreIncompatible)
      first == One(name)
      found == IF opts.useGitBranchLockfile /\ name # Main /\ first.lockfile = <<>> /\ ~first.throws
               THEN One(Main) ELSE first
      branches == {One(n) : n \in DOMAIN files \ {Main}}
      others == {b.lockfile[1] : b \in {b \in branches : b.lockfile # <<>>}}
  IN  IF found.lockfile = <<>> \/ ~opts.mergeGitBranchLockfiles THEN found
      ELSE IF \E b \in branches : b.throws THEN [None EXCEPT !.throws = TRUE]
      ELSE [found EXCEPT !.lockfile =
              <<FoldLeft(MergeSides, found.lockfile[1], SetToSeq(others))>>]

\* An install that is not frozen takes a lockfile that it cannot read for none.
ReadLockfiles(files, current, opts) ==
  LET wanted == ReadWantedLockfile(files, opts)
      given == IF wanted.throws THEN <<>> ELSE wanted.lockfile
      installed == Read(current, FALSE, opts.ignoreIncompatible)
      now == IF installed.lockfile = <<>> THEN [version |-> LockfileVersion, items |-> {}]
             ELSE installed.lockfile[1]
      used == IF given = <<>> THEN now ELSE given[1]
  IN  [throws |-> opts.frozenLockfile /\ wanted.throws,
       wanted |-> used, current |-> now, existsWantedLockfile |-> given # <<>>,
       lockfileHadConflicts |-> wanted.hadConflicts /\ ~opts.frozenLockfile,
       currentLockfileIsUpToDate |-> used = now]

WriteLockfiles(files, wanted, current, opts) ==
  [files |-> [files EXCEPT ![GetWantedLockfileName(opts)] = Plain([wanted EXCEPT !.version = LockfileVersion])],
   current |-> IF wanted.items = {} THEN Nothing ELSE Plain([current EXCEPT !.version = LockfileVersion])]
CleanGitBranchLockfiles(files) == [name \in DOMAIN files |-> IF name = Main THEN files[name] ELSE Nothing]

\* Two installs, the first of which adds an item to the lockfiles.
Install(files, current, opts) ==
  LET read == ReadLockfiles(files, current, opts)
      With(lockfile) == [lockfile EXCEPT !.items = @ \cup {"new"}]
      written == WriteLockfiles(files, With(read.wanted), With(read.wanted), opts)
      cleaned == IF opts.mergeGitBranchLockfiles THEN CleanGitBranchLockfiles(written.files) ELSE written.files
  IN  [first |-> read, second |-> ReadLockfiles(cleaned, written.current, opts)]

-----------------------------------------------------------------------------
\* What is written is read again: each project and each package has what it had,
\* though packages that differ in their peers share an entry; settings that are not
\* written are the defaults; and what was read is written the same.
FileKeepsTheLockfile(lockfile, file) ==
  LET object == ConvertToLockfileObject(file)
      entries == Entries(lockfile.packages)
      agreed == \A e, other \in entries :
                  RemoveSuffix(e.path) = RemoveSuffix(other.path) => e.info = other.info
  IN  /\ ~object.throws
      /\ object.lockfile.importers = lockfile.importers
      /\ agreed => Entries(object.lockfile.packages) = entries
      /\ ConvertToLockfileFile(object.lockfile) = file

\* hunks: <<"both", line>> or <<"conflict", ours, parent, theirs>>, the parents
\* being in the file of those who asked git for them.
LinesOfHunks(hunks, withParents) ==
  LET Lines(h) == IF h[1] = "both" THEN <<h[2]>>
                  ELSE <<"<<<">> \o h[2] \o (IF withParents THEN <<"|||">> \o h[3] ELSE <<>>)
                       \o <<"===">> \o h[4] \o <<">>>">>
  IN  FlattenSeq([i \in DOMAIN hunks |-> Lines(hunks[i])])

\* Each side of a file with conflicts is the file that was on that side; a file
\* without any is not taken for one that has some.
BothSidesAreRead(hunks, withParents, parsed) ==
  LET Side(of) == FlattenSeq([i \in DOMAIN hunks |-> IF hunks[i][1] = "both" THEN <<hunks[i][2]>> ELSE hunks[i][of]])
  IN  /\ parsed.ours = Side(2) /\ parsed.theirs = Side(4)
      /\ IsDiff(LinesOfHunks(hunks, withParents)) <=> \E i \in DOMAIN hunks : hunks[i][1] = "conflict"

\* An install works with a lockfile of its own version that has all of what the
\* sides of a conflict and the branches to be merged have and nothing else, never
\* with the one of another branch; a frozen one fails for a file that it cannot
\* read; and the next one reads what this one saved and finds nothing to do.
LockfilesAreKept(files, opts, installs) ==
  LET ItemsOf(names) == UNION {UNION {files[n].sides[i].items : i \in DOMAIN files[n].sides} : n \in names}
      Readable(n) == \E i \in DOMAIN files[n].sides : files[n].sides[i].version = LockfileVersion
      own == IF opts.mergeGitBranchLockfiles \/ ~opts.useGitBranchLockfile \/ opts.branch = "" THEN Main ELSE opts.branch
      used == IF files[own].kind = "broken" \/ Readable(own) \/ (files[own].kind # "missing" /\ ~opts.ignoreIncompatible)
              THEN own ELSE Main
      merged == IF opts.mergeGitBranchLockfiles THEN {n \in DOMAIN files : Readable(n)} ELSE {used}
      first == installs.first
      second == installs.second
  IN  /\ first.wanted.version = LockfileVersion /\ first.current.version = LockfileVersion
      /\ IF first.existsWantedLockfile THEN first.wanted.items = ItemsOf(merged) ELSE first.wanted = first.current
      /\ first.throws => opts.frozenLockfile
      /\ opts.frozenLockfile /\ files[used].kind = "broken" => first.throws
      /\ ~first.throws =>
           /\ second.existsWantedLockfile /\ second.wanted.items = first.wanted.items \cup {"new"}
           /\ second.currentLockfileIsUpToDate /\ ~second.lockfileHadConflicts
=============================================================================
