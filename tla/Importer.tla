------------------------------ MODULE Importer ------------------------------
\* A package is imported from the store into node_modules
\* (fs/indexed-pkg-importer/src/{index,importIndexedDir}.ts): staged beside
\* its place, given the nested node_modules that was there, and renamed over
\* it; with the fallbacks of the `auto` method, failures and crashes.
EXTENDS Naturals

CONSTANTS
  Files,      \* what filesMap holds, "package.json" among it
  OldFiles,   \* what an earlier import may have left at the place
  Nested,     \* directories in the place's own node_modules
  Bundled,    \* directories in the node_modules that the package brings
  MaxFaults   \* failed operations and crashes

ImporterAssumption ==
  /\ "package.json" \in Files \cap OldFiles
  /\ Bundled \cap Nested = {} /\ MaxFaults \in Nat

VARIABLES
  method,   \* how files are imported now
  kind,     \* packageImportMethod, as far as methods fall back on another
  keep,     \* keepModulesDir
  had,      \* newDir had a node_modules at the start
  force,    \* opts.force
  place,    \* files of newDir, {} when it does not exist
  linked,   \* place is hard linked to the store
  nested,   \* directories in newDir/node_modules
  stage,    \* files of the staging directory
  stageNm,  \* directories in its node_modules
  todo,     \* files still to import
  step,     \* where importIndexedDir is
  faults,   \* failures and crashes so far
  mislaid   \* history: a fault struck while node_modules was in the stage

impVars == <<method, kind, keep, had, force, place, linked, nested, stage, stageNm,
             todo, step, faults, mislaid>>

Methods == {"clone", "hardlink", "linkOrCopy", "copy"}
Steps == {"idle", "importing", "moving", "replacing", "cleared", "done", "failed"}

ImporterTypeOK ==
  /\ method \in Methods /\ kind \in {"single", "auto", "clone-or-copy"}
  /\ {keep, had, force, linked, mislaid} \subseteq BOOLEAN
  /\ place \in {{}, Files, OldFiles}
  /\ stage \subseteq Files /\ todo \subseteq Files
  /\ nested \subseteq Nested \cup Bundled /\ stageNm \subseteq Nested \cup Bundled
  /\ step \in Steps /\ faults \in 0..MaxFaults

Init ==
  /\ kind \in {"single", "auto", "clone-or-copy"}
  /\ keep \in BOOLEAN /\ force \in BOOLEAN
  /\ method \in IF kind = "single" THEN {"clone", "linkOrCopy", "copy"} ELSE {"clone"}
  /\ place \in {{}, Files, OldFiles}
  /\ place = OldFiles => force      \* another version is imported by force
  /\ linked \in IF place = {} THEN {FALSE} ELSE BOOLEAN
  /\ had \in IF place = {} THEN {FALSE} ELSE BOOLEAN
  /\ nested = IF had THEN Nested ELSE {}
  /\ stage = {} /\ stageNm = {} /\ todo = {}
  /\ step = "idle" /\ faults = 0 /\ mislaid = FALSE

-----------------------------------------------------------------------------
\* Mutant of AlreadyThere: a forced import is skipped, too.
HasPackageJson == "package.json" \in place

\* A package that is there is left alone: clone and copy take its
\* package.json for a sign, hardlink looks whether that is the store's file.
AlreadyThere ==
  /\ ~force
  /\ IF method \in {"clone", "copy"} THEN "package.json" \in place
     ELSE "package.json" \in place /\ linked

\* makeEmptyDir, and the directories of the files.
EmptyStage ==
  /\ stage' = {} /\ todo' = Files
  /\ stageNm' = Bundled

Begin ==
  /\ step = "idle"
  /\ IF AlreadyThere
     THEN step' = "done" /\ UNCHANGED <<stage, stageNm, todo>>
     ELSE step' = "importing" /\ EmptyStage
  /\ UNCHANGED <<method, kind, keep, had, force, place, linked, nested, faults, mislaid>>

\* Mutant of ImportFile: files go to their place at once.
ImportInPlace(f) ==
  /\ step = "importing" /\ f \in todo
  /\ todo' = todo \ {f}
  /\ stage' = stage \cup {f}
  /\ place' = place \cup {f}
  /\ step' = IF todo = {f} THEN "moving" ELSE step
  /\ UNCHANGED <<method, kind, keep, had, force, linked, nested, stageNm, faults, mislaid>>

ImportFile(f) ==
  /\ step = "importing" /\ f \in todo
  /\ todo' = todo \ {f}
  /\ stage' = stage \cup {f}
  /\ step' = IF todo = {f} THEN "moving" ELSE step
  /\ UNCHANGED <<method, kind, keep, had, force, place, linked, nested, stageNm, faults, mislaid>>

\* Mutant of MoveModules: node_modules stays where it is removed.
MoveNothing ==
  /\ step = "moving"
  /\ step' = "replacing"
  /\ UNCHANGED <<method, kind, keep, had, force, place, linked, nested, stage, stageNm,
                 todo, faults, mislaid>>

\* moveOrMergeModulesDirs: renamed into the stage, or merged into the
\* node_modules that the package brings.
MoveModules ==
  /\ step = "moving"
  /\ IF keep THEN stageNm' = stageNm \cup nested /\ nested' = {}
     ELSE UNCHANGED <<stageNm, nested>>
  /\ step' = "replacing"
  /\ UNCHANGED <<method, kind, keep, had, force, place, linked, stage, todo, faults, mislaid>>

\* renameOverwrite: a place that is not empty is removed first.
ClearPlace ==
  /\ step = "replacing" /\ place # {}
  /\ place' = {} /\ nested' = {} /\ linked' = FALSE
  /\ step' = "cleared"
  /\ UNCHANGED <<method, kind, keep, had, force, stage, stageNm, todo, faults, mislaid>>

RenameStage ==
  /\ step = "cleared" \/ (step = "replacing" /\ place = {})
  /\ place' = stage /\ nested' = stageNm
  /\ linked' = (method \in {"hardlink", "linkOrCopy"})
  /\ stage' = {} /\ stageNm' = {}
  /\ step' = "done"
  /\ UNCHANGED <<method, kind, keep, had, force, todo, faults, mislaid>>

-----------------------------------------------------------------------------
\* node_modules is on its way: what happens to the stage happens to it.
Moved == keep /\ Nested \cap stageNm # {}

\* createAutoImporter: clone, hard link, then hard link or copy (copy on
\* another device).  createCloneOrCopyImporter: clone, then copy.
NextMethods ==
  CASE kind = "auto" /\ method = "clone" -> {"hardlink"}
    [] kind = "auto" /\ method = "hardlink" -> {"linkOrCopy", "copy"}
    [] kind = "clone-or-copy" /\ method = "clone" -> {"copy"}
    [] OTHER -> {}

\* The stage is removed, and another method is tried if there is one.
OperationFails ==
  /\ step \in {"importing", "moving", "replacing", "cleared"} /\ faults < MaxFaults
  /\ faults' = faults + 1
  /\ mislaid' = (mislaid \/ Moved)
  /\ stage' = {} /\ stageNm' = {} /\ todo' = {}
  /\ IF NextMethods # {} THEN method' \in NextMethods /\ step' = "idle"
     ELSE step' = "failed" /\ UNCHANGED method
  /\ UNCHANGED <<kind, keep, had, force, place, linked, nested>>

\* The process dies, what is in the stage stays there, and another install
\* asks for the package again.
Crash ==
  /\ step \notin {"idle", "done", "failed"} /\ faults < MaxFaults
  /\ faults' = faults + 1
  /\ mislaid' = (mislaid \/ Moved)
  /\ step' = "idle" /\ todo' = {}
  /\ method' = IF kind = "single" THEN method ELSE "clone"
  /\ UNCHANGED <<kind, keep, had, force, place, linked, nested, stage, stageNm>>

Step == \/ Begin \/ MoveModules \/ ClearPlace \/ RenameStage
        \/ \E f \in Files : ImportFile(f)
Ended == step \in {"done", "failed"} /\ UNCHANGED impVars
Next == Step \/ OperationFails \/ Crash \/ Ended

SafetySpec == Init /\ [][Next]_impVars
Spec == SafetySpec /\ WF_impVars(Step)

-----------------------------------------------------------------------------
\* Properties

\* At every moment, through failures, fallbacks and crashes, the place holds
\* a whole package or nothing: so package.json may stand for the rest when
\* the next install asks whether the package is there.
PlaceIsWhole == place \in {{}, Files, OldFiles}

\* An import that is done left the wanted files, unless it was never asked
\* to replace what is there.
ImportedIsWanted == step = "done" => place = Files

\* With keepModulesDir the nested node_modules is still there afterwards,
\* beside what the package bundles, unless a fault struck in the time it was
\* in the stage (importIndexedDir.ts 27-35: then it is lost).
NestedModulesSurvive ==
  step = "done" /\ keep /\ had /\ ~mislaid => Nested \subseteq nested
=============================================================================
