------------------------------ MODULE Install ------------------------------
\* `pnpm install` of one project, from the check that may skip it to the
\* state file it leaves: what is written to node_modules, in which order, and
\* what the next install makes of it when this one fails or dies.
\*   deps/status/src/checkDepsStatus.ts            may the install be skipped
\*   pkg-manager/core/src/install/{index,link}.ts  with resolution ("full")
\*   pkg-manager/headless/src/index.ts             from the lockfile ("frozen")
\*   deps/graph-builder/src/lockfileToDepGraph.ts  what is left to do
\*   pkg-manager/modules-cleaner/src/prune.ts      what is to go
\* Optional dependencies, hoisting, bins and filtered installs are left out.
EXTENDS Naturals

CONSTANTS
  Satisfies,   \* lockfile -> the manifest that it satisfies
  Direct,      \* lockfile -> alias -> package, of the project
  Children,    \* lockfile -> package -> alias -> package
  NeedBuild,   \* packages with build scripts
  MaxEdits,    \* changes by the user
  MaxBreaks    \* failures and crashes of installs

InstallAssumption ==
  /\ "none" \notin DOMAIN Satisfies /\ MaxEdits \in Nat /\ MaxBreaks \in Nat
  /\ DOMAIN Direct = DOMAIN Satisfies /\ DOMAIN Children = DOMAIN Satisfies
  /\ NeedBuild \subseteq UNION {DOMAIN Children[l] : l \in DOMAIN Children}
  /\ \A l \in DOMAIN Satisfies :
       /\ DOMAIN Direct[l] # {}
       /\ \A a \in DOMAIN Direct[l] : Direct[l][a] \in DOMAIN Children[l]
       /\ \A p \in DOMAIN Children[l] : \A a \in DOMAIN Children[l][p] : Children[l][p][a] \in DOMAIN Children[l]

VARIABLES
  workspace,  \* the project is a workspace (with a shared lockfile)
  hardlinks,  \* packages are hard linked (cloned or copied otherwise)
  cache,      \* packages in the side-effects cache of the store
  manifest,   \* package.json
  wanted,     \* pnpm-lock.yaml
  current,    \* node_modules/.pnpm/lock.yaml
  touched,    \* file -> the files that were modified before it, the last time
  disk,       \* package -> its directory in the virtual store
  links,      \* package -> the links in its node_modules
  roots,      \* the links in the project's node_modules
  inst,       \* the running install, and how the last one ended
  brokeOff,   \* history: the lockfile of an install that broke off half-way
  damaged,    \* history: what broke off was neither finished nor forced again
  stale,      \* history: what the check is known to miss has happened
  edits, breaks

installVars == <<workspace, hardlinks, cache, manifest, wanted, current, touched, disk, links, roots,
                 inst, brokeOff, damaged, stale, edits, breaks>>

None == "none"
Lockfiles == DOMAIN Satisfies
Manifests == {Satisfies[l] : l \in Lockfiles}
Packages == UNION {DOMAIN Children[l] : l \in Lockfiles}
\* A lockfile that is missing, or null, has no packages and no importers.
PackagesOf(l) == IF l = None THEN {} ELSE DOMAIN Children[l]
DirectOf(l) == IF l = None THEN <<>> ELSE Direct[l]

Rest == {"idle", "done", "skipped", "failed"}
Files == {"manifest", "wanted", "current", "state"}
AtRest(phase) == [phase |-> phase, read |-> None, target |-> None, how |-> "full", again |-> FALSE,
                  force |-> FALSE, prune |-> FALSE, link |-> {}, import |-> {}, build |-> {}, write |-> {}]

InstallTypeOK ==
  /\ {workspace, hardlinks} \subseteq BOOLEAN /\ cache \subseteq NeedBuild
  /\ manifest \in Manifests
  /\ {wanted, current, brokeOff} \subseteq Lockfiles \cup {None}
  /\ DOMAIN touched \subseteq Files /\ \A f \in DOMAIN touched : touched[f] \subseteq DOMAIN touched
  /\ disk \in [Packages -> {"absent", "fresh", "built"}]
  /\ \A p \in Packages : \A a \in DOMAIN links[p] : links[p][a] \in Packages
  /\ \A a \in DOMAIN roots : roots[a] \in Packages
  /\ inst.phase \in Rest \cup {"begun", "linking", "building", "ending"}
  /\ inst.target \in Lockfiles \cup {None} /\ inst.read \in Manifests \cup {None}
  /\ inst.how \in {"full", "frozen"}
  /\ inst.write \subseteq {"wanted", "current"}
  /\ inst.link \cup inst.import \cup inst.build \subseteq Packages
  /\ {damaged, stale, inst.force, inst.prune, inst.again} \subseteq BOOLEAN
  /\ edits \in 0..MaxEdits /\ breaks \in 0..MaxBreaks

\* A new checkout, with or without a lockfile.
Init ==
  /\ workspace \in BOOLEAN /\ hardlinks \in BOOLEAN /\ cache = {}
  /\ manifest \in Manifests /\ wanted \in Lockfiles \cup {None}
  /\ current = None /\ touched = [f \in {"wanted", "manifest"} |-> IF f = "manifest" THEN {"wanted"} ELSE {}]
  /\ disk = [p \in Packages |-> "absent"]
  /\ links = [p \in Packages |-> <<>>] /\ roots = <<>>
  /\ inst = AtRest("idle")
  /\ brokeOff = None /\ damaged = FALSE /\ stale = FALSE
  /\ edits = 0 /\ breaks = 0

Without(files) == [f \in DOMAIN touched \ files |-> touched[f] \ files]
Touch(f) == [g \in DOMAIN touched \cup {f} |-> IF g = f THEN DOMAIN touched \ {f} ELSE touched[g] \ {f}]
Exists(f) == f \in DOMAIN touched
Newer(f, g) == Exists(f) /\ g \in touched[f]
Satisfied(l) == l # None /\ Satisfies[l] = manifest

-----------------------------------------------------------------------------
\* checkDepsStatus

\* Mutant of EqualsCurrent: the current lockfile is not compared.
NeverCompared(newer) == TRUE

\* assertLockfilesEqual, if the wanted lockfile has changed since
EqualsCurrent(newer) == newer => current = wanted

\* In a workspace the state file is the measure: manifests that are not newer
\* than it end the check; else the lockfile must satisfy them.
WorkspaceUpToDate ==
  \/ ~Newer("manifest", "state")
  \/ wanted # None /\ EqualsCurrent(Newer("wanted", "state")) /\ Satisfied(wanted)

\* Without a workspace the lockfiles and the manifest are compared with each
\* other.
ProjectUpToDate ==
  /\ wanted # None
  /\ current # None => EqualsCurrent(Newer("wanted", "current"))
  /\ IF Newer("manifest", "wanted") THEN Satisfied(wanted)
     ELSE current # None \/ PackagesOf(wanted) = {}

\* optimisticRepeatInstall: "Already up to date".  The check leaves a new
\* state file when it had to look at a manifest.
Skip ==
  /\ inst.phase \in Rest /\ Exists("state")
  /\ IF workspace THEN WorkspaceUpToDate ELSE ProjectUpToDate
  /\ inst' = AtRest("skipped")
  /\ touched' = IF workspace /\ Newer("manifest", "state") THEN Touch("state") ELSE touched
  /\ UNCHANGED <<workspace, hardlinks, cache, manifest, wanted, current, disk, links, roots, brokeOff, damaged,
                 stale, edits, breaks>>

-----------------------------------------------------------------------------
\* mutateModules reads the context.  A lockfile that satisfies the manifest is
\* installed as it is; otherwise the resolver makes one that does, unless the
\* lockfile is frozen.
StartsOn(l, how, force) ==
  /\ \E b \in BOOLEAN : inst' = [AtRest("begun") EXCEPT !.read = manifest, !.target = l,
                                   !.how = how, !.force = force, !.prune = b,
                                   !.write = IF how = "full" THEN {"wanted", "current"}
                                             ELSE {"current"}]
  /\ damaged' = (damaged \/ (brokeOff # None /\ brokeOff # l))

Begin(force) ==
  /\ inst.phase \in Rest
  /\ \/ Satisfied(wanted) /\ StartsOn(wanted, "frozen", force)
     \/ ~Satisfied(wanted) /\ \E l \in Lockfiles : Satisfied(l) /\ StartsOn(l, "full", force)
     \/ ~Satisfied(wanted) /\ inst' = AtRest("failed") /\ UNCHANGED damaged
  /\ UNCHANGED <<workspace, hardlinks, cache, manifest, wanted, current, touched, disk, links, roots, brokeOff,
                 stale, edits, breaks>>

\* Mutant of Unneeded: only what the current lockfile knows of is removed.
OrphansOnly(l) == PackagesOf(current) \ PackagesOf(l)

\* The orphans, and whatever else the virtual store has.
Unneeded(l) == Packages \ PackagesOf(l)

\* prune: direct dependencies that the lockfile no longer has or has another
\* version of; the virtual store only if it was not pruned for a week.  An
\* absent current lockfile counts as an empty one.
Prune ==
  LET l == inst.target
      gone == {a \in DOMAIN DirectOf(current) :
                 a \notin DOMAIN Direct[l] \/ Direct[l][a] # Direct[current][a]}
      removed == IF inst.prune THEN Unneeded(l) ELSE {}
  IN  /\ roots' = [a \in DOMAIN roots \ gone |-> roots[a]]
      /\ disk' = [p \in Packages |-> IF p \in removed THEN "absent" ELSE disk[p]]
      /\ links' = [p \in Packages |-> IF p \in removed THEN <<>> ELSE links[p]]

\* Mutant of Unchanged: the name is enough.
Known(p, l) == p \in PackagesOf(current)

Unchanged(p, l) == p \in PackagesOf(current) /\ Children[current][p] = Children[l][p]

NotThere(p) == p \notin PackagesOf(current) \/ disk'[p] = "absent"

\* lockfileToDepGraph leaves out packages that are there and have the same
\* dependencies; linkNewPackages imports those that are not there and relinks
\* those whose dependencies changed.
Plan ==
  LET l == inst.target
      link == {p \in PackagesOf(l) : inst.force \/ NotThere(p) \/ ~Unchanged(p, l)}
      import == IF inst.how = "frozen" THEN link
                ELSE {p \in PackagesOf(l) : inst.force \/ NotThere(p)}
  IN  inst' = [inst EXCEPT !.phase = "linking", !.link = link, !.import = import]

PruneAndPlan ==
  /\ inst.phase = "begun"
  /\ Prune /\ Plan
  /\ UNCHANGED <<workspace, hardlinks, cache, manifest, wanted, current, touched, brokeOff, damaged, stale,
                 edits, breaks>>

\* New links, and those that were there under other names.
Over(new, old) == [a \in DOMAIN new \cup DOMAIN old |-> IF a \in DOMAIN new THEN new[a] ELSE old[a]]

\* symlinkAllModules adds and replaces links, it removes none.
LinkModules(p) ==
  /\ inst.phase = "linking" /\ inst.link # {}
  /\ p = CHOOSE q \in inst.link : TRUE
  /\ links' = [links EXCEPT ![p] = Over(Children[inst.target][p], @)]
  /\ inst' = [inst EXCEPT !.link = @ \ {p}]
  /\ UNCHANGED <<workspace, hardlinks, cache, manifest, wanted, current, touched, disk, roots, brokeOff, damaged,
                 stale, edits, breaks>>

\* importPackage: a directory that is there is left as it is, unless the import
\* is forced, or its files are hard links and those of the side-effects cache
\* are others.  A package of the cache counts as built in any case.
ImportPackage(p) ==
  /\ inst.phase = "linking" /\ p \in inst.import
  /\ disk' = [disk EXCEPT ![p] =
       IF inst.force \/ disk[p] = "absent" \/ (hardlinks /\ p \in cache)
       THEN IF p \in cache THEN "built" ELSE "fresh" ELSE @]
  /\ inst' = [inst EXCEPT !.import = @ \ {p},
                          !.build = IF p \in NeedBuild \ cache THEN @ \cup {p} ELSE @]
  /\ UNCHANGED <<workspace, hardlinks, cache, manifest, wanted, current, touched, links, roots,
                 brokeOff, damaged, stale, edits, breaks>>

\* The links of the project.
LinkDirect ==
  /\ inst.phase = "linking" /\ inst.link = {} /\ inst.import = {}
  /\ roots' = Over(Direct[inst.target], roots)
  /\ inst' = [inst EXCEPT !.phase = "building"]
  /\ UNCHANGED <<workspace, hardlinks, cache, manifest, wanted, current, touched, disk, links, brokeOff, damaged,
                 stale, edits, breaks>>

\* buildModules (BuildModules has its order), which may upload what it built
Build(p, upload) ==
  /\ inst.phase = "building" /\ p \in inst.build
  /\ disk' = [disk EXCEPT ![p] = "built"]
  /\ cache' = IF upload THEN cache \cup {p} ELSE cache
  /\ inst' = [inst EXCEPT !.build = @ \ {p}]
  /\ UNCHANGED <<workspace, hardlinks, manifest, wanted, current, touched, links, roots, brokeOff,
                 damaged, stale, edits, breaks>>

\* Mutant of Linked: the lockfiles are written while scripts still run.
LinkedOnly == inst.phase = "building"

\* Everything is linked, bins are linked, all builds have ended.
Linked == inst.phase = "building" /\ inst.build = {}

\* A full install writes both lockfiles, in any order; a frozen one the
\* current lockfile alone.
WriteLockfile(f) ==
  /\ Linked /\ f \in inst.write
  /\ wanted' = IF f = "wanted" THEN inst.target ELSE wanted
  /\ current' = IF f = "current" THEN inst.target ELSE current
  /\ touched' = Touch(f)
  /\ inst' = [inst EXCEPT !.write = @ \ {f}]
  /\ UNCHANGED <<workspace, hardlinks, cache, manifest, disk, links, roots, brokeOff, damaged, stale, edits, breaks>>

\* The project's own scripts.  With them the install proper is over.
RunHooks ==
  /\ Linked /\ inst.write = {}
  /\ inst' = [inst EXCEPT !.phase = "ending"]
  /\ brokeOff' = None
  /\ UNCHANGED <<workspace, hardlinks, cache, manifest, wanted, current, touched, disk, links, roots, damaged, stale,
                 edits, breaks>>

\* updateWorkspaceState, with the time of now: what changed since the install
\* read it is not seen by the next check.
UpdateState ==
  /\ inst.phase = "ending"
  /\ touched' = Touch("state")
  /\ stale' = (manifest # inst.read \/ wanted # inst.target)
  /\ inst' = [inst EXCEPT !.phase = "done"]
  /\ UNCHANGED <<workspace, hardlinks, cache, manifest, wanted, current, disk, links, roots, brokeOff, damaged, edits, breaks>>

\* A fetch, a build or a script fails, or the process dies, and what was done
\* stays.
Break ==
  /\ inst.phase \notin Rest /\ breaks < MaxBreaks
  /\ breaks' = breaks + 1
  /\ LET halfway == (inst.phase \in {"linking", "building"} \/ inst.again) /\ "current" \in inst.write
     IN  /\ brokeOff' = IF halfway THEN inst.target ELSE brokeOff
         /\ damaged' = (damaged \/ (halfway /\ inst.force))
  /\ stale' = (stale \/ inst.write = {"wanted"})
  /\ inst' = AtRest("failed")
  /\ UNCHANGED <<workspace, hardlinks, cache, manifest, wanted, current, touched, disk, links, roots, edits>>

\* A tarball does not have the integrity of the lockfile: the install starts
\* over with a resolution of its own (of a frozen lockfile it would fail).
ResolveAgain(l) ==
  /\ inst.phase = "linking" /\ inst.import # {} /\ breaks < MaxBreaks
  /\ Satisfies[l] = inst.read
  /\ breaks' = breaks + 1
  /\ inst' = [inst EXCEPT !.phase = "begun", !.target = l, !.how = "full", !.again = TRUE,
                          !.link = {}, !.import = {}, !.build = {}, !.write = {"wanted", "current"}]
  /\ damaged' = (damaged \/ l # inst.target)
  /\ UNCHANGED <<workspace, hardlinks, cache, manifest, wanted, current, touched, disk, links, roots, brokeOff,
                 stale, edits>>

-----------------------------------------------------------------------------
\* The user

Rested == IF inst.phase \in Rest THEN AtRest("idle") ELSE inst

\* package.json is edited; or a checkout brings a lockfile that goes with it.
EditManifest(m) ==
  /\ edits < MaxEdits /\ edits' = edits + 1
  /\ manifest' = m /\ touched' = Touch("manifest")
  /\ inst' = Rested
  /\ stale' = (stale \/ inst.phase \notin Rest)
  /\ UNCHANGED <<workspace, hardlinks, cache, wanted, current, disk, links, roots, brokeOff, damaged, breaks>>

Checkout(l) ==
  /\ edits < MaxEdits /\ edits' = edits + 1
  /\ manifest' = Satisfies[l] /\ wanted' = l
  /\ touched' = [f \in DOMAIN touched \cup {"wanted", "manifest"} |->
                   IF f = "manifest" THEN (DOMAIN touched \cup {"wanted"}) \ {"manifest"}
                   ELSE IF f = "wanted" THEN DOMAIN touched \ {"wanted", "manifest"}
                   ELSE touched[f] \ {"wanted", "manifest"}]
  /\ inst' = Rested
  /\ stale' = (stale \/ inst.phase \notin Rest)
  /\ UNCHANGED <<workspace, hardlinks, cache, current, disk, links, roots, brokeOff, damaged, breaks>>

\* The lockfile alone changes: in a workspace the check looks at it only when
\* a manifest is newer than the state.
CheckoutLockfile(l) ==
  /\ edits < MaxEdits /\ edits' = edits + 1
  /\ Satisfies[l] = manifest /\ wanted' = l
  /\ touched' = Touch("wanted")
  /\ inst' = Rested
  /\ stale' = (stale \/ workspace \/ inst.phase \notin Rest)
  /\ UNCHANGED <<workspace, hardlinks, cache, manifest, current, disk, links, roots, brokeOff, damaged, breaks>>

\* rm -rf node_modules
RemoveModules ==
  /\ inst.phase \in Rest /\ edits < MaxEdits /\ edits' = edits + 1
  /\ current' = None
  /\ touched' = Without({"current", "state"})
  /\ disk' = [p \in Packages |-> "absent"]
  /\ links' = [p \in Packages |-> <<>>] /\ roots' = <<>>
  /\ inst' = AtRest("idle") /\ brokeOff' = None /\ damaged' = FALSE
  /\ UNCHANGED <<workspace, hardlinks, cache, manifest, wanted, stale, breaks>>

\* An install of another project builds the package and uploads it.  A
\* directory that was cloned or copied and waits for its build is then taken
\* for built by the next import.
BuiltElsewhere(p) ==
  /\ edits < MaxEdits /\ edits' = edits + 1
  /\ cache' = cache \cup {p}
  /\ damaged' = (damaged \/ (~hardlinks /\ disk[p] = "fresh"))
  /\ UNCHANGED <<workspace, hardlinks, manifest, wanted, current, touched, disk, links, roots, inst,
                 brokeOff, stale, breaks>>

-----------------------------------------------------------------------------
Step ==
  \/ PruneAndPlan \/ LinkDirect \/ RunHooks \/ UpdateState
  \/ \E p \in Packages : LinkModules(p) \/ ImportPackage(p) \/ \E u \in BOOLEAN : Build(p, u)
  \/ \E f \in {"wanted", "current"} : WriteLockfile(f)
Next ==
  \/ Step \/ Skip \/ Break \/ RemoveModules
  \/ \E b \in BOOLEAN : Begin(b)
  \/ \E m \in Manifests : EditManifest(m)
  \/ \E p \in NeedBuild : BuiltElsewhere(p)
  \/ \E l \in Lockfiles : ResolveAgain(l) \/ Checkout(l) \/ CheckoutLockfile(l)

\* An install that has begun goes on; nobody must install or edit.
SafetySpec == Init /\ [][Next]_installVars
Spec == SafetySpec /\ WF_installVars(Step)

-----------------------------------------------------------------------------
\* Properties

\* node_modules is what the lockfile says: the links of the project, the
\* packages, built, and the links of each to its dependencies.
IsInstalled(l) ==
  /\ \A a \in DOMAIN DirectOf(l) : a \in DOMAIN roots /\ roots[a] = Direct[l][a]
  /\ \A p \in PackagesOf(l) :
       /\ disk[p] \in IF p \in NeedBuild THEN {"built"} ELSE {"fresh", "built"}
       /\ \A a \in DOMAIN Children[l][p] : a \in DOMAIN links[p] /\ links[p][a] = Children[l][p][a]

\* An install that ends well leaves what its lockfile says, whatever was there
\* before: of earlier installs with other lockfiles, pruned or not, of
\* installs that failed or died, of a directory that was removed.  The
\* exceptions are a lockfile other than that of an install that broke off, and
\* any after a forced install that broke off: what it did to packages that the
\* current lockfile has is not known, and neither is what is too much.
\* --force sets the former right.
InstalledIsWanted ==
  inst.phase = "done" =>
    /\ inst.force \/ ~damaged => IsInstalled(inst.target)
    /\ ~damaged => DOMAIN roots = DOMAIN Direct[inst.target]

\* "Already up to date" is said only when it is true.  What the check is known
\* to miss is excluded: changes while an install ran, an install that broke off
\* when it had written the current lockfile and not the wanted one, and in a
\* workspace a lockfile that changed alone.
UpToDateIsTrue ==
  inst.phase = "skipped" /\ ~stale /\ ~damaged /\ brokeOff \in {None, wanted} =>
    Satisfied(wanted) /\ IsInstalled(wanted)

\* After an install that pruned the virtual store it has nothing that the
\* lockfile does not, whatever earlier installs left there.
PrunedIsClean ==
  [][inst.phase = "ending" /\ inst'.phase = "done" /\ inst.prune =>
     \A p \in Packages \ PackagesOf(inst.target) : disk[p] = "absent"]_installVars
=============================================================================
