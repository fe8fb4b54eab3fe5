--------------------------- MODULE WorkspaceProofs --------------------------
(***************************************************************************)
(* Proofs about the installs of a workspace, for any projects, versions    *)
(* and packages to build, with one lockfile or one per project, and        *)
(* through any edits, failures and kills: what was selected is installed,  *)
(* what was settled is not harmed, and what a check finds up to date, so   *)
(* that nothing is done, is what the manifests say and can be used.        *)
(***************************************************************************)
EXTENDS Components, FiniteSetTheorems, TLAPS

-----------------------------------------------------------------------------
\* Installs of a workspace

WsLocks == [WsProjects -> Wsp!Importers]
WsModules ==
  [current : WsLocks, packages : [WsProjects -> SUBSET WsVersions],
   store : [WsProjects -> [WsVersions -> {"absent", "fresh", "built"}]],
   link : [WsProjects -> WsVersions \cup {Wsp!NoDep}]]
WsPhases == {"idle", "waiting", "lock", "prune", "import", "link", "build", "write", "save", "done", "failed"}
WsCalls ==
  [phase : WsPhases, how : {"full", "frozen", "filtered"}, target : WsLocks, build : SUBSET WsNeedBuild,
   write : SUBSET {"wanted", "current"}, save : SUBSET WsProjects, partial : BOOLEAN]
WsCommandsMade ==
  [phase : Wsp!Rest \cup {"running", "bailing", "rebuilding"}, name : {"install", "add", "update"},
   sel : SUBSET WsProjects, hit : SUBSET WsProjects, left : SUBSET WsProjects,
   version : WsVersions \cup {Wsp!NoDep}, only : BOOLEAN, bail : BOOLEAN]
WsStates == [exists : BOOLEAN, filtered : BOOLEAN, projects : SUBSET WsProjects,
             newer : SUBSET WsProjects, lockNewer : SUBSET WsProjects]
WsPasts == [settled : SUBSET WsProjects, missed : SUBSET WsProjects, strays : SUBSET WsProjects,
            harmed : SUBSET WsProjects, torn : BOOLEAN, broke : [WsProjects -> SUBSET WsLocks]]
WsSpents == [commands : 0..MaxCommands, edits : 0..MaxEdits, breaks : 0..MaxBreaks]

WorkspaceTypes ==
  /\ oneLockfile \in BOOLEAN
  /\ ws \in [here : SUBSET WsProjects, manifest : WsLocks, lock : WsLocks]
  /\ mods \in WsModules /\ state \in WsStates
  /\ command \in WsCommandsMade /\ calls \in [WsProjects -> WsCalls]
  /\ past \in WsPasts /\ spent \in WsSpents

\* A command selects from the projects that there are, and has a call for the
\* directory of every project that it changes.
Underway == command.phase \in {"running", "bailing", "rebuilding"}
CommandFits ==
  /\ \A p \in WsProjects : p \in ws.here <=> ws.manifest[p] # Wsp!Absent
  /\ command.hit \subseteq command.sel /\ command.left \subseteq command.sel /\ command.sel \subseteq ws.here
  /\ ~Underway => \A d \in WsProjects : calls[d].phase \in {"idle", "done", "failed"}
  /\ command.phase = "rebuilding" => Wsp!AllEnded
  /\ Underway => /\ \A d \in WsProjects : calls[d].phase # "idle" => \E p \in command.hit : Wsp!Dir(p) = d
                 /\ \A p \in command.hit : calls[Wsp!Dir(p)].phase # "idle"

\* A call that has read the lockfile knows what the manifests will say of all
\* projects there are; when it is done the lockfile and they say so.
Begun(d) == Underway /\ d \in Wsp!Dirs /\ calls[d].phase \in Wsp!Active \cup {"done"}
Sound(d) == d \notin past.harmed
Planned(d) ==
  /\ \A p \in Wsp!Of(d) \cap ws.here : calls[d].target[p] = Wsp!WantedOf(p)
  /\ Wsp!PruneLockfileImporters => Wsp!Ids(calls[d].target, d) = Wsp!Of(d) \cap ws.here
  /\ calls[d].how = "full" => Wsp!Mutated(d) = Wsp!Of(d) \cap ws.here
  /\ calls[d].partial => calls[d].how = "full"
  /\ calls[d].save \subseteq command.hit \cap Wsp!Of(d)
  /\ \A p \in (command.hit \cap Wsp!Of(d)) \ calls[d].save : ws.manifest[p] = Wsp!WantedOf(p)
  /\ calls[d].phase = "done" => calls[d].save = {}
  /\ calls[d].phase \in {"lock", "prune", "import", "link", "build"} => "current" \in calls[d].write
  /\ calls[d].phase \in {"save", "done"} /\ ~command.only => "current" \notin calls[d].write
  /\ calls[d].phase \in {"prune", "import", "link", "build", "write"} =>
       "wanted" \in calls[d].write \/ \A p \in Wsp!Of(d) : ws.lock[p] = calls[d].target[p]
  /\ calls[d].phase \in {"save", "done"} => \A p \in Wsp!Of(d) : ws.lock[p] = calls[d].target[p]
  /\ Sound(d) => past.broke[d] \subseteq {calls[d].target}

\* How far it is: what its projects need is in the store, then built or to be
\* built, they are linked, and the current lockfile knows it.
Through(d) == calls[d].phase \in {"save", "done"} /\ ~command.only
HasStored(d, v) ==
  /\ mods.store[d][v] # "absent"
  /\ oneLockfile /\ v \in WsNeedBuild /\ mods.store[d][v] # "built" =>
       calls[d].phase \in {"link", "build"} /\ v \in calls[d].build
HasPackages(d) ==
  calls[d].phase \in {"link", "build", "write"} \/ Through(d) =>
    \A v \in Wsp!PackagesOf(calls[d].target, Wsp!Mutated(d)) : HasStored(d, v)
HasUnlinked(d) ==
  calls[d].phase \in {"import", "link", "build", "write"} \/ Through(d) =>
    \A p \in Wsp!Mutated(d) : calls[d].target[p] = Wsp!NoDep => mods.link[p] = Wsp!NoDep \/ p \in past.strays
HasLinked(d) ==
  calls[d].phase \in {"build", "write"} \/ Through(d) =>
    \A p \in Wsp!Mutated(d) : calls[d].target[p] # Wsp!NoDep => mods.link[p] = calls[d].target[p]
HasRecorded(d) ==
  ~oneLockfile /\ ((calls[d].phase = "write" /\ "current" \notin calls[d].write) \/ Through(d)) =>
    /\ Wsp!PackagesOf(calls[d].target, Wsp!Mutated(d)) \subseteq mods.packages[d]
    /\ command.phase = "rebuilding" /\ d \notin command.left =>
         \A v \in mods.packages[d] \cap WsNeedBuild : mods.store[d][v] # "fresh"
Carried(d) == HasPackages(d) /\ HasUnlinked(d) /\ HasLinked(d) /\ HasRecorded(d)

\* A link is that of the current lockfile, or of the install that broke off, or
\* one that a filtered install overlooked.
Recorded(d) == Underway /\ calls[d].phase \in {"write", "save", "done"} /\ "current" \notin calls[d].write
LinkIs(p, d) ==
  \/ p \in past.strays \/ mods.link[p] \in {Wsp!NoDep, mods.current[p]}
  \/ /\ "current" \in calls[d].write /\ calls[d].phase \in {"build", "write"}
     /\ mods.link[p] = calls[d].target[p]
  \/ ~Recorded(d) /\ \E lockfile \in past.broke[d] : mods.link[p] = lockfile[p]
LinkFits(p) ==
  /\ p \notin ws.here => mods.link[p] = Wsp!NoDep
  /\ p \in ws.here /\ Sound(Wsp!Dir(p)) => LinkIs(p, Wsp!Dir(p))

\* What the current lockfile has is built, once it is there.
StoreFits == oneLockfile /\ Sound(WsRoot) => \A v \in mods.packages[WsRoot] \cap WsNeedBuild :
  \/ mods.store[WsRoot][v] \in {"absent", "built"}
  \/ calls[WsRoot].phase \in {"link", "build"} /\ v \in calls[WsRoot].build

Settled(p) ==
  /\ p \in ws.here /\ Wsp!Usable(p)
  /\ Underway => p \notin Wsp!Mutated(Wsp!Dir(p))

WorkspaceInv ==
  /\ WorkspaceTypes /\ CommandFits
  /\ \A d \in WsProjects : Begun(d) => Planned(d)
  /\ \A d \in WsProjects : Begun(d) /\ Sound(d) => Carried(d)
  /\ \A p \in WsProjects : LinkFits(p)
  /\ StoreFits
  /\ \A p \in past.settled : Settled(p)

\* The types
LEMMA ConstantsAre ==
  ASSUME Wsp!WorkspaceAssumption
  PROVE  /\ WsRoot \in WsProjects /\ Wsp!NoDep = 0 /\ Wsp!Absent = -1 /\ Wsp!NoDep # Wsp!Absent
         /\ Wsp!NoDep \notin WsVersions /\ Wsp!Absent \notin WsVersions \cup {Wsp!NoDep}
         /\ Wsp!Importers = (WsVersions \cup {Wsp!NoDep}) \cup {Wsp!Absent}
         /\ MaxCommands \in Nat /\ MaxEdits \in Nat /\ MaxBreaks \in Nat
         /\ \A one \in BOOLEAN : \A c \in WsCommands[one] :
              /\ c.name \in {"install", "add", "update"} /\ c.version \in WsVersions \cup {Wsp!NoDep}
              /\ c.only \in BOOLEAN /\ c.bail \in BOOLEAN
<1>1. \A v \in WsVersions : v \in Nat /\ v # 0
  BY DEF Wsp!WorkspaceAssumption, Wsp!NoDep
<1> QED BY <1>1 DEF Wsp!WorkspaceAssumption, Wsp!NoDep, Wsp!Absent, Wsp!Importers

LEMMA WsDirsAre ==
  ASSUME Wsp!WorkspaceAssumption
  PROVE  /\ Wsp!Dirs \subseteq WsProjects
         /\ \A p \in WsProjects : Wsp!Dir(p) \in Wsp!Dirs /\ p \in Wsp!Of(Wsp!Dir(p))
         /\ \A d : Wsp!Of(d) \subseteq WsProjects /\ \A p \in Wsp!Of(d) : Wsp!Dir(p) = d
         /\ oneLockfile => Wsp!Dirs = {WsRoot} /\ Wsp!Of(WsRoot) = WsProjects
         /\ ~oneLockfile => \A d \in WsProjects : Wsp!Of(d) = {d}
BY ConstantsAre DEF Wsp!Dirs, Wsp!Dir, Wsp!Of

LEMMA NoCallTyped == Wsp!NoCall \in WsCalls
BY DEF Wsp!NoCall, WsCalls, WsPhases, WsLocks, Wsp!Importers

LEMMA NoCommandTyped == Wsp!NoCommand \in WsCommandsMade
BY DEF Wsp!NoCommand, WsCommandsMade, Wsp!Rest

LEMMA ReadTyped ==
  ASSUME NEW file \in WsLocks, NEW d PROVE Wsp!Read(file, d) \in WsLocks
BY DEF Wsp!Read, WsLocks, Wsp!Importers

LEMMA PlansTyped ==
  ASSUME WorkspaceTypes, NEW d \in WsProjects
  PROVE  Wsp!ReadWanted(d) \in WsLocks /\ Wsp!Resolved(d) \in WsLocks
<1>1. ws.lock \in WsLocks /\ mods.current \in WsLocks
  BY DEF WorkspaceTypes, WsModules
<1>2. Wsp!ReadWanted(d) \in WsLocks
  BY <1>1, ReadTyped, Zenon DEF Wsp!ReadWanted
<1>3. \A p \in WsProjects : Wsp!WantedOf(p) \in Wsp!Importers
  BY DEF Wsp!WantedOf, WorkspaceTypes, WsCommandsMade, WsLocks, Wsp!Importers
<1> QED BY <1>2, <1>3 DEF Wsp!Resolved, WsLocks, Wsp!Importers

LEMMA NewOnesTyped ==
  ASSUME WorkspaceTypes, NEW d \in WsProjects
  PROVE  /\ Wsp!NewCurrent(d) \in WsLocks /\ Wsp!NewPackages(d) \subseteq WsVersions
         /\ Wsp!SetLock(d) \in WsLocks
<1>1. calls[d].target \in WsLocks /\ mods.current \in WsLocks /\ ws.lock \in WsLocks
  BY DEF WorkspaceTypes, WsCalls, WsModules
<1>2. Wsp!NewCurrent(d) \in WsLocks
  BY <1>1 DEF Wsp!NewCurrent, WsLocks, Wsp!Importers
<1>3. \A l, P : Wsp!PackagesOf(l, P) \subseteq WsVersions
  BY DEF Wsp!PackagesOf
<1>4. mods.packages[d] \subseteq WsVersions
  BY DEF WorkspaceTypes, WsModules
<1>5. Wsp!NewPackages(d) \subseteq WsVersions
  BY <1>3, <1>4 DEF Wsp!NewPackages
<1>6. Wsp!SetLock(d) \in WsLocks
  BY <1>1 DEF Wsp!SetLock, WsLocks
<1> QED BY <1>2, <1>5, <1>6

LEMMA CheckTyped ==
  ASSUME WorkspaceTypes, NEW b \in BOOLEAN, NEW phase \in Wsp!Rest, Wsp!Check(b, phase)
  PROVE  WorkspaceTypes'
<1>1. command' \in WsCommandsMade
  BY NoCommandTyped DEF Wsp!Check, WsCommandsMade
<1>2. state' \in WsStates
  BY DEF Wsp!Check, WsStates, WorkspaceTypes
<1>3. calls' \in [WsProjects -> WsCalls]
  BY NoCallTyped DEF Wsp!Check
<1> QED BY <1>1, <1>2, <1>3 DEF Wsp!Check, WorkspaceTypes

LEMMA BeginTyped ==
  ASSUME Wsp!WorkspaceAssumption, WorkspaceTypes, NEW sel, NEW c \in WsCommands[oneLockfile],
         Wsp!Begin(c.name, sel, c.version, c.only, c.bail)
  PROVE  WorkspaceTypes'
<1>0. /\ c.name \in {"install", "add", "update"} /\ c.version \in WsVersions \cup {Wsp!NoDep}
      /\ c.only \in BOOLEAN /\ c.bail \in BOOLEAN
  BY ConstantsAre DEF WorkspaceTypes
<1>1. sel \subseteq WsProjects /\ Wsp!Hit(c.name, sel) \subseteq WsProjects
  BY DEF Wsp!Begin, WorkspaceTypes, Wsp!Hit
<1>2. command' \in WsCommandsMade
  BY <1>0, <1>1, NoCommandTyped DEF Wsp!Begin, WsCommandsMade
<1>3. calls' \in [WsProjects -> WsCalls]
  BY NoCallTyped DEF Wsp!Begin, WsCalls, WsPhases
<1>4. past' \in WsPasts
  BY DEF Wsp!Begin, WorkspaceTypes, WsPasts
<1>5. spent' \in WsSpents
  <2>1. spent.commands + 1 \in 0..MaxCommands
    BY ConstantsAre DEF Wsp!Begin, WorkspaceTypes, WsSpents
  <2> QED BY <2>1 DEF Wsp!Begin, WorkspaceTypes, WsSpents
<1> QED BY <1>2, <1>3, <1>4, <1>5 DEF Wsp!Begin, WorkspaceTypes

LEMMA StartTyped ==
  ASSUME Wsp!WorkspaceAssumption, WorkspaceTypes, NEW d \in WsProjects, Wsp!Start(d)
  PROVE  WorkspaceTypes'
<1>1. calls'[d] \in WsCalls /\ calls' = [calls EXCEPT ![d] = calls'[d]]
  <2>1. Wsp!ReadWanted(d) \in WsLocks /\ Wsp!Resolved(d) \in WsLocks
    BY PlansTyped
  <2>2. Wsp!NoCall \in WsCalls
    BY NoCallTyped
  <2>3. {p \in command.hit \cap Wsp!Of(d) : ws.manifest[p] # Wsp!WantedOf(p)} \subseteq WsProjects
    BY WsDirsAre
  <2> QED BY <2>1, <2>2, <2>3 DEF Wsp!Start, WorkspaceTypes, WsCalls, WsPhases
<1>2. calls' \in [WsProjects -> WsCalls]
  BY <1>1 DEF WorkspaceTypes
<1>3. past' \in WsPasts
  BY DEF Wsp!Start, WorkspaceTypes, WsPasts
<1> QED BY <1>2, <1>3 DEF Wsp!Start, WorkspaceTypes

\* A call goes on.
LEMMA WsCallTyped ==
  ASSUME WorkspaceTypes, NEW d \in WsProjects, NEW c \in WsCalls, calls' = [calls EXCEPT ![d] = c]
  PROVE  calls' \in [WsProjects -> WsCalls]
BY DEF WorkspaceTypes

LEMMA WriteLockfileFirstTyped ==
  ASSUME WorkspaceTypes, NEW d \in WsProjects, Wsp!WriteLockfileFirst(d) PROVE WorkspaceTypes'
<1>1. calls' \in [WsProjects -> WsCalls]
  BY DEF Wsp!WriteLockfileFirst, Wsp!Saving, WorkspaceTypes, WsCalls, WsPhases
<1>2. ws' \in [here : SUBSET WsProjects, manifest : WsLocks, lock : WsLocks]
  BY NewOnesTyped DEF Wsp!WriteLockfileFirst, WorkspaceTypes
<1>3. state' \in WsStates
  BY DEF Wsp!WriteLockfileFirst, WorkspaceTypes, WsStates
<1> QED BY <1>1, <1>2, <1>3 DEF Wsp!WriteLockfileFirst, WorkspaceTypes

LEMMA PhaseTyped ==
  ASSUME WorkspaceTypes, NEW d \in WsProjects, NEW phase \in WsPhases
  PROVE  [calls EXCEPT ![d].phase = phase] \in [WsProjects -> WsCalls]
BY DEF WorkspaceTypes, WsCalls

\* The store of a directory changes.
LEMMA StoreTyped ==
  ASSUME NEW m \in WsModules, NEW d \in WsProjects,
         NEW s \in [WsVersions -> {"absent", "fresh", "built"}]
  PROVE  [m EXCEPT !.store[d] = s] \in WsModules
BY DEF WsModules

LEMMA PruneModulesTyped ==
  ASSUME Wsp!WorkspaceAssumption, WorkspaceTypes, NEW d \in WsProjects, NEW b \in BOOLEAN, Wsp!PruneModules(d, b)
  PROVE  WorkspaceTypes'
<1> DEFINE gone == {p \in Wsp!Mutated(d) : mods.current[p] \in WsVersions /\ mods.current[p] # calls[d].target[p]}
           l == [p \in WsProjects |-> IF p \in gone THEN Wsp!NoDep ELSE mods.link[p]]
           s == [v \in WsVersions |-> IF b /\ v \notin Wsp!Needed(d) THEN "absent" ELSE mods.store[d][v]]
<1>1. l \in [WsProjects -> WsVersions \cup {Wsp!NoDep}] /\ s \in [WsVersions -> {"absent", "fresh", "built"}]
  BY DEF WorkspaceTypes, WsModules
<1>2. mods' = [[mods EXCEPT !.link = l] EXCEPT !.store[d] = s]
  BY DEF Wsp!PruneModules, WorkspaceTypes, WsModules
<1>3. [mods EXCEPT !.link = l] \in WsModules
  BY <1>1 DEF WorkspaceTypes, WsModules
<1>4. mods' \in WsModules
  BY <1>1, <1>2, <1>3, StoreTyped
<1>5. calls' \in [WsProjects -> WsCalls]
  BY PhaseTyped DEF Wsp!PruneModules, WsPhases
<1> QED BY <1>4, <1>5 DEF Wsp!PruneModules, WorkspaceTypes

LEMMA ImportTyped ==
  ASSUME Wsp!WorkspaceAssumption, WorkspaceTypes, NEW d \in WsProjects, Wsp!Import(d)
  PROVE  WorkspaceTypes'
<1> DEFINE new == {v \in Wsp!PackagesOf(calls[d].target, Wsp!Mutated(d)) :
                    v \notin mods.packages[d] \/ mods.store[d][v] = "absent"}
           s == [v \in WsVersions |-> IF v \in new /\ mods.store[d][v] = "absent" THEN "fresh" ELSE mods.store[d][v]]
<1>1. s \in [WsVersions -> {"absent", "fresh", "built"}]
  BY DEF WorkspaceTypes, WsModules
<1>2. mods' = [mods EXCEPT !.store[d] = s]
  BY DEF Wsp!Import, WorkspaceTypes, WsModules
<1>3. mods' \in WsModules
  BY <1>1, <1>2, StoreTyped DEF WorkspaceTypes
<1>4. calls' \in [WsProjects -> WsCalls]
  <2> DEFINE toBuild == new \cap WsNeedBuild
  <2> DEFINE linking == [calls[d] EXCEPT !.phase = "link"]
  <2>1. calls' = [calls EXCEPT ![d] = [linking EXCEPT !.build = toBuild]]
    BY DEF Wsp!Import, WorkspaceTypes, WsCalls
  <2>2. toBuild \in SUBSET WsNeedBuild /\ linking \in WsCalls
    BY DEF WorkspaceTypes, WsCalls, WsPhases
  <2> HIDE DEF toBuild, linking
  <2>3. [linking EXCEPT !.build = toBuild] \in WsCalls
    BY <2>2 DEF WsCalls
  <2> QED BY <2>1, <2>3 DEF WorkspaceTypes
<1> QED BY <1>3, <1>4 DEF Wsp!Import, WorkspaceTypes

LEMMA LinkDirectTyped ==
  ASSUME Wsp!WorkspaceAssumption, WorkspaceTypes, NEW d \in WsProjects, Wsp!LinkDirect(d),
         \A p \in Wsp!Mutated(d) : calls[d].target[p] # Wsp!Absent
  PROVE  WorkspaceTypes'
<1> DEFINE l == [p \in WsProjects |-> IF p \in Wsp!Mutated(d) /\ calls[d].target[p] # Wsp!NoDep
                                     THEN calls[d].target[p] ELSE mods.link[p]]
<1>1. l \in [WsProjects -> WsVersions \cup {Wsp!NoDep}]
  BY DEF WorkspaceTypes, WsModules, WsCalls, WsLocks, Wsp!Importers
<1>2. mods' = [mods EXCEPT !.link = l]
  BY DEF Wsp!LinkDirect, WorkspaceTypes, WsModules
<1>3. mods' \in WsModules
  BY <1>1, <1>2 DEF WorkspaceTypes, WsModules
<1>4. calls' \in [WsProjects -> WsCalls]
  BY PhaseTyped DEF Wsp!LinkDirect, WsPhases
<1> QED BY <1>3, <1>4 DEF Wsp!LinkDirect, WorkspaceTypes

LEMMA BuildTyped ==
  ASSUME Wsp!WorkspaceAssumption, WorkspaceTypes, NEW d \in WsProjects, Wsp!Build(d)
  PROVE  WorkspaceTypes'
<1> DEFINE s == [v \in WsVersions |-> IF oneLockfile /\ v \in calls[d].build THEN "built" ELSE mods.store[d][v]]
<1>1. s \in [WsVersions -> {"absent", "fresh", "built"}]
  BY DEF WorkspaceTypes, WsModules
<1>2. mods' = [mods EXCEPT !.store[d] = s]
  BY DEF Wsp!Build, WorkspaceTypes, WsModules
<1>3. mods' \in WsModules
  BY <1>1, <1>2, StoreTyped DEF WorkspaceTypes
<1>4. calls' \in [WsProjects -> WsCalls]
  BY PhaseTyped DEF Wsp!Build, WsPhases
<1> QED BY <1>3, <1>4 DEF Wsp!Build, WorkspaceTypes

LEMMA WriteLockfileTyped ==
  ASSUME WorkspaceTypes, NEW d \in WsProjects, NEW file \in {"wanted", "current"}, Wsp!WriteLockfile(d, file)
  PROVE  WorkspaceTypes'
<1>1. calls' \in [WsProjects -> WsCalls]
  <2> DEFINE written == [calls[d] EXCEPT !.write = @ \ {file}]
  <2>1. written \in WsCalls
    BY DEF WorkspaceTypes, WsCalls
  <2>2. calls' = [calls EXCEPT ![d] =
          IF written.write = {} THEN [written EXCEPT !.phase = Wsp!Saving(written)] ELSE written]
    BY DEF Wsp!WriteLockfile
  <2> HIDE DEF written
  <2>3. [written EXCEPT !.phase = Wsp!Saving(written)] \in WsCalls
    BY <2>1 DEF WsCalls, Wsp!Saving, WsPhases
  <2> QED BY <2>1, <2>2, <2>3 DEF WorkspaceTypes
<1>2. ws' \in [here : SUBSET WsProjects, manifest : WsLocks, lock : WsLocks]
  BY NewOnesTyped DEF Wsp!WriteLockfile, WorkspaceTypes
<1>3. state' \in WsStates
  BY DEF Wsp!WriteLockfile, WorkspaceTypes, WsStates
<1>4. mods' \in WsModules
  <2>1. CASE file = "wanted"
    BY <2>1 DEF Wsp!WriteLockfile, WorkspaceTypes
  <2>2. CASE file = "current"
    <3>1. mods' = [[mods EXCEPT !.current = Wsp!NewCurrent(d)] EXCEPT !.packages[d] = Wsp!NewPackages(d)]
      BY <2>2 DEF Wsp!WriteLockfile, WorkspaceTypes, WsModules
    <3>2. [mods EXCEPT !.current = Wsp!NewCurrent(d)] \in WsModules
      BY NewOnesTyped DEF WorkspaceTypes, WsModules
    <3>3. \A m \in WsModules : [m EXCEPT !.packages[d] = Wsp!NewPackages(d)] \in WsModules
      BY NewOnesTyped DEF WsModules
    <3> QED BY <3>1, <3>2, <3>3
  <2> QED BY <2>1, <2>2
<1>5. past' \in WsPasts
  BY DEF Wsp!WriteLockfile, WorkspaceTypes, WsPasts, Wsp!Of
<1> QED BY <1>1, <1>2, <1>3, <1>4, <1>5 DEF Wsp!WriteLockfile, WorkspaceTypes

LEMMA SaveManifestTyped ==
  ASSUME WorkspaceTypes, NEW d \in WsProjects, NEW p \in WsProjects, Wsp!SaveManifest(d, p)
  PROVE  WorkspaceTypes'
<1>1. calls' \in [WsProjects -> WsCalls]
  <2> DEFINE saved == [calls[d] EXCEPT !.save = @ \ {p}]
  <2>1. saved \in WsCalls
    BY DEF WorkspaceTypes, WsCalls
  <2>2. calls' = [calls EXCEPT ![d] = [saved EXCEPT !.phase = Wsp!Saving(saved)]]
    BY DEF Wsp!SaveManifest
  <2> HIDE DEF saved
  <2>3. [saved EXCEPT !.phase = Wsp!Saving(saved)] \in WsCalls
    BY <2>1 DEF WsCalls, Wsp!Saving, WsPhases
  <2> QED BY <2>1, <2>2, <2>3 DEF WorkspaceTypes
<1>2. ws' \in [here : SUBSET WsProjects, manifest : WsLocks, lock : WsLocks]
  <2>1. calls[d].target[p] \in Wsp!Importers
    BY DEF WorkspaceTypes, WsCalls, WsLocks
  <2>2. ws' = [ws EXCEPT !.manifest = [ws.manifest EXCEPT ![p] = calls[d].target[p]]]
    BY DEF Wsp!SaveManifest, WorkspaceTypes
  <2>3. [ws.manifest EXCEPT ![p] = calls[d].target[p]] \in WsLocks
    BY <2>1 DEF WorkspaceTypes, WsLocks
  <2> QED BY <2>2, <2>3 DEF WorkspaceTypes
<1>3. state' \in WsStates
  BY DEF Wsp!SaveManifest, WorkspaceTypes, WsStates
<1> QED BY <1>1, <1>2, <1>3 DEF Wsp!SaveManifest, WorkspaceTypes

LEMMA RebuildTyped ==
  ASSUME WorkspaceTypes, Wsp!StartRebuild \/ \E p \in WsProjects : Wsp!RebuildProject(p)
  PROVE  WorkspaceTypes'
<1>1. command' \in WsCommandsMade
  <2>1. CASE Wsp!StartRebuild
    <3>1. Wsp!ToRebuild \in SUBSET WsProjects
      BY DEF Wsp!ToRebuild, WorkspaceTypes, WsCommandsMade
    <3> QED BY <2>1, <3>1 DEF Wsp!StartRebuild, WorkspaceTypes, WsCommandsMade
  <2>2. CASE \E p \in WsProjects : Wsp!RebuildProject(p)
    BY <2>2 DEF Wsp!RebuildProject, WorkspaceTypes, WsCommandsMade
  <2> QED BY <2>1, <2>2
<1>2. mods' \in WsModules
  <2>1. CASE Wsp!StartRebuild
    BY <2>1 DEF Wsp!StartRebuild, WorkspaceTypes
  <2>2. ASSUME NEW p \in WsProjects, Wsp!RebuildProject(p) PROVE mods' \in WsModules
    <3> DEFINE s == [v \in WsVersions |-> IF v \in mods.packages[p] \cap WsNeedBuild /\ mods.store[p][v] = "fresh"
                                         THEN "built" ELSE mods.store[p][v]]
    <3>1. s \in [WsVersions -> {"absent", "fresh", "built"}]
      BY DEF WorkspaceTypes, WsModules
    <3>2. mods' = [mods EXCEPT !.store[p] = s]
      BY <2>2 DEF Wsp!RebuildProject, WorkspaceTypes, WsModules
    <3> QED BY <3>1, <3>2, StoreTyped DEF WorkspaceTypes
  <2> QED BY <2>1, <2>2
<1> QED BY <1>1, <1>2 DEF Wsp!StartRebuild, Wsp!RebuildProject, WorkspaceTypes

LEMMA ConcludeTyped ==
  ASSUME Wsp!WorkspaceAssumption, WorkspaceTypes, Wsp!Conclude PROVE WorkspaceTypes'
<1> DEFINE installed == UNION {Wsp!Mutated(d) : d \in {e \in Wsp!Dirs : calls[e].phase = "done"}}
<1>1. installed \subseteq WsProjects
  BY DEF Wsp!Mutated, Wsp!Of
<1>2. command' \in WsCommandsMade
  BY DEF Wsp!Conclude, WorkspaceTypes, WsCommandsMade, Wsp!Rest
<1>3. state' \in WsStates
  BY DEF Wsp!Conclude, WorkspaceTypes, WsStates, Wsp!FilteredInstall
<1>4. calls' \in [WsProjects -> WsCalls]
  BY NoCallTyped DEF Wsp!Conclude, WorkspaceTypes, WsCalls
<1>5. past' \in WsPasts
  <2> HIDE DEF installed
  <2>1. {p \in state.newer : ~command.only \/ calls[Wsp!Dir(p)].how = "filtered"} \ installed \subseteq WsProjects
    BY DEF WorkspaceTypes, WsStates
  <2>2. [d \in WsProjects |-> IF calls[d].phase = "done" THEN {} ELSE past.broke[d]] \in [WsProjects -> SUBSET WsLocks]
    BY DEF WorkspaceTypes, WsPasts
  <2> QED BY <1>1, <2>1, <2>2 DEF Wsp!Conclude, WorkspaceTypes, WsPasts, installed
<1> QED BY <1>2, <1>3, <1>4, <1>5 DEF Wsp!Conclude, WorkspaceTypes

LEMMA BrokenTyped ==
  ASSUME Wsp!WorkspaceAssumption, WorkspaceTypes, NEW ds \in SUBSET WsProjects PROVE Wsp!Broken(ds) \in WsPasts
<1>1. \A d \in WsProjects : {calls[d].target} \in SUBSET WsLocks
  BY DEF WorkspaceTypes, WsCalls
<1> QED BY <1>1 DEF Wsp!Broken, WorkspaceTypes, WsPasts

LEMMA BreaksTyped ==
  ASSUME Wsp!WorkspaceAssumption, WorkspaceTypes,
         Wsp!Exit \/ Wsp!Kill \/ \E d \in Wsp!Dirs : Wsp!Fail(d)
  PROVE  WorkspaceTypes'
<1>1. Wsp!Broken(Wsp!Dirs) \in WsPasts /\ \A d \in Wsp!Dirs : Wsp!Broken({d}) \in WsPasts
  BY BrokenTyped, WsDirsAre
<1>2. spent.breaks < MaxBreaks => [spent EXCEPT !.breaks = @ + 1] \in WsSpents
  BY ConstantsAre DEF WorkspaceTypes, WsSpents
<1>3. CASE Wsp!Stop /\ spent' \in WsSpents
  <2>1. calls' \in [WsProjects -> WsCalls]
    BY <1>3, NoCallTyped DEF Wsp!Stop
  <2>2. command' \in WsCommandsMade
    BY <1>3 DEF Wsp!Stop, WorkspaceTypes, WsCommandsMade, Wsp!Rest
  <2> QED BY <1>1, <1>3, <2>1, <2>2 DEF Wsp!Stop, WorkspaceTypes
<1>4. ASSUME NEW d \in Wsp!Dirs, Wsp!Fail(d) PROVE WorkspaceTypes'
  <2>1. calls' \in [WsProjects -> WsCalls]
    BY <1>4, PhaseTyped, WsDirsAre DEF Wsp!Fail, WsPhases
  <2>2. command' \in WsCommandsMade
    BY <1>4 DEF Wsp!Fail, WorkspaceTypes, WsCommandsMade, Wsp!Rest
  <2> QED BY <1>1, <1>2, <1>4, <2>1, <2>2 DEF Wsp!Fail, WorkspaceTypes
<1> QED BY <1>2, <1>3, <1>4 DEF Wsp!Exit, Wsp!Kill, WorkspaceTypes

LEMMA EditTyped ==
  ASSUME Wsp!WorkspaceAssumption, WorkspaceTypes, Wsp!Edited
  PROVE  /\ spent' \in WsSpents /\ command' \in WsCommandsMade /\ calls' \in [WsProjects -> WsCalls]
         /\ oneLockfile' \in BOOLEAN
<1>1. spent' \in WsSpents
  BY ConstantsAre DEF Wsp!Edited, WorkspaceTypes, WsSpents
<1> QED BY <1>1, NoCommandTyped, NoCallTyped DEF Wsp!Edited, WorkspaceTypes

LEMMA EditManifestTyped ==
  ASSUME Wsp!WorkspaceAssumption, WorkspaceTypes, NEW p \in WsProjects, NEW v \in WsVersions \cup {Wsp!NoDep},
         Wsp!EditManifest(p, v)
  PROVE  WorkspaceTypes'
<1>1. v \in Wsp!Importers
  BY ConstantsAre
<1>2. [ws.manifest EXCEPT ![p] = v] \in WsLocks
  BY <1>1 DEF WorkspaceTypes, WsLocks
<1>3. ws' = [ws EXCEPT !.manifest = [ws.manifest EXCEPT ![p] = v], !.here = ws.here \cup {p}]
  BY DEF Wsp!EditManifest, WorkspaceTypes
<1>4. ws' \in [here : SUBSET WsProjects, manifest : WsLocks, lock : WsLocks]
  BY <1>2, <1>3 DEF WorkspaceTypes
<1>5. state' \in WsStates
  BY DEF Wsp!EditManifest, WorkspaceTypes, WsStates
<1>6. past' \in WsPasts
  BY DEF Wsp!EditManifest, WorkspaceTypes, WsPasts
<1> QED BY <1>4, <1>5, <1>6, EditTyped DEF Wsp!EditManifest, WorkspaceTypes

LEMMA RemoveProjectTyped ==
  ASSUME Wsp!WorkspaceAssumption, WorkspaceTypes, NEW p \in WsProjects, Wsp!RemoveProject(p)
  PROVE  WorkspaceTypes'
<1>1. \A l \in WsLocks : [l EXCEPT ![p] = Wsp!Absent] \in WsLocks
  BY ConstantsAre DEF WsLocks
<1>2. ws' \in [here : SUBSET WsProjects, manifest : WsLocks, lock : WsLocks]
  BY <1>1 DEF Wsp!RemoveProject, WorkspaceTypes
<1>3. /\ [mods.packages EXCEPT ![p] = {}] \in [WsProjects -> SUBSET WsVersions]
      /\ [mods.store EXCEPT ![p] = [v \in WsVersions |-> "absent"]] \in [WsProjects -> [WsVersions -> {"absent", "fresh", "built"}]]
      /\ [mods.link EXCEPT ![p] = Wsp!NoDep] \in [WsProjects -> WsVersions \cup {Wsp!NoDep}]
  BY DEF WorkspaceTypes, WsModules
<1>4. mods' \in WsModules
  BY <1>1, <1>3 DEF Wsp!RemoveProject, WorkspaceTypes, WsModules
<1>5. state' \in WsStates
  BY DEF Wsp!RemoveProject, WorkspaceTypes, WsStates
<1>6. past' \in WsPasts
  <2>1. [past.broke EXCEPT ![p] = {}] \in [WsProjects -> SUBSET WsLocks]
    BY DEF WorkspaceTypes, WsPasts
  <2> DEFINE broke == IF oneLockfile THEN past.broke ELSE [past.broke EXCEPT ![p] = {}]
  <2>2. broke \in [WsProjects -> SUBSET WsLocks]
    BY <2>1 DEF WorkspaceTypes, WsPasts
  <2>3. past' = [past EXCEPT !.settled = @ \ {p}, !.missed = @ \ {p}, !.strays = @ \ {p}, !.broke = broke]
    BY DEF Wsp!RemoveProject
  <2> HIDE DEF broke
  <2> QED BY <2>2, <2>3 DEF WorkspaceTypes, WsPasts
<1> QED BY <1>2, <1>4, <1>5, <1>6, EditTyped DEF Wsp!RemoveProject, WorkspaceTypes

\* What a step of a call leaves alone

\* The command goes on, with the same selection.
GoesOn ==
  /\ {command.phase, command'.phase} \subseteq {"running", "bailing"}
  /\ command'.name = command.name /\ command'.sel = command.sel /\ command'.hit = command.hit
  /\ command'.version = command.version /\ command'.only = command.only /\ command'.left = command.left
  /\ oneLockfile' = oneLockfile /\ ws'.here = ws.here
  /\ past.harmed \subseteq past'.harmed /\ past.strays \subseteq past'.strays

\* A directory, and its projects, that a step is not about
Aside(e) ==
  /\ calls'[e] = calls[e] /\ mods'.store[e] = mods.store[e] /\ mods'.packages[e] = mods.packages[e]
  /\ past'.broke[e] = past.broke[e]
  /\ \A p \in Wsp!Of(e) : /\ ws'.manifest[p] = ws.manifest[p] /\ ws'.lock[p] = ws.lock[p]
                          /\ mods'.link[p] = mods.link[p] /\ mods'.current[p] = mods.current[p]

LEMMA SetsStay ==
  ASSUME oneLockfile' = oneLockfile, ws'.here = ws.here, command'.hit = command.hit, command'.sel = command.sel
  PROVE  /\ \A p : Wsp!Dir(p)' = Wsp!Dir(p)
         /\ \A d : Wsp!Of(d)' = Wsp!Of(d) /\ Wsp!Mutated(d)' = Wsp!Mutated(d)
         /\ Wsp!Dirs' = Wsp!Dirs /\ Wsp!PruneLockfileImporters' = Wsp!PruneLockfileImporters
<1>1. ASSUME NEW p PROVE Wsp!Dir(p)' = Wsp!Dir(p)
  BY DEF Wsp!Dir
<1>2. ASSUME NEW d PROVE Wsp!Of(d)' = Wsp!Of(d)
  BY DEF Wsp!Of, Wsp!Dir
<1>3. ASSUME NEW d PROVE Wsp!Mutated(d)' = Wsp!Mutated(d)
  BY <1>2 DEF Wsp!Mutated
<1>4. Wsp!Dirs' = Wsp!Dirs
  BY DEF Wsp!Dirs, Wsp!Dir
<1>5. Wsp!PruneLockfileImporters' = Wsp!PruneLockfileImporters
  BY DEF Wsp!PruneLockfileImporters
<1> QED BY <1>1, <1>2, <1>3, <1>4, <1>5

LEMMA IdsAre ==
  ASSUME NEW l, NEW d PROVE Wsp!Ids(l, d) = {p \in Wsp!Of(d) : l[p] # Wsp!Absent}
BY DEF Wsp!Ids

LEMMA PlannedStays ==
  ASSUME WorkspaceTypes, GoesOn, NEW e \in WsProjects, Aside(e), Begun(e)' , Begun(e) => Planned(e)
  PROVE  Begun(e) /\ Planned(e)'
<1>1. /\ Wsp!Of(e)' = Wsp!Of(e) /\ Wsp!Mutated(e)' = Wsp!Mutated(e) /\ Wsp!Dirs' = Wsp!Dirs
      /\ Wsp!PruneLockfileImporters' = Wsp!PruneLockfileImporters
  BY SetsStay DEF GoesOn
<1>2. Begun(e) /\ calls'[e] = calls[e]
  BY <1>1 DEF GoesOn, Aside, Begun, Underway
<1>3. Planned(e)
  BY <1>2
<1>4. \A p \in Wsp!Of(e) : Wsp!WantedOf(p)' = Wsp!WantedOf(p) /\ ws'.manifest[p] = ws.manifest[p] /\ ws'.lock[p] = ws.lock[p]
  <2>1. TAKE p \in Wsp!Of(e)
  <2>2. ws'.manifest[p] = ws.manifest[p] /\ ws'.lock[p] = ws.lock[p]
    BY DEF Aside
  <2>3. Wsp!WantedOf(p)' = Wsp!WantedOf(p)
    BY <2>2 DEF Wsp!WantedOf, GoesOn
  <2> QED BY <2>2, <2>3
<1>5. Wsp!Ids(calls[e].target, e)' = Wsp!Ids(calls[e].target, e)
  BY <1>1, <1>2 DEF Wsp!Ids
<1>6. /\ \A p \in Wsp!Of(e)' \cap ws'.here : calls'[e].target[p] = Wsp!WantedOf(p)'
      /\ \A p \in (command'.hit \cap Wsp!Of(e)') \ calls'[e].save : ws'.manifest[p] = Wsp!WantedOf(p)'
  BY <1>1, <1>2, <1>3, <1>4 DEF GoesOn, Planned
<1>7. Sound(e)' => Sound(e)
  BY DEF GoesOn, Sound
<1> QED BY <1>1, <1>2, <1>3, <1>4, <1>5, <1>6, <1>7 DEF Planned, GoesOn, Aside

LEMMA CarriedStays ==
  ASSUME WorkspaceTypes, GoesOn, NEW e \in WsProjects, Aside(e), Begun(e)', Sound(e)',
         Begun(e) /\ Sound(e) => Carried(e)
  PROVE  Carried(e)'
<1>1. Wsp!Of(e)' = Wsp!Of(e) /\ Wsp!Mutated(e)' = Wsp!Mutated(e) /\ Wsp!Dirs' = Wsp!Dirs
  BY SetsStay DEF GoesOn
<1>2. Begun(e) /\ Sound(e) /\ calls'[e] = calls[e]
  BY <1>1 DEF GoesOn, Aside, Begun, Underway, Sound
<1>3. Carried(e)
  BY <1>2
<1>4. Wsp!Mutated(e) \subseteq Wsp!Of(e)
  BY DEF Wsp!Mutated
<1>5. Wsp!PackagesOf(calls[e].target, Wsp!Mutated(e))' = Wsp!PackagesOf(calls[e].target, Wsp!Mutated(e))
  BY <1>1, <1>2 DEF Wsp!PackagesOf
<1>6. Through(e)' = Through(e)
  BY <1>2 DEF Through, GoesOn
<1>7. ASSUME NEW v PROVE HasStored(e, v)' = HasStored(e, v)
  BY <1>2 DEF HasStored, GoesOn, Aside
<1>8. command'.phase # "rebuilding"
  BY DEF GoesOn
<1>9. /\ \A p \in Wsp!Mutated(e) : mods'.link[p] = mods.link[p]
      /\ past.strays \subseteq past'.strays
  BY <1>4 DEF Aside, GoesOn
<1>10. mods'.packages[e] = mods.packages[e] /\ oneLockfile' = oneLockfile
  BY DEF Aside, GoesOn
<1>11. HasPackages(e)'
  <2>1. HasPackages(e)
    BY <1>3 DEF Carried
  <2>2. ASSUME NEW v PROVE HasStored(e, v) => HasStored(e, v)'
    BY <1>7
  <2> QED BY <1>2, <1>5, <1>6, <2>1, <2>2 DEF HasPackages
<1>12. HasUnlinked(e)'
  BY <1>1, <1>2, <1>3, <1>6, <1>9 DEF Carried, HasUnlinked
<1>13. HasLinked(e)'
  BY <1>1, <1>2, <1>3, <1>6, <1>9 DEF Carried, HasLinked
<1>14. HasRecorded(e)'
  BY <1>1, <1>2, <1>3, <1>5, <1>6, <1>8, <1>10 DEF Carried, HasRecorded
<1> QED BY <1>11, <1>12, <1>13, <1>14 DEF Carried

LEMMA LinkStays ==
  ASSUME WorkspaceTypes, GoesOn, NEW e \in WsProjects, Aside(e), NEW p \in Wsp!Of(e), LinkFits(p)
  PROVE  LinkFits(p)'
<1>1. Wsp!Dir(p)' = e /\ Wsp!Dir(p) = e
  BY SetsStay DEF GoesOn, Wsp!Of
<1>2. mods'.link[p] = mods.link[p] /\ mods'.current[p] = mods.current[p] /\ calls'[e] = calls[e]
      /\ past'.broke[e] = past.broke[e]
  BY DEF Aside
<1>3. Recorded(e)' = Recorded(e) /\ (Sound(e)' => Sound(e))
  BY <1>2 DEF Recorded, GoesOn, Underway, Sound
<1>4. LinkIs(p, e) => LinkIs(p, e)'
  BY <1>2, <1>3 DEF LinkIs, GoesOn
<1> QED BY <1>1, <1>2, <1>3, <1>4 DEF LinkFits, GoesOn

\* What is settled stays so where nothing is taken away.
LEMMA SettledStays ==
  ASSUME NEW p \in WsProjects, Settled(p), oneLockfile' = oneLockfile, p \in ws'.here,
         ws'.manifest[p] = ws.manifest[p], mods'.link[p] = mods.link[p],
         \/ mods'.store[Wsp!Dir(p)][ws.manifest[p]] = mods.store[Wsp!Dir(p)][ws.manifest[p]]
         \/ /\ mods.store[Wsp!Dir(p)][ws.manifest[p]] = "fresh"
            /\ mods'.store[Wsp!Dir(p)][ws.manifest[p]] = "built"
         \/ ws.manifest[p] = Wsp!NoDep,
         p \in past.strays => p \in past'.strays,
         Underway' => p \notin Wsp!Mutated(Wsp!Dir(p))'
  PROVE  Settled(p)'
<1>1. Wsp!Dir(p)' = Wsp!Dir(p)
  BY DEF Wsp!Dir
<1>2. Wsp!Usable(p)
  BY DEF Settled
<1>3. Wsp!Usable(p)'
  BY <1>1, <1>2 DEF Wsp!Usable
<1> QED BY <1>1, <1>3 DEF Settled

\* A step of a call
LEMMA CallIs ==
  ASSUME Wsp!WorkspaceAssumption, WorkspaceInv, NEW d \in Wsp!Dirs, calls[d].phase \in Wsp!Active
  PROVE  /\ d \in WsProjects /\ command.phase \in {"running", "bailing"}
         /\ Begun(d) /\ Planned(d) /\ (Sound(d) => Carried(d))
         /\ Wsp!Mutated(d) \subseteq Wsp!Of(d) \cap ws.here
         /\ \A p \in Wsp!Of(d) \cap ws.here : calls[d].target[p] \in WsVersions \cup {Wsp!NoDep}
         /\ \A p \in (Wsp!Of(d) \cap ws.here) \ Wsp!Mutated(d) : calls[d].target[p] = ws.manifest[p]
<1>1. d \in WsProjects
  BY WsDirsAre
<1>2. command.phase \in {"running", "bailing"}
  BY <1>1 DEF WorkspaceInv, CommandFits, Underway, Wsp!AllEnded, Wsp!Active, WorkspaceTypes, WsCommandsMade
<1>3. Begun(d)
  BY <1>2 DEF Begun, Underway
<1>4. Planned(d) /\ (Sound(d) => Carried(d))
  BY <1>1, <1>3 DEF WorkspaceInv
<1>5. Wsp!Mutated(d) \subseteq Wsp!Of(d) \cap ws.here
  BY DEF WorkspaceInv, CommandFits, Wsp!Mutated
<1>6. \A p \in Wsp!Of(d) \cap ws.here : Wsp!WantedOf(p) \in WsVersions \cup {Wsp!NoDep}
  BY ConstantsAre, WsDirsAre DEF WorkspaceInv, WorkspaceTypes, WsLocks, WsCommandsMade, CommandFits, Wsp!WantedOf
<1>7. \A p \in (Wsp!Of(d) \cap ws.here) \ Wsp!Mutated(d) : calls[d].target[p] = ws.manifest[p]
  BY <1>4 DEF Planned, Wsp!WantedOf, Wsp!Mutated
<1> QED BY <1>1, <1>2, <1>3, <1>4, <1>5, <1>6, <1>7 DEF Planned

LEMMA CallStep ==
  ASSUME Wsp!WorkspaceAssumption, WorkspaceInv, WorkspaceTypes', GoesOn, NEW d \in Wsp!Dirs,
         calls[d].phase # "idle", calls'[d].phase # "idle",
         \A e \in WsProjects : e # d => Aside(e),
         \A p \in Wsp!Of(d) : p \in ws'.here <=> ws'.manifest[p] # Wsp!Absent,
         Begun(d)' => Planned(d)' /\ (Sound(d)' => Carried(d)'),
         \A p \in Wsp!Of(d) : LinkFits(p)',
         d = WsRoot => StoreFits',
         \A p \in past'.settled : Settled(p)'
  PROVE  WorkspaceInv'
<1>1. /\ \A p : Wsp!Dir(p)' = Wsp!Dir(p)
      /\ \A e : Wsp!Of(e)' = Wsp!Of(e) /\ Wsp!Mutated(e)' = Wsp!Mutated(e)
      /\ Wsp!Dirs' = Wsp!Dirs
  BY SetsStay DEF GoesOn
<1>2. CommandFits'
  <2>1. ASSUME NEW p \in WsProjects PROVE p \in ws'.here <=> ws'.manifest[p] # Wsp!Absent
    <3>1. CASE Wsp!Dir(p) = d
      BY <3>1 DEF Wsp!Of
    <3>2. CASE Wsp!Dir(p) # d
      BY <3>2, WsDirsAre DEF Aside, GoesOn, WorkspaceInv, CommandFits
    <3> QED BY <3>1, <3>2
  <2>2. /\ command'.hit \subseteq command'.sel /\ command'.left \subseteq command'.sel
        /\ command'.sel \subseteq ws'.here
    BY DEF GoesOn, WorkspaceInv, CommandFits
  <2>3. Underway /\ Underway' /\ command'.phase # "rebuilding"
    BY DEF GoesOn, Underway
  <2>4. \A e \in WsProjects : (calls'[e].phase # "idle") = (calls[e].phase # "idle")
    BY DEF Aside
  <2>5. \A e \in WsProjects : calls[e].phase # "idle" => \E p \in command.hit : Wsp!Dir(p) = e
    BY <2>3 DEF WorkspaceInv, CommandFits
  <2>6. \A p \in command.hit : calls[Wsp!Dir(p)].phase # "idle" /\ Wsp!Dir(p) \in WsProjects
    BY <2>3, WsDirsAre DEF WorkspaceInv, CommandFits, WorkspaceTypes, WsCommandsMade
  <2>7. \A e \in WsProjects : calls'[e].phase # "idle" => \E p \in command'.hit : Wsp!Dir(p)' = e
    BY <1>1, <2>4, <2>5 DEF GoesOn
  <2>8. \A p \in command'.hit : calls'[Wsp!Dir(p)'].phase # "idle"
    BY <1>1, <2>4, <2>6 DEF GoesOn
  <2> QED BY <2>1, <2>2, <2>3, <2>7, <2>8 DEF CommandFits
<1>3. ASSUME NEW e \in WsProjects, Begun(e)' PROVE Planned(e)' /\ (Sound(e)' => Carried(e)')
  <2>1. CASE e = d
    BY <1>3, <2>1
  <2>2. CASE e # d
    BY <1>3, <2>2, PlannedStays, CarriedStays DEF WorkspaceInv
  <2> QED BY <2>1, <2>2
<1>4. ASSUME NEW p \in WsProjects PROVE LinkFits(p)'
  <2>1. CASE Wsp!Dir(p) = d
    BY <2>1 DEF Wsp!Of
  <2>2. CASE Wsp!Dir(p) # d
    BY <2>2, LinkStays, WsDirsAre DEF WorkspaceInv
  <2> QED BY <2>1, <2>2
<1>5. StoreFits'
  <2>1. CASE oneLockfile
    <3>1. d = WsRoot
      BY <2>1, WsDirsAre
    <3> QED BY <3>1
  <2>2. CASE ~oneLockfile
    BY <2>2 DEF StoreFits, GoesOn
  <2> QED BY <2>1, <2>2
<1> QED BY <1>2, <1>3, <1>4, <1>5 DEF WorkspaceInv

LEMMA StartKeeps ==
  ASSUME Wsp!WorkspaceAssumption, WorkspaceInv, NEW d \in Wsp!Dirs, Wsp!Start(d)
  PROVE  WorkspaceInv'
<1>1. d \in WsProjects /\ WorkspaceTypes /\ command.phase \in {"running", "bailing"} /\ calls[d].phase = "waiting"
  BY WsDirsAre DEF WorkspaceInv, Wsp!Start
<1>2. WorkspaceTypes'
  BY <1>1, StartTyped
<1>3. /\ UNCHANGED <<oneLockfile, ws, mods, state, command, spent>>
      /\ past' = [past EXCEPT !.harmed = IF past.broke[d] \subseteq {calls'[d].target} THEN @ ELSE @ \cup {d}]
      /\ \A e \in WsProjects : e # d => calls'[e] = calls[e]
  BY <1>1 DEF Wsp!Start, WorkspaceTypes
<1>4. /\ past'.broke = past.broke /\ past'.strays = past.strays /\ past'.settled = past.settled
      /\ past.harmed \subseteq past'.harmed
      /\ Sound(d)' => past.broke[d] \subseteq {calls'[d].target}
  BY <1>1, <1>3 DEF WorkspaceTypes, WsPasts, Sound
<1>5. GoesOn /\ \A e \in WsProjects : e # d => Aside(e)
  BY <1>1, <1>3, <1>4 DEF GoesOn, Aside
<1>6. /\ calls'[d].phase \in {"lock", "prune"} /\ "current" \in calls'[d].write
      /\ calls'[d].save = {p \in command.hit \cap Wsp!Of(d) : ws.manifest[p] # Wsp!WantedOf(p)}
      /\ calls'[d].partial => calls'[d].how = "full"
      /\ calls'[d].how = "full" => Wsp!Mutated(d) = Wsp!Of(d) \cap ws.here
      /\ calls'[d].how = "frozen" => Wsp!FrozenIsPossible(d) /\ calls'[d].target = Wsp!ReadWanted(d)
      /\ calls'[d].how # "frozen" => calls'[d].target = Wsp!Resolved(d)
      /\ calls'[d].phase = "prune" => "wanted" \in calls'[d].write \/ calls'[d].target = ws.lock
  BY <1>1 DEF Wsp!Start, WorkspaceTypes, WsCalls, Wsp!NoCall
<1>7. \A p \in Wsp!Of(d) \cap ws.here : p \in WsProjects /\ Wsp!WantedOf(p) # Wsp!Absent
  BY ConstantsAre, WsDirsAre DEF WorkspaceInv, WorkspaceTypes, WsCommandsMade, CommandFits, Wsp!WantedOf
<1>8. \A p \in Wsp!Of(d) \cap ws.here : calls'[d].target[p] = Wsp!WantedOf(p)
  <2>1. CASE calls'[d].how = "frozen"
    <3>1. \A p \in Wsp!Of(d) \cap ws.here : calls'[d].target[p] = ws.manifest[p]
      BY <1>6, <2>1 DEF Wsp!FrozenIsPossible
    <3> QED BY <1>6, <2>1, <3>1 DEF Wsp!FrozenIsPossible, Wsp!WantedOf
  <2>2. CASE calls'[d].how # "frozen"
    BY <1>6, <1>7, <2>2 DEF Wsp!Resolved
  <2> QED BY <2>1, <2>2
<1>9. Wsp!PruneLockfileImporters => Wsp!Ids(calls'[d].target, d) = Wsp!Of(d) \cap ws.here
  <2>1. CASE calls'[d].how = "frozen"
    BY <1>6, <2>1 DEF Wsp!FrozenIsPossible
  <2>2. CASE calls'[d].how # "frozen"
    BY <1>6, <1>7, <1>8, <2>2, WsDirsAre DEF Wsp!Resolved, Wsp!Ids
  <2> QED BY <2>1, <2>2
<1>10. Planned(d)'
  <2>1. /\ Wsp!Of(d)' = Wsp!Of(d) /\ Wsp!Mutated(d)' = Wsp!Mutated(d)
        /\ Wsp!PruneLockfileImporters' = Wsp!PruneLockfileImporters
    BY <1>3, SetsStay
  <2>2. ASSUME NEW p PROVE Wsp!WantedOf(p)' = Wsp!WantedOf(p)
    BY <1>3 DEF Wsp!WantedOf
  <2>3. Wsp!Ids(calls[d].target, d)' = Wsp!Ids(calls'[d].target, d)
    BY <2>1 DEF Wsp!Ids
  <2>4. \A p \in Wsp!Of(d)' \cap ws'.here : calls'[d].target[p] = Wsp!WantedOf(p)'
    BY <1>3, <1>8, <2>1, <2>2
  <2>5. \A p \in (command'.hit \cap Wsp!Of(d)') \ calls'[d].save : ws'.manifest[p] = Wsp!WantedOf(p)'
    BY <1>3, <1>6, <2>1, <2>2
  <2>6. calls'[d].save \subseteq command'.hit \cap Wsp!Of(d)'
    BY <1>3, <1>6, <2>1
  <2> QED BY <1>3, <1>4, <1>6, <1>9, <2>1, <2>3, <2>4, <2>5, <2>6 DEF Planned
<1>11. Carried(d)'
  BY <1>6 DEF Carried, HasPackages, HasUnlinked, HasLinked, HasRecorded, Through
<1>12. ASSUME NEW p \in Wsp!Of(d) PROVE LinkFits(p)'
  <2>1. p \in WsProjects /\ Wsp!Dir(p) = d /\ Wsp!Dir(p)' = d
    BY <1>3, WsDirsAre, SetsStay
  <2>2. LinkFits(p) /\ (Sound(d)' => Sound(d))
    BY <1>4, <2>1 DEF WorkspaceInv, Sound
  <2>3. LinkIs(p, d) => LinkIs(p, d)'
    BY <1>1, <1>3, <1>4, <1>6 DEF LinkIs, Recorded
  <2> QED BY <1>3, <2>1, <2>2, <2>3 DEF LinkFits
<1>13. d = WsRoot => StoreFits'
  BY <1>1, <1>3, <1>4, <1>6 DEF WorkspaceInv, StoreFits, Sound
<1>14. ASSUME NEW p \in past'.settled PROVE Settled(p)'
  <2>1. p \in WsProjects /\ Settled(p)
    BY <1>1, <1>4, <1>14 DEF WorkspaceInv, WorkspaceTypes, WsPasts
  <2>2. Underway => p \notin Wsp!Mutated(Wsp!Dir(p))
    BY <2>1 DEF Settled
  <2>3. Underway' => p \notin Wsp!Mutated(Wsp!Dir(p))'
    BY <1>3, <2>2 DEF Underway, Wsp!Mutated, Wsp!Of, Wsp!Dir
  <2> QED BY <1>3, <1>4, <2>1, <2>3, SettledStays DEF Settled
<1>15. \A p \in Wsp!Of(d) : p \in ws'.here <=> ws'.manifest[p] # Wsp!Absent
  BY <1>3, WsDirsAre DEF WorkspaceInv, CommandFits
<1> QED BY <1>1, <1>2, <1>5, <1>6, <1>10, <1>11, <1>12, <1>13, <1>14, <1>15, CallStep

\* A step changes the virtual store or links.
ModulesStep(d) ==
  /\ UNCHANGED <<oneLockfile, ws, state, command, past, spent>>
  /\ mods'.current = mods.current /\ mods'.packages = mods.packages
  /\ calls[d].phase \in {"prune", "import", "link", "build"} /\ calls'[d].phase \in {"import", "link", "build", "write"}
  /\ calls'[d].target = calls[d].target /\ calls'[d].how = calls[d].how /\ calls'[d].save = calls[d].save
  /\ calls'[d].write = calls[d].write /\ calls'[d].partial = calls[d].partial
  /\ \A e \in WsProjects : e # d => calls'[e] = calls[e] /\ mods'.store[e] = mods.store[e]
  /\ \A p \in WsProjects : p \notin Wsp!Mutated(d) => mods'.link[p] = mods.link[p]

LEMMA ModulesStepKeeps ==
  ASSUME Wsp!WorkspaceAssumption, WorkspaceInv, WorkspaceTypes', NEW d \in Wsp!Dirs, ModulesStep(d),
         Sound(d) => HasPackages(d)' /\ HasUnlinked(d)' /\ HasLinked(d)',
         \A p \in Wsp!Mutated(d) : LinkFits(p) => LinkFits(p)',
         calls'[d].phase \in {"build", "write"} \/ calls[d].phase \notin {"build", "write"},
         d = WsRoot /\ Sound(d) => StoreFits',
         \A v \in WsVersions : \/ mods'.store[d][v] = mods.store[d][v]
                               \/ mods.store[d][v] = "fresh" /\ mods'.store[d][v] = "built"
                               \/ mods.store[d][v] = "absent"
                               \/ v \notin Wsp!Needed(d)
  PROVE  WorkspaceInv'
<1>1. /\ d \in WsProjects /\ command.phase \in {"running", "bailing"}
      /\ Begun(d) /\ Planned(d) /\ (Sound(d) => Carried(d)) /\ WorkspaceTypes
      /\ Wsp!Mutated(d) \subseteq Wsp!Of(d) \cap ws.here
      /\ \A p \in (Wsp!Of(d) \cap ws.here) \ Wsp!Mutated(d) : calls[d].target[p] = ws.manifest[p]
  BY CallIs DEF ModulesStep, Wsp!Active, WorkspaceInv
<1>2. /\ \A p : Wsp!Dir(p)' = Wsp!Dir(p)
      /\ Wsp!Of(d)' = Wsp!Of(d) /\ Wsp!Mutated(d)' = Wsp!Mutated(d)
      /\ Wsp!PruneLockfileImporters' = Wsp!PruneLockfileImporters
  BY SetsStay DEF ModulesStep
<1>3. GoesOn
  BY <1>1 DEF GoesOn, ModulesStep
<1>4. ASSUME NEW e \in WsProjects, e # d PROVE Aside(e)
  <2>1. \A p \in Wsp!Of(e) : p \in WsProjects /\ p \notin Wsp!Mutated(d)
    BY <1>1, <1>4, WsDirsAre
  <2> QED BY <1>4, <2>1 DEF Aside, ModulesStep
<1>5. Planned(d)'
  <2>1. ASSUME NEW p PROVE Wsp!WantedOf(p)' = Wsp!WantedOf(p)
    BY DEF Wsp!WantedOf, ModulesStep
  <2>2. Wsp!Ids(calls[d].target, d)' = Wsp!Ids(calls[d].target, d)
    BY <1>2 DEF Wsp!Ids, ModulesStep
  <2>3. Sound(d)' = Sound(d)
    BY DEF Sound, ModulesStep
  <2> QED BY <1>1, <1>2, <2>1, <2>2, <2>3 DEF Planned, ModulesStep
<1>6. Sound(d)' => Carried(d)'
  <2>1. "current" \in calls'[d].write
    BY <1>1 DEF Planned, ModulesStep
  <2>2. HasRecorded(d)'
    BY <2>1 DEF HasRecorded, ModulesStep, Through
  <2> QED BY <2>2 DEF Carried, Sound, ModulesStep
<1>7. ASSUME NEW p \in Wsp!Of(d) PROVE LinkFits(p)'
  <2>1. p \in WsProjects /\ Wsp!Dir(p) = d /\ LinkFits(p)
    BY WsDirsAre DEF WorkspaceInv
  <2>2. CASE p \in Wsp!Mutated(d)
    BY <2>1, <2>2
  <2>3. CASE p \notin Wsp!Mutated(d)
    <3>1. mods'.link[p] = mods.link[p]
      BY <2>1, <2>3 DEF ModulesStep
    <3>2. "current" \in calls[d].write
      BY <1>1 DEF Planned, ModulesStep
    <3>3. LinkIs(p, d) => LinkIs(p, d)'
      BY <3>1, <3>2 DEF LinkIs, Recorded, ModulesStep
    <3> QED BY <1>2, <2>1, <3>1, <3>3 DEF LinkFits, ModulesStep, Sound
  <2> QED BY <2>2, <2>3
<1>8. ASSUME NEW p \in past'.settled PROVE Settled(p)'
  <2>1. p \in WsProjects /\ Settled(p) /\ Wsp!Dir(p) \in WsProjects
    BY <1>1, WsDirsAre DEF WorkspaceInv, WorkspaceTypes, WsPasts, ModulesStep
  <2>2. p \in ws.here /\ p \notin Wsp!Mutated(Wsp!Dir(p)) /\ Wsp!Usable(p) /\ ws.manifest[p] \in WsVersions \cup {Wsp!NoDep}
    <3>1. p \in ws.here /\ p \notin Wsp!Mutated(Wsp!Dir(p)) /\ Wsp!Usable(p)
      BY <1>1, <2>1 DEF Settled, Underway
    <3> QED BY <2>1, <3>1, ConstantsAre DEF WorkspaceInv, WorkspaceTypes, WsLocks, CommandFits
  <2>3. p \notin Wsp!Mutated(d)
    BY <1>1, <2>2, WsDirsAre
  <2>4. mods'.link[p] = mods.link[p] /\ UNCHANGED <<oneLockfile, ws, command, past>>
    BY <2>1, <2>3 DEF ModulesStep
  <2>5. \/ mods'.store[Wsp!Dir(p)][ws.manifest[p]] = mods.store[Wsp!Dir(p)][ws.manifest[p]]
        \/ /\ mods.store[Wsp!Dir(p)][ws.manifest[p]] = "fresh"
           /\ mods'.store[Wsp!Dir(p)][ws.manifest[p]] = "built"
        \/ ws.manifest[p] = Wsp!NoDep
    <3>1. CASE Wsp!Dir(p) # d
      BY <2>1, <3>1 DEF ModulesStep
    <3>2. CASE Wsp!Dir(p) = d /\ ws.manifest[p] # Wsp!NoDep
      <4>1. p \in Wsp!Of(d)
        BY <2>1, <3>2, WsDirsAre
      <4>2. calls[d].target[p] = ws.manifest[p] /\ ws.manifest[p] \in WsVersions
        BY <1>1, <2>2, <2>3, <3>2, <4>1
      <4>3. ws.manifest[p] \in Wsp!Needed(d)
        BY <4>1, <4>2 DEF Wsp!Needed, Wsp!PackagesOf
      <4>4. mods.store[d][ws.manifest[p]] # "absent"
        BY <2>2, <3>2 DEF Wsp!Usable
      <4> QED BY <3>2, <4>2, <4>3, <4>4
    <3> QED BY <3>1, <3>2
  <2>6. p \notin Wsp!Mutated(Wsp!Dir(p))'
    BY <2>2, <2>4 DEF Wsp!Mutated, Wsp!Of, Wsp!Dir
  <2> QED BY <2>1, <2>2, <2>4, <2>5, <2>6, SettledStays
<1>9. \A p \in Wsp!Of(d) : p \in ws'.here <=> ws'.manifest[p] # Wsp!Absent
  BY WsDirsAre DEF WorkspaceInv, CommandFits, ModulesStep
<1>10. d = WsRoot => StoreFits'
  <2>1. CASE Sound(d)
    BY <2>1
  <2>2. CASE ~Sound(d)
    BY <2>2 DEF StoreFits, Sound, ModulesStep
  <2> QED BY <2>1, <2>2
<1>11. calls[d].phase # "idle" /\ calls'[d].phase # "idle"
  BY DEF ModulesStep
<1> QED BY <1>3, <1>4, <1>5, <1>6, <1>7, <1>8, <1>9, <1>10, <1>11, CallStep

LEMMA WsImportKeeps ==
  ASSUME Wsp!WorkspaceAssumption, WorkspaceInv, NEW d \in Wsp!Dirs, Wsp!Import(d)
  PROVE  WorkspaceInv'
<1>1. calls[d].phase = "import"
  BY DEF Wsp!Import
<1>2. /\ d \in WsProjects /\ Planned(d) /\ (Sound(d) => Carried(d)) /\ WorkspaceTypes
      /\ Wsp!Mutated(d) \subseteq Wsp!Of(d) \cap ws.here
  BY <1>1, CallIs DEF Wsp!Active, WorkspaceInv
<1>3. WorkspaceTypes'
  BY <1>2, ImportTyped
<1> DEFINE packages == Wsp!PackagesOf(calls[d].target, Wsp!Mutated(d))
           New(v) == v \notin mods.packages[d] \/ mods.store[d][v] = "absent"
<1>4. /\ UNCHANGED <<oneLockfile, ws, state, command, past, spent>>
      /\ calls'[d] = [calls[d] EXCEPT !.phase = "link", !.build = {v \in packages : New(v)} \cap WsNeedBuild]
      /\ \A e \in WsProjects : e # d => calls'[e] = calls[e] /\ mods'.store[e] = mods.store[e]
      /\ mods'.link = mods.link /\ mods'.current = mods.current /\ mods'.packages = mods.packages
      /\ \A v \in WsVersions : mods'.store[d][v] =
           IF v \in packages /\ New(v) /\ mods.store[d][v] = "absent" THEN "fresh" ELSE mods.store[d][v]
  BY <1>2 DEF Wsp!Import, WorkspaceTypes, WsModules
<1>5. /\ calls'[d].phase = "link" /\ calls'[d].build = {v \in packages : New(v)} \cap WsNeedBuild
      /\ calls'[d].target = calls[d].target /\ calls'[d].how = calls[d].how /\ calls'[d].save = calls[d].save
      /\ calls'[d].write = calls[d].write /\ calls'[d].partial = calls[d].partial
  BY <1>2, <1>4 DEF WorkspaceTypes, WsCalls
<1>6. ModulesStep(d)
  BY <1>1, <1>4, <1>5 DEF ModulesStep
<1>7. Wsp!Mutated(d)' = Wsp!Mutated(d) /\ Wsp!PackagesOf(calls[d].target, Wsp!Mutated(d))' = packages
  BY <1>4, <1>5, SetsStay DEF Wsp!PackagesOf
<1>8. packages \subseteq WsVersions
  BY DEF Wsp!PackagesOf
<1>9. \A v \in mods.packages[d] \cap WsNeedBuild : oneLockfile /\ Sound(d) =>
        mods.store[d][v] \in {"absent", "built"}
  BY <1>1, <1>2, WsDirsAre DEF WorkspaceInv, StoreFits
<1> HIDE DEF packages
<1>10. Sound(d) => HasPackages(d)' /\ HasUnlinked(d)' /\ HasLinked(d)'
  <2>1. ASSUME Sound(d), NEW v \in packages PROVE HasStored(d, v)'
    BY <1>4, <1>5, <1>8, <1>9, <2>1 DEF HasStored
  <2>2. Sound(d) => HasPackages(d)'
    BY <1>7, <2>1 DEF HasPackages
  <2>3. Sound(d) => HasUnlinked(d)'
    BY <1>1, <1>2, <1>4, <1>5, <1>7 DEF HasUnlinked, Carried
  <2>4. HasLinked(d)'
    BY <1>5 DEF HasLinked, Through
  <2> QED BY <2>2, <2>3, <2>4
<1>11. ASSUME NEW p \in Wsp!Mutated(d), LinkFits(p) PROVE LinkFits(p)'
  <2>1. Wsp!Dir(p) = d /\ Wsp!Dir(p)' = d
    BY <1>2, <1>4, SetsStay, WsDirsAre
  <2>2. LinkIs(p, d) => LinkIs(p, d)'
    BY <1>1, <1>4, <1>5 DEF LinkIs, Recorded
  <2> QED BY <1>4, <1>11, <2>1, <2>2 DEF LinkFits, Sound
<1>12. d = WsRoot /\ Sound(d) => StoreFits'
  <2>1. SUFFICES ASSUME d = WsRoot, Sound(d), oneLockfile, NEW v \in mods.packages[d] \cap WsNeedBuild
                 PROVE  \/ mods'.store[d][v] \in {"absent", "built"}
                        \/ calls'[d].phase \in {"link", "build"} /\ v \in calls'[d].build
    BY <1>4 DEF StoreFits
  <2>2. v \in WsVersions
    BY <1>2, <2>1 DEF WorkspaceTypes, WsModules
  <2>3. mods.store[d][v] \in {"absent", "built"}
    BY <1>9, <2>1
  <2> QED BY <1>4, <1>5, <2>1, <2>2, <2>3
<1> QED BY <1>1, <1>3, <1>4, <1>5, <1>6, <1>10, <1>11, <1>12, ModulesStepKeeps

LEMMA WsBuildKeeps ==
  ASSUME Wsp!WorkspaceAssumption, WorkspaceInv, NEW d \in Wsp!Dirs, Wsp!Build(d)
  PROVE  WorkspaceInv'
<1>1. calls[d].phase = "build"
  BY DEF Wsp!Build
<1>2. /\ d \in WsProjects /\ Planned(d) /\ (Sound(d) => Carried(d)) /\ WorkspaceTypes
      /\ Wsp!Mutated(d) \subseteq Wsp!Of(d) \cap ws.here
  BY <1>1, CallIs DEF Wsp!Active, WorkspaceInv
<1>3. WorkspaceTypes'
  BY <1>2, BuildTyped
<1> DEFINE packages == Wsp!PackagesOf(calls[d].target, Wsp!Mutated(d))
<1>4. /\ UNCHANGED <<oneLockfile, ws, state, command, past, spent>>
      /\ calls'[d] = [calls[d] EXCEPT !.phase = "write"]
      /\ \A e \in WsProjects : e # d => calls'[e] = calls[e] /\ mods'.store[e] = mods.store[e]
      /\ mods'.link = mods.link /\ mods'.current = mods.current /\ mods'.packages = mods.packages
      /\ \A v \in WsVersions : mods'.store[d][v] = IF oneLockfile /\ v \in calls[d].build THEN "built" ELSE mods.store[d][v]
  BY <1>2 DEF Wsp!Build, WorkspaceTypes, WsModules
<1>5. /\ calls'[d].phase = "write"
      /\ calls'[d].target = calls[d].target /\ calls'[d].how = calls[d].how /\ calls'[d].save = calls[d].save
      /\ calls'[d].write = calls[d].write /\ calls'[d].partial = calls[d].partial
  BY <1>2, <1>4 DEF WorkspaceTypes, WsCalls
<1>6. ModulesStep(d)
  BY <1>1, <1>4, <1>5 DEF ModulesStep
<1>7. Wsp!Mutated(d)' = Wsp!Mutated(d) /\ Wsp!PackagesOf(calls[d].target, Wsp!Mutated(d))' = packages
  BY <1>4, <1>5, SetsStay DEF Wsp!PackagesOf
<1>8. packages \subseteq WsVersions
  BY DEF Wsp!PackagesOf
<1> HIDE DEF packages
<1>9. Sound(d) => HasPackages(d) /\ HasUnlinked(d) /\ HasLinked(d)
  BY <1>2 DEF Carried
<1>10. Sound(d) => HasPackages(d)' /\ HasUnlinked(d)' /\ HasLinked(d)'
  <2>1. ASSUME Sound(d), NEW v \in packages PROVE HasStored(d, v)'
    <3>1. HasStored(d, v)
      BY <1>1, <1>9, <2>1 DEF HasPackages, packages
    <3> QED BY <1>4, <1>8, <3>1 DEF HasStored
  <2>2. Sound(d) => HasPackages(d)'
    BY <1>7, <2>1 DEF HasPackages
  <2>3. Sound(d) => HasUnlinked(d)' /\ HasLinked(d)'
    BY <1>1, <1>4, <1>5, <1>7, <1>9 DEF HasUnlinked, HasLinked
  <2> QED BY <2>2, <2>3
<1>11. ASSUME NEW p \in Wsp!Mutated(d), LinkFits(p) PROVE LinkFits(p)'
  <2>1. Wsp!Dir(p) = d /\ Wsp!Dir(p)' = d
    BY <1>2, <1>4, SetsStay, WsDirsAre
  <2>2. "current" \in calls[d].write
    BY <1>1, <1>2 DEF Planned
  <2>3. LinkIs(p, d) => LinkIs(p, d)'
    BY <1>1, <1>4, <1>5, <2>2 DEF LinkIs, Recorded
  <2> QED BY <1>4, <1>11, <2>1, <2>3 DEF LinkFits, Sound
<1>12. d = WsRoot /\ Sound(d) => StoreFits'
  <2>1. SUFFICES ASSUME d = WsRoot, Sound(d), oneLockfile, NEW v \in mods.packages[d] \cap WsNeedBuild
                 PROVE  mods'.store[d][v] \in {"absent", "built"}
    BY <1>4 DEF StoreFits
  <2>2. v \in WsVersions
    BY <1>2, <2>1 DEF WorkspaceTypes, WsModules
  <2>3. mods.store[d][v] \in {"absent", "built"} \/ v \in calls[d].build
    BY <2>1 DEF WorkspaceInv, StoreFits
  <2> QED BY <1>4, <2>1, <2>2, <2>3
<1>13. \A v \in WsVersions : mods.store[d][v] \in {"absent", "fresh", "built"}
  BY <1>2 DEF WorkspaceTypes, WsModules
<1>14. \A v \in WsVersions : \/ mods'.store[d][v] = mods.store[d][v]
                             \/ mods.store[d][v] = "fresh" /\ mods'.store[d][v] = "built"
                             \/ mods.store[d][v] = "absent"
                             \/ v \notin Wsp!Needed(d)
  BY <1>4, <1>13
<1>15. calls'[d].phase \in {"build", "write"}
  BY <1>5
<1> QED BY <1>3, <1>6, <1>10, <1>11, <1>12, <1>14, <1>15, ModulesStepKeeps

LEMMA WsLinkDirectKeeps ==
  ASSUME Wsp!WorkspaceAssumption, WorkspaceInv, NEW d \in Wsp!Dirs, Wsp!LinkDirect(d)
  PROVE  WorkspaceInv'
<1>1. calls[d].phase = "link"
  BY DEF Wsp!LinkDirect
<1>2. /\ d \in WsProjects /\ Planned(d) /\ (Sound(d) => Carried(d)) /\ WorkspaceTypes
      /\ Wsp!Mutated(d) \subseteq Wsp!Of(d) \cap ws.here
      /\ \A p \in Wsp!Of(d) \cap ws.here : calls[d].target[p] \in WsVersions \cup {Wsp!NoDep}
  BY <1>1, CallIs DEF Wsp!Active, WorkspaceInv
<1>3. WorkspaceTypes'
  BY <1>2, LinkDirectTyped, ConstantsAre
<1> DEFINE packages == Wsp!PackagesOf(calls[d].target, Wsp!Mutated(d))
<1>4. /\ UNCHANGED <<oneLockfile, ws, state, command, past, spent>>
      /\ calls'[d] = [calls[d] EXCEPT !.phase = "build"]
      /\ \A e \in WsProjects : e # d => calls'[e] = calls[e]
      /\ mods'.store = mods.store /\ mods'.current = mods.current /\ mods'.packages = mods.packages
      /\ \A p \in WsProjects : mods'.link[p] =
           IF p \in Wsp!Mutated(d) /\ calls[d].target[p] # Wsp!NoDep THEN calls[d].target[p] ELSE mods.link[p]
  BY <1>2 DEF Wsp!LinkDirect, WorkspaceTypes, WsModules
<1>5. /\ calls'[d].phase = "build" /\ calls'[d].build = calls[d].build
      /\ calls'[d].target = calls[d].target /\ calls'[d].how = calls[d].how /\ calls'[d].save = calls[d].save
      /\ calls'[d].write = calls[d].write /\ calls'[d].partial = calls[d].partial
  BY <1>2, <1>4 DEF WorkspaceTypes, WsCalls
<1>6. ModulesStep(d)
  BY <1>1, <1>4, <1>5 DEF ModulesStep
<1>7. Wsp!Mutated(d)' = Wsp!Mutated(d) /\ Wsp!PackagesOf(calls[d].target, Wsp!Mutated(d))' = packages
  BY <1>4, <1>5, SetsStay DEF Wsp!PackagesOf
<1>8. \A p \in Wsp!Mutated(d) : p \in WsProjects /\ Wsp!Dir(p) = d /\ p \in ws.here
  BY <1>2, WsDirsAre
<1>9. Sound(d) => HasPackages(d) /\ HasUnlinked(d)
  BY <1>2 DEF Carried
<1>10. Sound(d) => HasPackages(d)' /\ HasUnlinked(d)' /\ HasLinked(d)'
  <2>1. ASSUME Sound(d), NEW v \in packages PROVE HasStored(d, v)'
    <3>1. HasStored(d, v)
      BY <1>1, <1>9, <2>1 DEF HasPackages
    <3> QED BY <1>4, <1>5, <3>1 DEF HasStored
  <2> HIDE DEF packages
  <2>2. Sound(d) => HasPackages(d)'
    BY <1>7, <2>1 DEF HasPackages
  <2>3. Sound(d) => HasUnlinked(d)'
    BY <1>1, <1>4, <1>5, <1>7, <1>8, <1>9 DEF HasUnlinked
  <2>4. HasLinked(d)'
    BY <1>4, <1>5, <1>7, <1>8 DEF HasLinked
  <2> QED BY <2>2, <2>3, <2>4
<1>11. ASSUME NEW p \in Wsp!Mutated(d), LinkFits(p) PROVE LinkFits(p)'
  <2>1. Wsp!Dir(p) = d /\ Wsp!Dir(p)' = d
    BY <1>8, <1>4, SetsStay
  <2>2. "current" \in calls[d].write
    BY <1>1, <1>2 DEF Planned
  <2>3. LinkIs(p, d) => LinkIs(p, d)'
    BY <1>1, <1>4, <1>5, <1>8, <2>2 DEF LinkIs, Recorded
  <2> QED BY <1>4, <1>8, <1>11, <2>1, <2>3 DEF LinkFits, Sound
<1>12. d = WsRoot /\ Sound(d) => StoreFits'
  BY <1>1, <1>4, <1>5 DEF StoreFits, WorkspaceInv, Sound
<1> QED BY <1>1, <1>3, <1>4, <1>5, <1>6, <1>10, <1>11, <1>12, ModulesStepKeeps

LEMMA PruneModulesKeeps ==
  ASSUME Wsp!WorkspaceAssumption, WorkspaceInv, NEW d \in Wsp!Dirs, NEW b \in BOOLEAN, Wsp!PruneModules(d, b)
  PROVE  WorkspaceInv'
<1>1. calls[d].phase = "prune"
  BY DEF Wsp!PruneModules
<1>2. /\ d \in WsProjects /\ Planned(d) /\ WorkspaceTypes
      /\ Wsp!Mutated(d) \subseteq Wsp!Of(d) \cap ws.here
      /\ \A p \in Wsp!Of(d) \cap ws.here : calls[d].target[p] \in WsVersions \cup {Wsp!NoDep}
  BY <1>1, CallIs DEF Wsp!Active, WorkspaceInv
<1>3. WorkspaceTypes'
  BY <1>2, PruneModulesTyped
<1> DEFINE gone == {p \in Wsp!Mutated(d) : mods.current[p] \in WsVersions /\ mods.current[p] # calls[d].target[p]}
<1>4. /\ UNCHANGED <<oneLockfile, ws, state, command, past, spent>>
      /\ calls'[d] = [calls[d] EXCEPT !.phase = "import"]
      /\ \A e \in WsProjects : e # d => calls'[e] = calls[e] /\ mods'.store[e] = mods.store[e]
      /\ mods'.current = mods.current /\ mods'.packages = mods.packages
      /\ \A p \in WsProjects : mods'.link[p] = IF p \in gone THEN Wsp!NoDep ELSE mods.link[p]
      /\ \A v \in WsVersions : mods'.store[d][v] = IF b /\ v \notin Wsp!Needed(d) THEN "absent" ELSE mods.store[d][v]
  BY <1>2 DEF Wsp!PruneModules, WorkspaceTypes, WsModules
<1>5. /\ calls'[d].phase = "import"
      /\ calls'[d].target = calls[d].target /\ calls'[d].how = calls[d].how /\ calls'[d].save = calls[d].save
      /\ calls'[d].write = calls[d].write /\ calls'[d].partial = calls[d].partial
  BY <1>2, <1>4 DEF WorkspaceTypes, WsCalls
<1>6. ModulesStep(d)
  BY <1>1, <1>4, <1>5 DEF ModulesStep
<1>7. \A p \in Wsp!Mutated(d) : p \in WsProjects /\ Wsp!Dir(p) = d /\ p \in ws.here
  BY <1>2, WsDirsAre
<1>8. Sound(d) => HasPackages(d)' /\ HasUnlinked(d)' /\ HasLinked(d)'
  <2>1. HasPackages(d)' /\ HasLinked(d)'
    BY <1>5 DEF HasPackages, HasLinked, Through
  <2>2. ASSUME Sound(d), NEW p \in Wsp!Mutated(d), calls[d].target[p] = Wsp!NoDep
        PROVE  mods'.link[p] = Wsp!NoDep \/ p \in past.strays
    <3>1. LinkIs(p, d) /\ p \in WsProjects
      BY <1>7, <2>2 DEF WorkspaceInv, LinkFits
    <3>2. \A l \in past.broke[d] : l[p] = Wsp!NoDep
      BY <1>2, <2>2 DEF Planned
    <3>3. mods.link[p] \in WsVersions \cup {Wsp!NoDep} /\ mods.current[p] \in Wsp!Importers
      BY <1>2, <3>1 DEF WorkspaceTypes, WsModules, WsLocks
    <3>4. p \in past.strays \/ mods.link[p] \in {Wsp!NoDep, mods.current[p]}
      BY <1>1, <3>1, <3>2 DEF LinkIs
    <3>5. CASE mods.link[p] = mods.current[p] /\ mods.link[p] \in WsVersions
      <4>1. p \in gone
        BY <2>2, <3>5, ConstantsAre
      <4> QED BY <1>4, <3>1, <4>1
    <3> QED BY <1>4, <3>1, <3>3, <3>4, <3>5
  <2>3. Wsp!Mutated(d)' = Wsp!Mutated(d)
    BY <1>4, SetsStay
  <2>4. Sound(d) => HasUnlinked(d)'
    BY <1>4, <1>5, <2>2, <2>3 DEF HasUnlinked
  <2> QED BY <2>1, <2>4
<1>9. ASSUME NEW p \in Wsp!Mutated(d), LinkFits(p) PROVE LinkFits(p)'
  <2>1. Wsp!Dir(p) = d /\ Wsp!Dir(p)' = d
    BY <1>7, <1>4, SetsStay
  <2>2. mods'.link[p] = Wsp!NoDep \/ mods'.link[p] = mods.link[p]
    BY <1>4, <1>7
  <2>3. LinkIs(p, d) => LinkIs(p, d)'
    BY <1>1, <1>4, <1>5, <2>2 DEF LinkIs, Recorded
  <2> QED BY <1>4, <1>7, <1>9, <2>1, <2>3 DEF LinkFits, Sound
<1>10. d = WsRoot /\ Sound(d) => StoreFits'
  <2>1. SUFFICES ASSUME d = WsRoot, Sound(d), oneLockfile, NEW v \in mods.packages[d] \cap WsNeedBuild
                 PROVE  mods'.store[d][v] \in {"absent", "built"}
    BY <1>4 DEF StoreFits
  <2>2. v \in WsVersions
    BY <1>2, <2>1 DEF WorkspaceTypes, WsModules
  <2>3. mods.store[d][v] \in {"absent", "built"}
    BY <1>1, <2>1 DEF WorkspaceInv, StoreFits
  <2> QED BY <1>4, <2>1, <2>2, <2>3
<1>11. \A v \in WsVersions : mods'.store[d][v] = mods.store[d][v] \/ v \notin Wsp!Needed(d)
  BY <1>4
<1> QED BY <1>1, <1>3, <1>5, <1>6, <1>8, <1>9, <1>10, <1>11, ModulesStepKeeps

\* What is settled stays so if modules are left alone.
LEMMA SettledRest ==
  ASSUME Wsp!WorkspaceAssumption, WorkspaceInv, GoesOn, NEW p \in past.settled,
         mods'.link[p] = mods.link[p], mods'.store = mods.store,
         ws'.manifest[p] = ws.manifest[p] \/ p \in Wsp!Mutated(Wsp!Dir(p))
  PROVE  Settled(p)'
<1>1. p \in WsProjects /\ Settled(p)
  BY DEF WorkspaceInv, WorkspaceTypes, WsPasts
<1>2. p \in ws.here /\ p \notin Wsp!Mutated(Wsp!Dir(p)) /\ Underway
  BY <1>1 DEF Settled, GoesOn, Underway
<1>3. p \notin Wsp!Mutated(Wsp!Dir(p))'
  BY <1>2 DEF Wsp!Mutated, Wsp!Of, Wsp!Dir, GoesOn
<1> QED BY <1>1, <1>2, <1>3, SettledStays DEF GoesOn

LEMMA WriteLockfileFirstKeeps ==
  ASSUME Wsp!WorkspaceAssumption, WorkspaceInv, NEW d \in Wsp!Dirs, Wsp!WriteLockfileFirst(d)
  PROVE  WorkspaceInv'
<1>1. calls[d].phase = "lock"
  BY DEF Wsp!WriteLockfileFirst
<1>2. /\ d \in WsProjects /\ Planned(d) /\ WorkspaceTypes /\ command.phase \in {"running", "bailing"}
  BY <1>1, CallIs DEF Wsp!Active, WorkspaceInv
<1>3. WorkspaceTypes'
  BY <1>2, WriteLockfileFirstTyped
<1>4. /\ UNCHANGED <<oneLockfile, mods, command, past, spent>>
      /\ \A e \in WsProjects : e # d => calls'[e] = calls[e]
      /\ ws'.here = ws.here /\ ws'.manifest = ws.manifest
      /\ \A p \in WsProjects : ws'.lock[p] = IF p \in Wsp!Of(d) THEN calls[d].target[p] ELSE ws.lock[p]
  BY <1>2 DEF Wsp!WriteLockfileFirst, Wsp!SetLock, WorkspaceTypes
<1>5. /\ calls'[d].phase \in {"prune", "save", "done"}
      /\ calls'[d].phase = "done" => calls[d].save = {}
      /\ calls'[d].phase \in {"save", "done"} => command.only
      /\ calls'[d].target = calls[d].target /\ calls'[d].how = calls[d].how /\ calls'[d].save = calls[d].save
      /\ calls'[d].write = calls[d].write /\ calls'[d].partial = calls[d].partial
  BY <1>2 DEF Wsp!WriteLockfileFirst, Wsp!Saving, WorkspaceTypes, WsCalls
<1>6. GoesOn
  BY <1>2, <1>4 DEF GoesOn
<1>7. \A e \in WsProjects : e # d => Aside(e)
  BY <1>4, WsDirsAre DEF Aside
<1>8. /\ Wsp!Of(d)' = Wsp!Of(d) /\ Wsp!Mutated(d)' = Wsp!Mutated(d) /\ \A p : Wsp!Dir(p)' = Wsp!Dir(p)
      /\ Wsp!PruneLockfileImporters' = Wsp!PruneLockfileImporters
  BY <1>4, SetsStay
<1>9. \A p \in Wsp!Of(d) : ws'.lock[p] = calls[d].target[p]
  BY <1>4, WsDirsAre
<1>10. Planned(d)'
  <2>1. ASSUME NEW p PROVE Wsp!WantedOf(p)' = Wsp!WantedOf(p)
    BY <1>4 DEF Wsp!WantedOf
  <2>2. Wsp!Ids(calls[d].target, d)' = Wsp!Ids(calls[d].target, d)
    BY <1>5, <1>8 DEF Wsp!Ids
  <2> QED BY <1>1, <1>2, <1>4, <1>5, <1>8, <1>9, <2>1, <2>2 DEF Planned, Sound
<1>11. Carried(d)'
  BY <1>4, <1>5 DEF Carried, HasPackages, HasUnlinked, HasLinked, HasRecorded, Through
<1>12. ASSUME NEW p \in Wsp!Of(d) PROVE LinkFits(p)'
  <2>1. LinkFits(p) /\ Wsp!Dir(p) = d /\ Wsp!Dir(p)' = d
    BY <1>8, WsDirsAre DEF WorkspaceInv
  <2>2. "current" \in calls[d].write
    BY <1>1, <1>2 DEF Planned
  <2>3. LinkIs(p, d) => LinkIs(p, d)'
    BY <1>1, <1>4, <1>5, <2>2 DEF LinkIs, Recorded
  <2> QED BY <1>4, <2>1, <2>3 DEF LinkFits, Sound
<1>13. d = WsRoot => StoreFits'
  BY <1>1, <1>4 DEF WorkspaceInv, StoreFits, Sound
<1>14. \A p \in past'.settled : Settled(p)'
  BY <1>4, <1>6, SettledRest
<1>15. \A p \in Wsp!Of(d) : p \in ws'.here <=> ws'.manifest[p] # Wsp!Absent
  BY <1>4, WsDirsAre DEF WorkspaceInv, CommandFits
<1> QED BY <1>1, <1>3, <1>5, <1>6, <1>7, <1>10, <1>11, <1>12, <1>13, <1>14, <1>15, CallStep

LEMMA SaveManifestKeeps ==
  ASSUME Wsp!WorkspaceAssumption, WorkspaceInv, NEW d \in Wsp!Dirs, NEW p \in Wsp!Of(d), Wsp!SaveManifest(d, p)
  PROVE  WorkspaceInv'
<1>1. calls[d].phase = "save" /\ p \in calls[d].save
  BY DEF Wsp!SaveManifest
<1>2. /\ d \in WsProjects /\ Planned(d) /\ (Sound(d) => Carried(d)) /\ WorkspaceTypes
      /\ command.phase \in {"running", "bailing"}
      /\ \A q \in Wsp!Of(d) \cap ws.here : calls[d].target[q] \in WsVersions \cup {Wsp!NoDep}
  BY <1>1, CallIs DEF Wsp!Active, WorkspaceInv
<1>3. p \in WsProjects /\ p \in command.hit /\ p \in ws.here
  BY <1>1, <1>2, WsDirsAre DEF Planned, WorkspaceInv, CommandFits
<1>4. WorkspaceTypes'
  BY <1>2, <1>3, SaveManifestTyped
<1>5. /\ UNCHANGED <<oneLockfile, mods, command, past, spent>>
      /\ \A e \in WsProjects : e # d => calls'[e] = calls[e]
      /\ ws'.here = ws.here /\ ws'.lock = ws.lock
      /\ \A q \in WsProjects : ws'.manifest[q] = IF q = p THEN calls[d].target[p] ELSE ws.manifest[q]
  BY <1>2 DEF Wsp!SaveManifest, WorkspaceTypes, WsLocks
<1>6. /\ calls'[d].phase \in {"save", "done"} /\ calls'[d].save = calls[d].save \ {p}
      /\ calls'[d].phase = "done" => calls'[d].save = {}
      /\ calls'[d].target = calls[d].target /\ calls'[d].how = calls[d].how
      /\ calls'[d].write = calls[d].write /\ calls'[d].partial = calls[d].partial
  BY <1>2 DEF Wsp!SaveManifest, Wsp!Saving, WorkspaceTypes, WsCalls
<1>7. GoesOn
  BY <1>2, <1>5 DEF GoesOn
<1>8. \A e \in WsProjects : e # d => Aside(e)
  BY <1>5, WsDirsAre DEF Aside
<1>9. /\ Wsp!Of(d)' = Wsp!Of(d) /\ Wsp!Mutated(d)' = Wsp!Mutated(d) /\ \A q : Wsp!Dir(q)' = Wsp!Dir(q)
      /\ Wsp!PruneLockfileImporters' = Wsp!PruneLockfileImporters
  BY <1>5, SetsStay
<1>10. calls[d].target[p] = Wsp!WantedOf(p)
  BY <1>2, <1>3 DEF Planned
<1>11. \A q \in WsProjects : Wsp!WantedOf(q)' = Wsp!WantedOf(q)
  <2>1. TAKE q \in WsProjects
  <2>2. CASE q = p
    BY <1>5, <1>10, <2>2 DEF Wsp!WantedOf
  <2>3. CASE q # p
    BY <1>5, <2>3 DEF Wsp!WantedOf
  <2> QED BY <2>2, <2>3
<1>12. Planned(d)'
  <2>1. Wsp!Ids(calls[d].target, d)' = Wsp!Ids(calls[d].target, d)
    BY <1>6, <1>9 DEF Wsp!Ids
  <2>2. \A q \in (command'.hit \cap Wsp!Of(d)') \ calls'[d].save : ws'.manifest[q] = Wsp!WantedOf(q)'
    BY <1>2, <1>5, <1>6, <1>9, <1>10, <1>11, WsDirsAre DEF Planned
  <2>3. \A q \in Wsp!Of(d)' \cap ws'.here : calls'[d].target[q] = Wsp!WantedOf(q)'
    BY <1>2, <1>5, <1>6, <1>9, <1>11, WsDirsAre DEF Planned
  <2> QED BY <1>1, <1>2, <1>5, <1>6, <1>9, <2>1, <2>2, <2>3 DEF Planned, Sound
<1>13. Sound(d)' => Carried(d)'
  <2>1. Wsp!PackagesOf(calls[d].target, Wsp!Mutated(d))' = Wsp!PackagesOf(calls[d].target, Wsp!Mutated(d))
    BY <1>6, <1>9 DEF Wsp!PackagesOf
  <2>2. Through(d)' = Through(d) /\ command.phase # "rebuilding" /\ (Sound(d)' => Sound(d))
    BY <1>1, <1>2, <1>5, <1>6 DEF Through, Sound
  <2>3. ASSUME NEW v, HasStored(d, v) PROVE HasStored(d, v)'
    BY <1>1, <1>5, <1>6, <2>3 DEF HasStored
  <2>4. Sound(d) => HasPackages(d)'
    BY <1>1, <1>2, <1>6, <2>1, <2>2, <2>3 DEF HasPackages, Carried
  <2>5. Sound(d) => HasUnlinked(d)' /\ HasLinked(d)'
    BY <1>1, <1>2, <1>5, <1>6, <1>9, <2>2 DEF HasUnlinked, HasLinked, Carried
  <2>6. Sound(d) => HasRecorded(d)'
    BY <1>1, <1>2, <1>5, <1>6, <2>1, <2>2 DEF HasRecorded, Carried
  <2> QED BY <2>2, <2>4, <2>5, <2>6 DEF Carried
<1>14. ASSUME NEW q \in Wsp!Of(d) PROVE LinkFits(q)'
  <2>1. LinkFits(q) /\ Wsp!Dir(q) = d /\ Wsp!Dir(q)' = d
    BY <1>9, WsDirsAre DEF WorkspaceInv
  <2>2. LinkIs(q, d) => LinkIs(q, d)'
    BY <1>1, <1>2, <1>5, <1>6 DEF LinkIs, Recorded, Underway
  <2> QED BY <1>5, <2>1, <2>2 DEF LinkFits, Sound
<1>15. d = WsRoot => StoreFits'
  BY <1>1, <1>5 DEF WorkspaceInv, StoreFits, Sound
<1>16. ASSUME NEW q \in past'.settled PROVE Settled(q)'
  <2>1. q \in past.settled /\ q \in WsProjects
    BY <1>2, <1>5, <1>16 DEF WorkspaceTypes, WsPasts
  <2>2. q = p => q \in Wsp!Mutated(Wsp!Dir(q))
    BY <1>3, WsDirsAre DEF Wsp!Mutated
  <2> QED BY <1>5, <1>7, <2>1, <2>2, SettledRest
<1>17. \A q \in Wsp!Of(d) : q \in ws'.here <=> ws'.manifest[q] # Wsp!Absent
  BY <1>2, <1>3, <1>5, WsDirsAre, ConstantsAre DEF WorkspaceInv, CommandFits
<1>18. calls[d].phase # "idle" /\ calls'[d].phase # "idle"
  BY <1>1, <1>6
<1> QED BY <1>4, <1>7, <1>8, <1>12, <1>13, <1>14, <1>15, <1>16, <1>17, <1>18, CallStep

LEMMA WriteWantedKeeps ==
  ASSUME Wsp!WorkspaceAssumption, WorkspaceInv, NEW d \in Wsp!Dirs, Wsp!WriteLockfile(d, "wanted")
  PROVE  WorkspaceInv'
<1>1. calls[d].phase = "write" /\ "wanted" \in calls[d].write
  BY DEF Wsp!WriteLockfile
<1>2. /\ d \in WsProjects /\ Planned(d) /\ (Sound(d) => Carried(d)) /\ WorkspaceTypes
      /\ command.phase \in {"running", "bailing"}
  BY <1>1, CallIs DEF Wsp!Active, WorkspaceInv
<1>3. WorkspaceTypes'
  BY <1>2, WriteLockfileTyped
<1>4. /\ UNCHANGED <<oneLockfile, mods, command, past, spent>>
      /\ \A e \in WsProjects : e # d => calls'[e] = calls[e]
      /\ ws'.here = ws.here /\ ws'.manifest = ws.manifest
      /\ \A p \in WsProjects : ws'.lock[p] = IF p \in Wsp!Of(d) THEN calls[d].target[p] ELSE ws.lock[p]
  BY <1>2 DEF Wsp!WriteLockfile, Wsp!SetLock, WorkspaceTypes
<1>5. /\ calls'[d].write = calls[d].write \ {"wanted"}
      /\ calls'[d].write # {} => calls'[d].phase = "write"
      /\ calls'[d].write = {} => calls'[d].phase \in {"save", "done"}
      /\ calls'[d].phase = "done" => calls[d].save = {}
      /\ calls'[d].target = calls[d].target /\ calls'[d].how = calls[d].how /\ calls'[d].save = calls[d].save
      /\ calls'[d].partial = calls[d].partial
  <2> DEFINE written == [calls[d] EXCEPT !.write = @ \ {"wanted"}]
  <2>1. calls'[d] = IF written.write = {} THEN [written EXCEPT !.phase = Wsp!Saving(written)] ELSE written
    BY <1>2 DEF Wsp!WriteLockfile, WorkspaceTypes
  <2>2. written \in WsCalls /\ written.write = calls[d].write \ {"wanted"} /\ written.phase = "write"
        /\ written.target = calls[d].target /\ written.how = calls[d].how /\ written.save = calls[d].save
        /\ written.partial = calls[d].partial
    BY <1>1, <1>2 DEF WorkspaceTypes, WsCalls
  <2> HIDE DEF written
  <2> QED BY <2>1, <2>2 DEF WsCalls, Wsp!Saving
<1>6. GoesOn
  BY <1>2, <1>4 DEF GoesOn
<1>7. \A e \in WsProjects : e # d => Aside(e)
  BY <1>4, WsDirsAre DEF Aside
<1>8. /\ Wsp!Of(d)' = Wsp!Of(d) /\ Wsp!Mutated(d)' = Wsp!Mutated(d) /\ \A p : Wsp!Dir(p)' = Wsp!Dir(p)
      /\ Wsp!PruneLockfileImporters' = Wsp!PruneLockfileImporters
  BY <1>4, SetsStay
<1>9. \A p \in Wsp!Of(d) : ws'.lock[p] = calls[d].target[p]
  BY <1>4, WsDirsAre
<1>10. Planned(d)'
  <2>1. ASSUME NEW p PROVE Wsp!WantedOf(p)' = Wsp!WantedOf(p)
    BY <1>4 DEF Wsp!WantedOf
  <2>2. Wsp!Ids(calls[d].target, d)' = Wsp!Ids(calls[d].target, d)
    BY <1>5, <1>8 DEF Wsp!Ids
  <2>3. calls'[d].phase \in {"save", "done"} => "current" \notin calls'[d].write
    BY <1>5
  <2>4. calls'[d].phase \in {"write", "save", "done"}
    BY <1>5
  <2> QED BY <1>1, <1>2, <1>4, <1>5, <1>8, <1>9, <2>1, <2>2, <2>3, <2>4 DEF Planned, Sound
<1>11. ("current" \in calls'[d].write) = ("current" \in calls[d].write)
  BY <1>5
<1>12. Sound(d)' => Carried(d)'
  <2>1. Wsp!PackagesOf(calls[d].target, Wsp!Mutated(d))' = Wsp!PackagesOf(calls[d].target, Wsp!Mutated(d))
    BY <1>5, <1>8 DEF Wsp!PackagesOf
  <2>2. ASSUME NEW v, HasStored(d, v) PROVE HasStored(d, v)'
    BY <1>1, <1>4, <1>5, <2>2 DEF HasStored
  <2>3. (Sound(d)' => Sound(d)) /\ command.phase # "rebuilding"
    BY <1>2, <1>4 DEF Sound
  <2>4. Sound(d) => HasPackages(d)'
    BY <1>1, <1>2, <2>1, <2>2 DEF HasPackages, Carried
  <2>5. Sound(d) => HasUnlinked(d)' /\ HasLinked(d)'
    BY <1>1, <1>2, <1>4, <1>5, <1>8 DEF HasUnlinked, HasLinked, Carried
  <2>6. Sound(d) => HasRecorded(d)'
    BY <1>1, <1>2, <1>4, <1>5, <1>11, <2>1, <2>3 DEF HasRecorded, Carried, Through
  <2> QED BY <2>3, <2>4, <2>5, <2>6 DEF Carried
<1>13. ASSUME NEW p \in Wsp!Of(d) PROVE LinkFits(p)'
  <2>1. LinkFits(p) /\ Wsp!Dir(p) = d /\ Wsp!Dir(p)' = d
    BY <1>8, WsDirsAre DEF WorkspaceInv
  <2>2. LinkIs(p, d) => LinkIs(p, d)'
    BY <1>1, <1>2, <1>4, <1>5, <1>11 DEF LinkIs, Recorded, Underway
  <2> QED BY <1>4, <2>1, <2>2 DEF LinkFits, Sound
<1>14. d = WsRoot => StoreFits'
  BY <1>1, <1>4 DEF WorkspaceInv, StoreFits, Sound
<1>15. \A p \in past'.settled : Settled(p)'
  BY <1>4, <1>6, SettledRest
<1>16. \A p \in Wsp!Of(d) : p \in ws'.here <=> ws'.manifest[p] # Wsp!Absent
  BY <1>4, WsDirsAre DEF WorkspaceInv, CommandFits
<1>17. calls[d].phase # "idle" /\ calls'[d].phase # "idle"
  BY <1>1, <1>5
<1> QED BY <1>3, <1>6, <1>7, <1>10, <1>12, <1>13, <1>14, <1>15, <1>16, <1>17, CallStep

\* What the current lockfile will say of a project, and have.
LEMMA NewCurrentIs ==
  ASSUME Wsp!WorkspaceAssumption, WorkspaceInv, NEW d \in Wsp!Dirs, calls[d].phase = "write", Planned(d)
  PROVE  /\ \A p \in WsProjects \ Wsp!Of(d) : Wsp!NewCurrent(d)[p] = mods.current[p]
         /\ \A p \in Wsp!Of(d) \cap ws.here :
              \/ Wsp!NewCurrent(d)[p] = calls[d].target[p]
              \/ calls[d].target[p] \in {Wsp!NoDep, Wsp!Absent}
         /\ Wsp!NewPackages(d) \subseteq Wsp!PackagesOf(calls[d].target, Wsp!Mutated(d)) \cup mods.packages[d]
         /\ ~oneLockfile => Wsp!PackagesOf(calls[d].target, Wsp!Mutated(d)) \subseteq Wsp!NewPackages(d)
<1> DEFINE target == calls[d].target
           installed == Wsp!PackagesOf(target, Wsp!Mutated(d))
<1>1. WorkspaceTypes /\ d \in WsProjects
  BY WsDirsAre DEF WorkspaceInv
<1>2. target \in WsLocks /\ Wsp!Of(d) \subseteq WsProjects
  BY <1>1, WsDirsAre DEF WorkspaceTypes, WsCalls
<1>3. \A p \in WsProjects : Wsp!NewCurrent(d)[p] =
        IF p \notin Wsp!Of(d) THEN mods.current[p]
        ELSE IF Wsp!PackagesOf(target, Wsp!Of(d)) = {} THEN Wsp!Absent
        ELSE IF calls[d].partial /\ p \notin Wsp!Mutated(d) THEN mods.current[p] ELSE target[p]
  BY DEF Wsp!NewCurrent
<1>4. calls[d].partial => Wsp!Of(d) \cap ws.here \subseteq Wsp!Mutated(d)
  BY DEF Planned
<1>5. ASSUME NEW p \in Wsp!Of(d), Wsp!PackagesOf(target, Wsp!Of(d)) = {} PROVE target[p] \in {Wsp!NoDep, Wsp!Absent}
  BY <1>2, <1>5 DEF Wsp!PackagesOf, WsLocks, Wsp!Importers
<1>6. \A p \in Wsp!Of(d) \cap ws.here : Wsp!NewCurrent(d)[p] = target[p] \/ target[p] \in {Wsp!NoDep, Wsp!Absent}
  BY <1>2, <1>3, <1>4, <1>5
<1>7. Wsp!NewPackages(d) \subseteq installed \cup mods.packages[d]
  BY DEF Wsp!NewPackages
<1>8. ASSUME ~oneLockfile, NEW v \in installed PROVE v \in Wsp!NewPackages(d)
  <2>1. Wsp!Of(d) = {d} /\ Wsp!Mutated(d) \subseteq {d}
    BY <1>1, <1>8, WsDirsAre DEF Wsp!Mutated
  <2>2. d \in Wsp!Mutated(d) /\ v = target[d] /\ v \in WsVersions
    BY <1>8, <2>1 DEF Wsp!PackagesOf
  <2>3. Wsp!PackagesOf(target, Wsp!Of(d)) # {}
    BY <2>1, <2>2 DEF Wsp!PackagesOf
  <2>4. Wsp!NewCurrent(d)[d] = v
    BY <1>1, <1>3, <2>1, <2>2, <2>3
  <2>5. v \in Wsp!PackagesOf(Wsp!NewCurrent(d), Wsp!Of(d))
    BY <2>1, <2>2, <2>4 DEF Wsp!PackagesOf
  <2>6. Wsp!Ids(Wsp!NewCurrent(d), d) # {}
    BY <2>1, <2>2, <2>4, ConstantsAre DEF Wsp!Ids
  <2> QED BY <1>8, <2>5, <2>6 DEF Wsp!NewPackages
<1>9. \A p \in WsProjects \ Wsp!Of(d) : Wsp!NewCurrent(d)[p] = mods.current[p]
  BY <1>3
<1> QED BY <1>6, <1>7, <1>8, <1>9

LEMMA WriteCurrentKeeps ==
  ASSUME Wsp!WorkspaceAssumption, WorkspaceInv, NEW d \in Wsp!Dirs, Wsp!WriteLockfile(d, "current")
  PROVE  WorkspaceInv'
<1>1. calls[d].phase = "write" /\ "current" \in calls[d].write
  BY DEF Wsp!WriteLockfile
<1>2. /\ d \in WsProjects /\ Planned(d) /\ (Sound(d) => Carried(d)) /\ WorkspaceTypes
      /\ command.phase \in {"running", "bailing"}
      /\ Wsp!Mutated(d) \subseteq Wsp!Of(d) \cap ws.here
      /\ \A p \in Wsp!Of(d) \cap ws.here : calls[d].target[p] \in WsVersions \cup {Wsp!NoDep}
  BY <1>1, CallIs DEF Wsp!Active, WorkspaceInv
<1>3. WorkspaceTypes'
  BY <1>2, WriteLockfileTyped
<1> DEFINE astray == {p \in Wsp!Of(d) \cap ws.here : p \notin Wsp!Mutated(d) /\ mods.link[p] \notin {Wsp!NoDep, calls[d].target[p]}}
<1>4. /\ UNCHANGED <<oneLockfile, ws, state, command, spent>>
      /\ \A e \in WsProjects : e # d => calls'[e] = calls[e] /\ mods'.packages[e] = mods.packages[e]
      /\ mods'.store = mods.store /\ mods'.link = mods.link /\ mods'.current = Wsp!NewCurrent(d)
      /\ mods'.packages[d] = Wsp!NewPackages(d)
      /\ past' = [past EXCEPT !.strays = @ \cup astray]
  <2>1. mods' = [mods EXCEPT !.current = Wsp!NewCurrent(d), !.packages[d] = Wsp!NewPackages(d)]
    BY DEF Wsp!WriteLockfile
  <2>2. /\ mods'.store = mods.store /\ mods'.link = mods.link /\ mods'.current = Wsp!NewCurrent(d)
        /\ mods'.packages = [mods.packages EXCEPT ![d] = Wsp!NewPackages(d)]
    BY <1>2, <2>1 DEF WorkspaceTypes, WsModules
  <2>3. mods'.packages[d] = Wsp!NewPackages(d) /\ \A e \in WsProjects : e # d => mods'.packages[e] = mods.packages[e]
    BY <1>2, <2>2 DEF WorkspaceTypes, WsModules
  <2> QED BY <1>2, <2>2, <2>3 DEF Wsp!WriteLockfile, WorkspaceTypes
<1>5. /\ past'.strays = past.strays \cup astray /\ past'.broke = past.broke /\ past'.harmed = past.harmed
      /\ past'.settled = past.settled
  BY <1>2, <1>4 DEF WorkspaceTypes, WsPasts
<1>6. /\ calls'[d].write = calls[d].write \ {"current"}
      /\ calls'[d].write # {} => calls'[d].phase = "write"
      /\ calls'[d].write = {} => calls'[d].phase \in {"save", "done"}
      /\ calls'[d].phase = "done" => calls[d].save = {}
      /\ calls'[d].target = calls[d].target /\ calls'[d].how = calls[d].how /\ calls'[d].save = calls[d].save
      /\ calls'[d].partial = calls[d].partial
  <2> DEFINE written == [calls[d] EXCEPT !.write = @ \ {"current"}]
  <2>1. calls'[d] = IF written.write = {} THEN [written EXCEPT !.phase = Wsp!Saving(written)] ELSE written
    BY <1>2 DEF Wsp!WriteLockfile, WorkspaceTypes
  <2>2. written \in WsCalls /\ written.write = calls[d].write \ {"current"} /\ written.phase = "write"
        /\ written.target = calls[d].target /\ written.how = calls[d].how /\ written.save = calls[d].save
        /\ written.partial = calls[d].partial
    BY <1>1, <1>2 DEF WorkspaceTypes, WsCalls
  <2> HIDE DEF written
  <2> QED BY <2>1, <2>2 DEF WsCalls, Wsp!Saving
<1>7. GoesOn
  BY <1>2, <1>4, <1>5 DEF GoesOn
<1>8. /\ \A p \in WsProjects \ Wsp!Of(d) : mods'.current[p] = mods.current[p]
      /\ \A p \in Wsp!Of(d) \cap ws.here : mods'.current[p] = calls[d].target[p] \/ calls[d].target[p] = Wsp!NoDep
      /\ mods'.packages[d] \subseteq Wsp!PackagesOf(calls[d].target, Wsp!Mutated(d)) \cup mods.packages[d]
      /\ ~oneLockfile => Wsp!PackagesOf(calls[d].target, Wsp!Mutated(d)) \subseteq mods'.packages[d]
  BY <1>1, <1>2, <1>4, NewCurrentIs, ConstantsAre
<1>9. \A e \in WsProjects : e # d => Aside(e)
  BY <1>4, <1>5, <1>8, WsDirsAre DEF Aside
<1>10. /\ Wsp!Of(d)' = Wsp!Of(d) /\ Wsp!Mutated(d)' = Wsp!Mutated(d) /\ \A p : Wsp!Dir(p)' = Wsp!Dir(p)
       /\ Wsp!PruneLockfileImporters' = Wsp!PruneLockfileImporters
  BY <1>4, SetsStay
<1>11. Planned(d)'
  <2>1. ASSUME NEW p PROVE Wsp!WantedOf(p)' = Wsp!WantedOf(p)
    BY <1>4 DEF Wsp!WantedOf
  <2>2. Wsp!Ids(calls[d].target, d)' = Wsp!Ids(calls[d].target, d)
    BY <1>6, <1>10 DEF Wsp!Ids
  <2>3. "current" \notin calls'[d].write /\ calls'[d].phase \in {"write", "save", "done"}
    BY <1>6
  <2>4. "wanted" \in calls[d].write => calls'[d].phase = "write" /\ "wanted" \in calls'[d].write
    BY <1>6
  <2> QED BY <1>1, <1>2, <1>4, <1>5, <1>6, <1>10, <2>1, <2>2, <2>3, <2>4 DEF Planned, Sound
<1>12. Sound(d)' => Carried(d)'
  <2>1. Wsp!PackagesOf(calls[d].target, Wsp!Mutated(d))' = Wsp!PackagesOf(calls[d].target, Wsp!Mutated(d))
    BY <1>6, <1>10 DEF Wsp!PackagesOf
  <2>2. ASSUME NEW v, HasStored(d, v) PROVE HasStored(d, v)'
    BY <1>1, <1>4, <1>6, <2>2 DEF HasStored
  <2>3. (Sound(d)' => Sound(d)) /\ command.phase # "rebuilding"
    BY <1>2, <1>5 DEF Sound
  <2>4. Sound(d) => HasPackages(d)'
    BY <1>1, <1>2, <2>1, <2>2 DEF HasPackages, Carried
  <2>5. Sound(d) => HasUnlinked(d)' /\ HasLinked(d)'
    BY <1>1, <1>2, <1>4, <1>5, <1>6, <1>10 DEF HasUnlinked, HasLinked, Carried
  <2>6. HasRecorded(d)'
    BY <1>4, <1>8, <2>1, <2>3 DEF HasRecorded
  <2> QED BY <2>3, <2>4, <2>5, <2>6 DEF Carried
<1>13. ASSUME NEW p \in Wsp!Of(d) PROVE LinkFits(p)'
  <2>1. p \in WsProjects /\ LinkFits(p) /\ Wsp!Dir(p) = d /\ Wsp!Dir(p)' = d
    BY <1>10, WsDirsAre DEF WorkspaceInv
  <2>2. ASSUME p \in ws.here, Sound(d) PROVE p \in past'.strays \/ mods.link[p] \in {Wsp!NoDep, mods'.current[p]}
    <3>1. CASE p \in Wsp!Mutated(d)
      <4>1. \/ mods.link[p] = calls[d].target[p] /\ calls[d].target[p] # Wsp!NoDep
            \/ mods.link[p] = Wsp!NoDep \/ p \in past.strays
        BY <1>1, <1>2, <2>2, <3>1 DEF Carried, HasUnlinked, HasLinked
      <4> QED BY <1>5, <1>8, <2>2, <4>1
    <3>2. CASE p \notin Wsp!Mutated(d)
      <4>1. CASE mods.link[p] \notin {Wsp!NoDep, calls[d].target[p]}
        BY <1>5, <2>2, <3>2, <4>1
      <4>2. CASE mods.link[p] \in {Wsp!NoDep, calls[d].target[p]}
        BY <1>8, <2>2, <4>2
      <4> QED BY <4>1, <4>2
    <3> QED BY <3>1, <3>2
  <2> QED BY <1>4, <1>5, <2>1, <2>2 DEF LinkFits, LinkIs, Sound
<1>14. d = WsRoot => StoreFits'
  <2>1. SUFFICES ASSUME d = WsRoot, oneLockfile, Sound(d), NEW v \in mods'.packages[d] \cap WsNeedBuild
                 PROVE  mods.store[d][v] \in {"absent", "built"}
    BY <1>4, <1>5 DEF StoreFits, Sound
  <2>2. CASE v \in mods.packages[d]
    BY <1>1, <2>1, <2>2 DEF WorkspaceInv, StoreFits
  <2>3. CASE v \in Wsp!PackagesOf(calls[d].target, Wsp!Mutated(d))
    BY <1>1, <1>2, <2>1, <2>3 DEF Carried, HasPackages, HasStored
  <2> QED BY <1>8, <2>1, <2>2, <2>3
<1>15. \A p \in past'.settled : Settled(p)'
  BY <1>4, <1>5, <1>7, SettledRest
<1>16. \A p \in Wsp!Of(d) : p \in ws'.here <=> ws'.manifest[p] # Wsp!Absent
  BY <1>4, WsDirsAre DEF WorkspaceInv, CommandFits
<1>17. calls[d].phase # "idle" /\ calls'[d].phase # "idle"
  BY <1>1, <1>6
<1> QED BY <1>3, <1>7, <1>9, <1>11, <1>12, <1>13, <1>14, <1>15, <1>16, <1>17, CallStep

\* Calls that break off

LEMMA BrokenIs ==
  ASSUME WorkspaceTypes, NEW ds \in SUBSET WsProjects
  PROVE  /\ Wsp!Broken(ds).settled = past.settled /\ Wsp!Broken(ds).strays = past.strays
         /\ Wsp!Broken(ds).harmed = past.harmed \cup
              {d \in ds : oneLockfile /\ calls[d].phase \in {"link", "build"} /\ calls[d].build \cap mods.packages[d] # {}}
         /\ \A d \in WsProjects : Wsp!Broken(ds).broke[d] =
              IF d \in ds /\ calls[d].phase \in {"import", "link", "build", "write"} /\ "current" \in calls[d].write
              THEN {calls[d].target} ELSE past.broke[d]
BY DEF Wsp!Broken, WorkspaceTypes, WsPasts

LEMMA BrokenFits ==
  ASSUME Wsp!WorkspaceAssumption, WorkspaceInv, WorkspaceTypes', NEW ds \in SUBSET WsProjects, NEW d \in ds, d \in Wsp!Dirs,
         past' = Wsp!Broken(ds), UNCHANGED <<oneLockfile, ws, mods>>, Underway,
         calls'[d].phase \in {"idle", "failed"}
  PROVE  /\ \A p \in Wsp!Of(d) : LinkFits(p)'
         /\ d = WsRoot => StoreFits'
<1>1. WorkspaceTypes /\ d \in WsProjects
  BY DEF WorkspaceInv
<1>2. /\ past'.strays = past.strays
      /\ past'.harmed = past.harmed \cup
           {e \in ds : oneLockfile /\ calls[e].phase \in {"link", "build"} /\ calls[e].build \cap mods.packages[e] # {}}
      /\ past'.broke[d] =
           IF calls[d].phase \in {"import", "link", "build", "write"} /\ "current" \in calls[d].write
           THEN {calls[d].target} ELSE past.broke[d]
  BY <1>1, BrokenIs
<1>3. Sound(d)' => Sound(d)
  BY <1>2 DEF Sound
<1>4. ASSUME NEW p \in Wsp!Of(d) PROVE LinkFits(p)'
  <2>1. LinkFits(p) /\ Wsp!Dir(p) = d /\ Wsp!Dir(p)' = d
    BY WsDirsAre DEF WorkspaceInv, Wsp!Dir
  <2>2. ASSUME Sound(d), LinkIs(p, d) PROVE LinkIs(p, d)'
    <3>1. CASE past'.broke[d] = past.broke[d]
      BY <1>2, <2>2, <3>1 DEF LinkIs, Recorded
    <3>2. CASE past'.broke[d] = {calls[d].target} /\ calls[d].phase \in {"import", "link", "build", "write"}
      <4>1. Planned(d)
        BY <1>1, <3>2 DEF WorkspaceInv, Begun, Wsp!Active
      <4>2. past.broke[d] \subseteq past'.broke[d]
        BY <2>2, <3>2, <4>1 DEF Planned
      <4> QED BY <1>2, <2>2, <3>2, <4>2 DEF LinkIs, Recorded
    <3> QED BY <1>2, <3>1, <3>2
  <2> QED BY <1>3, <2>1, <2>2 DEF LinkFits
<1>5. d = WsRoot => StoreFits'
  <2>1. SUFFICES ASSUME d = WsRoot, oneLockfile, Sound(d)', NEW v \in mods.packages[d] \cap WsNeedBuild
                 PROVE  mods.store[d][v] \in {"absent", "built"}
    BY DEF StoreFits
  <2>2. ~(calls[d].phase \in {"link", "build"} /\ v \in calls[d].build)
    BY <1>2, <2>1 DEF Sound
  <2> QED BY <1>3, <2>1, <2>2 DEF WorkspaceInv, StoreFits
<1> QED BY <1>4, <1>5

LEMMA FailKeeps ==
  ASSUME Wsp!WorkspaceAssumption, WorkspaceInv, NEW d \in Wsp!Dirs, Wsp!Fail(d)
  PROVE  WorkspaceInv'
<1>1. /\ d \in WsProjects /\ WorkspaceTypes /\ command.phase = "running" /\ calls[d].phase \in Wsp!Active
      /\ UNCHANGED <<oneLockfile, ws, mods, state>> /\ past' = Wsp!Broken({d})
  BY WsDirsAre DEF WorkspaceInv, Wsp!Fail
<1>2. WorkspaceTypes'
  BY <1>1, BreaksTyped
<1>3. /\ calls'[d].phase = "failed" /\ \A e \in WsProjects : e # d => calls'[e] = calls[e]
      /\ command'.phase \in {"running", "bailing"} /\ command'.name = command.name
      /\ command'.sel = command.sel /\ command'.hit = command.hit /\ command'.version = command.version
      /\ command'.only = command.only /\ command'.left = command.left
  BY <1>1 DEF Wsp!Fail, WorkspaceTypes, WsCalls, WsCommandsMade
<1>4. /\ past'.strays = past.strays /\ past'.settled = past.settled /\ past.harmed \subseteq past'.harmed
      /\ \A e \in WsProjects : e # d => past'.broke[e] = past.broke[e]
  <2> DEFINE ds == {d}
  <2>1. ds \in SUBSET WsProjects /\ \A e \in WsProjects : e # d => e \notin ds
    BY <1>1
  <2>2. past' = Wsp!Broken(ds) /\ WorkspaceTypes
    BY <1>1
  <2> HIDE DEF ds
  <2>3. /\ Wsp!Broken(ds).strays = past.strays /\ Wsp!Broken(ds).settled = past.settled
        /\ past.harmed \subseteq Wsp!Broken(ds).harmed
    BY <2>1, <2>2, BrokenIs
  <2>4. \A e \in WsProjects : e # d => Wsp!Broken(ds).broke[e] = past.broke[e]
    BY <2>1, <2>2, BrokenIs
  <2> QED BY <2>2, <2>3, <2>4
<1>5. GoesOn
  BY <1>1, <1>3, <1>4 DEF GoesOn
<1>6. \A e \in WsProjects : e # d => Aside(e)
  BY <1>1, <1>3, <1>4 DEF Aside
<1>7. (\A p \in Wsp!Of(d) : LinkFits(p)') /\ (d = WsRoot => StoreFits')
  BY <1>1, <1>2, <1>3, BrokenFits DEF Underway
<1>8. ~Begun(d)'
  BY <1>3 DEF Begun, Wsp!Active
<1>9. \A p \in past'.settled : Settled(p)'
  BY <1>1, <1>4, <1>5, SettledRest
<1>10. \A p \in Wsp!Of(d) : p \in ws'.here <=> ws'.manifest[p] # Wsp!Absent
  BY <1>1, WsDirsAre DEF WorkspaceInv, CommandFits
<1>11. calls[d].phase # "idle"
  BY <1>1 DEF Wsp!Active
<1> QED BY <1>2, <1>3, <1>5, <1>6, <1>7, <1>8, <1>9, <1>10, <1>11, CallStep

\* No command runs, and what there is of modules and lockfiles stays as it is.
LEMMA AtRestKeeps ==
  ASSUME Wsp!WorkspaceAssumption, WorkspaceInv, WorkspaceTypes', CommandFits', ~Underway',
         UNCHANGED <<oneLockfile, ws, mods>>, past.strays \subseteq past'.strays, past'.settled = past.settled,
         \A p \in WsProjects : LinkFits(p)', StoreFits'
  PROVE  WorkspaceInv'
<1>1. \A d \in WsProjects : ~Begun(d)'
  BY DEF Begun
<1>2. ASSUME NEW p \in past'.settled PROVE Settled(p)'
  <2>1. p \in WsProjects /\ Settled(p)
    BY <1>2 DEF WorkspaceInv, WorkspaceTypes, WsPasts
  <2> QED BY <2>1, SettledStays DEF Settled
<1> QED BY <1>1, <1>2 DEF WorkspaceInv

LEMMA StopKeeps ==
  ASSUME Wsp!WorkspaceAssumption, WorkspaceInv, Wsp!Exit \/ Wsp!Kill
  PROVE  WorkspaceInv'
<1>1. /\ UNCHANGED <<oneLockfile, ws, mods, state>> /\ past' = Wsp!Broken(Wsp!Dirs) /\ WorkspaceTypes /\ Underway
      /\ calls' = [d \in WsProjects |-> Wsp!NoCall]
      /\ command' = [command EXCEPT !.phase = "failed", !.left = {}]
  BY DEF WorkspaceInv, Wsp!Exit, Wsp!Kill, Wsp!Stop, Underway
<1>2. WorkspaceTypes'
  BY <1>1, BreaksTyped
<1>3. /\ \A d \in WsProjects : calls'[d].phase = "idle"
      /\ command'.phase = "failed" /\ command'.sel = command.sel /\ command'.hit = command.hit /\ command'.left = {}
  BY <1>1 DEF Wsp!NoCall, WorkspaceTypes, WsCommandsMade
<1>4. /\ past'.strays = past.strays /\ past'.settled = past.settled
  BY <1>1, BrokenIs, WsDirsAre
<1>5. ~Underway' /\ CommandFits'
  BY <1>1, <1>3 DEF Underway, CommandFits, WorkspaceInv
<1>6. ASSUME NEW p \in WsProjects PROVE LinkFits(p)'
  BY <1>1, <1>2, <1>3, BrokenFits, WsDirsAre
<1>7. StoreFits'
  <2>1. CASE oneLockfile
    BY <1>1, <1>2, <1>3, <2>1, BrokenFits, WsDirsAre, ConstantsAre
  <2>2. CASE ~oneLockfile
    BY <1>1, <2>2 DEF StoreFits
  <2> QED BY <2>1, <2>2
<1> QED BY <1>1, <1>2, <1>4, <1>5, <1>6, <1>7, AtRestKeeps

\* A step of the rebuild: what was imported may be built.
RebuildsOn ==
  /\ command.phase \in {"running", "rebuilding"} /\ command'.phase = "rebuilding" /\ Wsp!AllEnded
  /\ command'.name = command.name /\ command'.sel = command.sel /\ command'.hit = command.hit
  /\ command'.version = command.version /\ command'.only = command.only
  /\ command'.left \subseteq command.sel
  /\ UNCHANGED <<oneLockfile, ws, calls, past>>
  /\ mods'.link = mods.link /\ mods'.current = mods.current /\ mods'.packages = mods.packages
  /\ \A d \in WsProjects : \A v \in WsVersions :
       \/ mods'.store[d][v] = mods.store[d][v]
       \/ mods.store[d][v] = "fresh" /\ mods'.store[d][v] = "built"

LEMMA RebuildsOnKeeps ==
  ASSUME Wsp!WorkspaceAssumption, WorkspaceInv, WorkspaceTypes', RebuildsOn,
         \A d \in WsProjects : ~oneLockfile /\ Begun(d) /\ Sound(d) /\ ~command.only /\ d \notin command'.left =>
           \A v \in mods.packages[d] \cap WsNeedBuild : mods'.store[d][v] # "fresh"
  PROVE  WorkspaceInv'
<1>0. WorkspaceTypes /\ Underway /\ Underway' /\ \A d \in Wsp!Dirs : calls[d].phase \in {"idle", "done", "failed"}
  BY DEF RebuildsOn, WorkspaceInv, Underway, Wsp!AllEnded
<1>1. /\ \A p : Wsp!Dir(p)' = Wsp!Dir(p)
      /\ \A d : Wsp!Of(d)' = Wsp!Of(d) /\ Wsp!Mutated(d)' = Wsp!Mutated(d)
      /\ Wsp!Dirs' = Wsp!Dirs /\ Wsp!PruneLockfileImporters' = Wsp!PruneLockfileImporters
  BY SetsStay DEF RebuildsOn
<1>2. CommandFits'
  <2>1. Wsp!AllEnded'
    BY <1>1 DEF RebuildsOn, Wsp!AllEnded
  <2> QED BY <1>0, <1>1, <2>1 DEF CommandFits, WorkspaceInv, RebuildsOn
<1>3. ASSUME NEW d \in WsProjects, Begun(d)'
      PROVE  Begun(d) /\ calls[d].phase = "done" /\ d \in Wsp!Dirs
  <2>1. Begun(d) /\ d \in Wsp!Dirs
    BY <1>0, <1>1, <1>3 DEF Begun, RebuildsOn
  <2> QED BY <1>0, <2>1 DEF Begun, Wsp!Active
<1>4. ASSUME NEW d \in WsProjects, Begun(d)' PROVE Planned(d)'
  <2>1. Planned(d) /\ calls' = calls /\ ws' = ws /\ past' = past
    BY <1>3, <1>4 DEF WorkspaceInv, RebuildsOn
  <2>2. \A p \in Wsp!Of(d) : Wsp!WantedOf(p)' = Wsp!WantedOf(p)
    <3>1. TAKE p \in Wsp!Of(d)
    <3> QED BY DEF Wsp!WantedOf, RebuildsOn
  <2>3. Wsp!Ids(calls[d].target, d)' = Wsp!Ids(calls[d].target, d)
    BY <1>1, <2>1 DEF Wsp!Ids
  <2>4. Sound(d)' => Sound(d)
    BY <2>1 DEF Sound
  <2> QED BY <1>1, <2>1, <2>2, <2>3, <2>4 DEF Planned, RebuildsOn
<1>5. ASSUME NEW d \in WsProjects, Begun(d)', Sound(d)' PROVE Carried(d)'
  <2>1. Begun(d) /\ calls[d].phase = "done" /\ Sound(d) /\ Carried(d) /\ calls' = calls /\ past' = past
        /\ oneLockfile' = oneLockfile
    BY <1>3, <1>5 DEF WorkspaceInv, RebuildsOn, Sound
  <2>2. Through(d)' = Through(d) /\ Wsp!Mutated(d)' = Wsp!Mutated(d)
    BY <1>1, <2>1 DEF Through, RebuildsOn
  <2>3. Wsp!PackagesOf(calls[d].target, Wsp!Mutated(d))' = Wsp!PackagesOf(calls[d].target, Wsp!Mutated(d))
    BY <2>1, <2>2 DEF Wsp!PackagesOf
  <2>4. \A v \in Wsp!PackagesOf(calls[d].target, Wsp!Mutated(d)) : v \in WsVersions
    BY DEF Wsp!PackagesOf
  <2>5. ASSUME NEW v \in WsVersions, HasStored(d, v) PROVE HasStored(d, v)'
    BY <2>1, <2>5 DEF HasStored, RebuildsOn
  <2>6. HasPackages(d)'
    BY <2>1, <2>2, <2>3, <2>4, <2>5 DEF HasPackages, Carried
  <2>7. HasUnlinked(d)' /\ HasLinked(d)'
    BY <2>1, <2>2 DEF HasUnlinked, HasLinked, Carried, RebuildsOn
  <2>8. HasRecorded(d)'
    <3>1. SUFFICES ASSUME ~oneLockfile, Through(d)
                   PROVE  /\ Wsp!PackagesOf(calls[d].target, Wsp!Mutated(d)) \subseteq mods.packages[d]
                          /\ d \notin command'.left =>
                               \A v \in mods.packages[d] \cap WsNeedBuild : mods'.store[d][v] # "fresh"
      BY <2>1, <2>2, <2>3 DEF HasRecorded, RebuildsOn
    <3>2. Wsp!PackagesOf(calls[d].target, Wsp!Mutated(d)) \subseteq mods.packages[d]
      BY <2>1, <3>1 DEF Carried, HasRecorded
    <3>3. ~command.only
      BY <3>1 DEF Through
    <3> QED BY <2>1, <3>1, <3>2, <3>3
  <2> QED BY <2>6, <2>7, <2>8 DEF Carried
<1>6. ASSUME NEW p \in WsProjects PROVE LinkFits(p)'
  <2>1. LinkFits(p) /\ Wsp!Dir(p)' = Wsp!Dir(p) /\ calls' = calls /\ past' = past /\ ws' = ws
    BY <1>1 DEF WorkspaceInv, RebuildsOn
  <2>2. Recorded(Wsp!Dir(p))' = Recorded(Wsp!Dir(p))
    BY <1>0, <2>1 DEF Recorded
  <2>3. mods'.link = mods.link /\ mods'.current = mods.current
    BY DEF RebuildsOn
  <2>4. LinkIs(p, Wsp!Dir(p))' = LinkIs(p, Wsp!Dir(p))
    BY <2>1, <2>2, <2>3 DEF LinkIs
  <2> QED BY <2>1, <2>3, <2>4 DEF LinkFits, Sound
<1>7. StoreFits'
  <2>1. SUFFICES ASSUME oneLockfile, Sound(WsRoot), NEW v \in mods.packages[WsRoot] \cap WsNeedBuild
                 PROVE  \/ mods'.store[WsRoot][v] \in {"absent", "built"}
                        \/ calls[WsRoot].phase \in {"link", "build"} /\ v \in calls[WsRoot].build
    BY DEF StoreFits, RebuildsOn, Sound
  <2>2. v \in WsVersions /\ WsRoot \in WsProjects
    BY <1>0, ConstantsAre DEF WorkspaceTypes, WsModules
  <2>3. \/ mods.store[WsRoot][v] \in {"absent", "built"}
        \/ calls[WsRoot].phase \in {"link", "build"} /\ v \in calls[WsRoot].build
    BY <2>1 DEF WorkspaceInv, StoreFits
  <2> QED BY <2>2, <2>3 DEF RebuildsOn
<1>8. ASSUME NEW p \in past'.settled PROVE Settled(p)'
  <2>1. p \in WsProjects /\ Settled(p) /\ Wsp!Dir(p) \in WsProjects
    BY <1>0, <1>8, WsDirsAre DEF WorkspaceInv, RebuildsOn, WorkspaceTypes, WsPasts
  <2>2. ws.manifest[p] \in WsVersions \/ ws.manifest[p] = Wsp!NoDep
    BY <1>0, <2>1, ConstantsAre DEF WorkspaceTypes, WsLocks, WorkspaceInv, CommandFits, Settled
  <2>3. p \notin Wsp!Mutated(Wsp!Dir(p))'
    BY <1>0, <1>1, <2>1 DEF Settled
  <2>4. \/ mods'.store[Wsp!Dir(p)][ws.manifest[p]] = mods.store[Wsp!Dir(p)][ws.manifest[p]]
        \/ /\ mods.store[Wsp!Dir(p)][ws.manifest[p]] = "fresh"
           /\ mods'.store[Wsp!Dir(p)][ws.manifest[p]] = "built"
        \/ ws.manifest[p] = Wsp!NoDep
    BY <2>1, <2>2 DEF RebuildsOn
  <2> QED BY <2>1, <2>3, <2>4, SettledStays DEF RebuildsOn, Settled
<1> QED BY <1>2, <1>4, <1>5, <1>6, <1>7, <1>8 DEF WorkspaceInv

LEMMA StartRebuildKeeps ==
  ASSUME Wsp!WorkspaceAssumption, WorkspaceInv, Wsp!StartRebuild
  PROVE  WorkspaceInv'
<1>1. /\ WorkspaceTypes /\ command.phase = "running" /\ Wsp!AllEnded
      /\ UNCHANGED <<oneLockfile, ws, mods, state, calls, past, spent>>
      /\ command' = [command EXCEPT !.phase = "rebuilding", !.left = Wsp!ToRebuild]
  BY DEF WorkspaceInv, Wsp!StartRebuild
<1>2. WorkspaceTypes'
  BY <1>1, RebuildTyped
<1>3. /\ command'.phase = "rebuilding" /\ command'.left = Wsp!ToRebuild /\ command'.name = command.name
      /\ command'.sel = command.sel /\ command'.hit = command.hit /\ command'.version = command.version
      /\ command'.only = command.only
  BY <1>1 DEF WorkspaceTypes, WsCommandsMade
<1>4. RebuildsOn
  BY <1>1, <1>3 DEF RebuildsOn, Wsp!ToRebuild
<1>5. ASSUME NEW d \in WsProjects, ~oneLockfile, Begun(d), ~command.only PROVE d \in command'.left
  <2>1. calls[d].phase # "idle"
    BY <1>5 DEF Begun, Wsp!Active
  <2>2. PICK p \in command.hit : Wsp!Dir(p) = d
    BY <1>1, <2>1 DEF WorkspaceInv, CommandFits, Underway
  <2>3. p = d /\ d \in command.sel
    BY <1>5, <2>2 DEF WorkspaceInv, CommandFits, Wsp!Dir
  <2> QED BY <1>3, <1>5, <2>3 DEF Wsp!ToRebuild
<1> QED BY <1>2, <1>4, <1>5, RebuildsOnKeeps

LEMMA RebuildProjectKeeps ==
  ASSUME Wsp!WorkspaceAssumption, WorkspaceInv, NEW p \in WsProjects, Wsp!RebuildProject(p)
  PROVE  WorkspaceInv'
<1>1. /\ WorkspaceTypes /\ command.phase = "rebuilding" /\ p \in command.left /\ Wsp!AllEnded
      /\ UNCHANGED <<oneLockfile, ws, state, calls, past, spent>>
      /\ command' = [command EXCEPT !.left = @ \ {p}]
  BY DEF WorkspaceInv, CommandFits, Wsp!RebuildProject
<1>2. WorkspaceTypes'
  BY RebuildTyped DEF WorkspaceInv
<1>3. /\ command'.phase = "rebuilding" /\ command'.left = command.left \ {p} /\ command'.name = command.name
      /\ command'.sel = command.sel /\ command'.hit = command.hit /\ command'.version = command.version
      /\ command'.only = command.only
  BY <1>1 DEF WorkspaceTypes, WsCommandsMade
<1>4. /\ mods'.link = mods.link /\ mods'.current = mods.current /\ mods'.packages = mods.packages
      /\ \A d \in WsProjects : d # p => mods'.store[d] = mods.store[d]
      /\ \A v \in WsVersions : mods'.store[p][v] =
           IF v \in mods.packages[p] \cap WsNeedBuild /\ mods.store[p][v] = "fresh" THEN "built" ELSE mods.store[p][v]
  <2>1. mods' = [mods EXCEPT !.store[p] =
          [v \in WsVersions |-> IF v \in mods.packages[p] \cap WsNeedBuild /\ @[v] = "fresh" THEN "built" ELSE @[v]]]
    BY DEF Wsp!RebuildProject
  <2> QED BY <1>1, <2>1 DEF WorkspaceTypes, WsModules
<1>5. RebuildsOn
  <2>1. ASSUME NEW d \in WsProjects, NEW v \in WsVersions
        PROVE  \/ mods'.store[d][v] = mods.store[d][v]
               \/ mods.store[d][v] = "fresh" /\ mods'.store[d][v] = "built"
    BY <1>4
  <2>2. command'.left \subseteq command.sel
    BY <1>3 DEF WorkspaceInv, CommandFits
  <2> QED BY <1>1, <1>3, <1>4, <2>1, <2>2 DEF RebuildsOn
<1>6. ASSUME NEW d \in WsProjects, ~oneLockfile, Begun(d), Sound(d), ~command.only, d \notin command'.left,
             NEW v \in mods.packages[d] \cap WsNeedBuild
      PROVE  mods'.store[d][v] # "fresh"
  <2>1. v \in WsVersions
    BY <1>1 DEF WorkspaceTypes, WsModules
  <2>2. CASE d = p
    BY <1>4, <1>6, <2>1, <2>2
  <2>3. CASE d # p
    <3>1. mods'.store[d] = mods.store[d] /\ d \notin command.left
      BY <1>3, <1>4, <1>6, <2>3
    <3>2. HasRecorded(d)
      BY <1>6 DEF WorkspaceInv, Carried
    <3>3. Through(d)
      BY <1>1, <1>6 DEF Through, Begun, Wsp!AllEnded, Wsp!Active
    <3> QED BY <1>1, <1>6, <3>1, <3>2, <3>3 DEF HasRecorded
  <2> QED BY <2>2, <2>3
<1> QED BY <1>2, <1>5, <1>6, RebuildsOnKeeps

\* Between commands

LEMMA RestIs ==
  ASSUME Wsp!WorkspaceAssumption, WorkspaceInv, ~Underway
  PROVE  /\ \A d \in WsProjects : calls[d].phase \in {"idle", "done", "failed"}
         /\ \A p \in ws.here : Sound(Wsp!Dir(p)) =>
              \/ p \in past.strays \/ mods.link[p] \in {Wsp!NoDep, mods.current[p]}
              \/ \E lockfile \in past.broke[Wsp!Dir(p)] : mods.link[p] = lockfile[p]
         /\ oneLockfile /\ Sound(WsRoot) /\ WsRoot \in WsProjects =>
              \A v \in mods.packages[WsRoot] \cap WsNeedBuild : mods.store[WsRoot][v] \in {"absent", "built"}
<1>1. \A d \in WsProjects : calls[d].phase \in {"idle", "done", "failed"}
  BY DEF WorkspaceInv, CommandFits
<1>2. ASSUME NEW p \in ws.here, Sound(Wsp!Dir(p))
      PROVE  \/ p \in past.strays \/ mods.link[p] \in {Wsp!NoDep, mods.current[p]}
             \/ \E lockfile \in past.broke[Wsp!Dir(p)] : mods.link[p] = lockfile[p]
  <2>1. p \in WsProjects
    BY DEF WorkspaceInv, WorkspaceTypes
  <2>2. LinkIs(p, Wsp!Dir(p))
    BY <1>2, <2>1 DEF WorkspaceInv, LinkFits
  <2>3. calls[Wsp!Dir(p)].phase \notin {"build", "write"}
    <3>1. Wsp!Dir(p) \in WsProjects
      BY <2>1, WsDirsAre
    <3> QED BY <1>1, <3>1
  <2> QED BY <2>2, <2>3 DEF LinkIs
<1>3. oneLockfile /\ Sound(WsRoot) /\ WsRoot \in WsProjects =>
        \A v \in mods.packages[WsRoot] \cap WsNeedBuild : mods.store[WsRoot][v] \in {"absent", "built"}
  BY <1>1 DEF WorkspaceInv, StoreFits
<1> QED BY <1>1, <1>2, <1>3

\* What makes the links and the store fit when no call is under way
LEMMA LinkFitsNow ==
  ASSUME NEW p \in WsProjects,
         p \notin ws'.here => mods'.link[p] = Wsp!NoDep,
         p \in ws'.here /\ Sound(Wsp!Dir(p))' =>
           \/ p \in past'.strays \/ mods'.link[p] \in {Wsp!NoDep, mods'.current[p]}
           \/ ~Recorded(Wsp!Dir(p))' /\ \E lockfile \in past'.broke[Wsp!Dir(p)'] : mods'.link[p] = lockfile[p]
  PROVE  LinkFits(p)'
BY DEF LinkFits, LinkIs

LEMMA CheckKeeps ==
  ASSUME Wsp!WorkspaceAssumption, WorkspaceInv, Wsp!Skip \/ Wsp!Verify
  PROVE  WorkspaceInv'
<1>1. PICK b \in BOOLEAN, phase \in {"skipped", "verified"} : Wsp!Check(b, phase)
  BY DEF Wsp!Skip, Wsp!Verify
<1>2. /\ command.phase \in Wsp!Rest /\ UNCHANGED <<oneLockfile, ws, mods, past, spent>>
      /\ command' = [Wsp!NoCommand EXCEPT !.phase = phase] /\ calls' = [d \in WsProjects |-> Wsp!NoCall]
  BY <1>1 DEF Wsp!Check
<1>3. WorkspaceTypes'
  BY <1>1, CheckTyped DEF WorkspaceInv, Wsp!Rest
<1>4. ~Underway /\ ~Underway'
  BY <1>2 DEF Underway, Wsp!Rest, Wsp!NoCommand
<1>5. CommandFits'
  BY <1>2, <1>4 DEF CommandFits, WorkspaceInv, Wsp!NoCommand, Wsp!NoCall, Underway
<1>6. ASSUME NEW p \in WsProjects PROVE LinkFits(p)'
  <2>1. Wsp!Dir(p)' = Wsp!Dir(p) /\ ~Recorded(Wsp!Dir(p))'
    BY <1>2, <1>4 DEF Wsp!Dir, Recorded
  <2>2. LinkFits(p)
    BY DEF WorkspaceInv
  <2> QED BY <1>2, <1>4, <2>1, <2>2, RestIs, LinkFitsNow DEF Sound, LinkFits
<1>7. StoreFits'
  BY <1>2, <1>4, RestIs, ConstantsAre DEF StoreFits, Sound
<1> QED BY <1>2, <1>3, <1>4, <1>5, <1>6, <1>7, AtRestKeeps

LEMMA WsBeginKeeps ==
  ASSUME Wsp!WorkspaceAssumption, WorkspaceInv, NEW sel, NEW c \in WsCommands[oneLockfile],
         Wsp!Begin(c.name, sel, c.version, c.only, c.bail)
  PROVE  WorkspaceInv'
<1> DEFINE hit == Wsp!Hit(c.name, sel)
           mutated == hit \cup (IF oneLockfile THEN {WsRoot} \cap ws.here ELSE {})
<1>1. /\ command.phase \in Wsp!Rest /\ UNCHANGED <<oneLockfile, ws, mods, state>> /\ hit \subseteq sel /\ sel \subseteq ws.here
      /\ command' = [Wsp!NoCommand EXCEPT !.phase = "running", !.name = c.name, !.sel = sel, !.hit = hit,
                                          !.version = c.version, !.only = c.only, !.bail = c.bail]
      /\ calls' = [d \in WsProjects |->
           [Wsp!NoCall EXCEPT !.phase = IF d \in {Wsp!Dir(p) : p \in hit} THEN "waiting" ELSE "idle"]]
      /\ past' = [past EXCEPT !.settled = @ \ mutated]
  BY DEF Wsp!Begin, Wsp!Hit
<1>2. WorkspaceTypes'
  BY BeginTyped DEF WorkspaceInv
<1> HIDE DEF hit
<1>3. /\ command'.phase = "running" /\ command'.sel = sel /\ command'.hit = hit /\ command'.left = {}
      /\ \A d \in WsProjects : calls'[d].phase = IF d \in {Wsp!Dir(p) : p \in hit} THEN "waiting" ELSE "idle"
      /\ past'.settled = past.settled \ mutated /\ past'.strays = past.strays /\ past'.harmed = past.harmed
      /\ past'.broke = past.broke
  BY <1>1 DEF Wsp!NoCommand, Wsp!NoCall, WorkspaceInv, WorkspaceTypes, WsPasts
<1>4. ~Underway /\ Underway'
  BY <1>1, <1>3 DEF Underway, Wsp!Rest
<1>5. \A p : Wsp!Dir(p)' = Wsp!Dir(p)
  BY <1>1 DEF Wsp!Dir
<1>6. CommandFits'
  <2>1. hit \subseteq WsProjects
    BY <1>1 DEF WorkspaceInv, WorkspaceTypes
  <2>2. \A p \in hit : Wsp!Dir(p) \in WsProjects
    BY <2>1, WsDirsAre
  <2>3. \A d \in WsProjects : calls'[d].phase # "idle" => \E p \in command'.hit : Wsp!Dir(p)' = d
    BY <1>3, <1>5
  <2>4. \A p \in command'.hit : calls'[Wsp!Dir(p)'].phase # "idle"
    BY <1>3, <1>5, <2>2
  <2> QED BY <1>1, <1>3, <1>4, <2>3, <2>4 DEF CommandFits, WorkspaceInv
<1>7. ASSUME NEW d \in WsProjects PROVE ~Begun(d)' /\ ~Recorded(d)'
  BY <1>3 DEF Begun, Recorded, Wsp!Active
<1>8. ASSUME NEW p \in WsProjects PROVE LinkFits(p)'
  <2>1. Wsp!Dir(p)' = Wsp!Dir(p) /\ ~Recorded(Wsp!Dir(p))' /\ LinkFits(p)
    BY <1>5, <1>7, WsDirsAre DEF WorkspaceInv, Recorded
  <2> QED BY <1>1, <1>3, <1>4, <2>1, RestIs, LinkFitsNow DEF Sound, LinkFits
<1>9. StoreFits'
  BY <1>1, <1>3, <1>4, RestIs, ConstantsAre DEF StoreFits, Sound
<1>10. ASSUME NEW p \in past'.settled PROVE Settled(p)'
  <2>1. p \in WsProjects /\ Settled(p) /\ p \notin mutated
    BY <1>3, <1>10 DEF WorkspaceInv, WorkspaceTypes, WsPasts
  <2>2. p \notin Wsp!Mutated(Wsp!Dir(p))'
    BY <1>1, <1>3, <2>1 DEF Wsp!Mutated
  <2> QED BY <1>1, <1>3, <2>1, <2>2, SettledStays DEF Settled
<1> QED BY <1>2, <1>6, <1>7, <1>8, <1>9, <1>10 DEF WorkspaceInv

LEMMA WsEditManifestKeeps ==
  ASSUME Wsp!WorkspaceAssumption, WorkspaceInv, NEW p \in WsProjects, NEW v \in WsVersions \cup {Wsp!NoDep},
         Wsp!EditManifest(p, v)
  PROVE  WorkspaceInv'
<1>1. /\ command.phase \in Wsp!Rest /\ command' = Wsp!NoCommand /\ calls' = [d \in WsProjects |-> Wsp!NoCall]
      /\ UNCHANGED <<oneLockfile, mods>>
      /\ ws' = [ws EXCEPT !.manifest[p] = v, !.here = @ \cup {p}]
      /\ past' = [past EXCEPT !.settled = @ \ {p},
                              !.missed = IF state.filtered /\ p \notin ws.here THEN @ \cup {p} ELSE @]
  BY DEF Wsp!EditManifest, Wsp!Edited
<1>2. WorkspaceTypes'
  BY EditManifestTyped DEF WorkspaceInv
<1>3. /\ ws'.here = ws.here \cup {p} /\ ws'.manifest[p] = v
      /\ \A q \in WsProjects : q # p => ws'.manifest[q] = ws.manifest[q]
      /\ past'.settled = past.settled \ {p} /\ past'.strays = past.strays /\ past'.harmed = past.harmed
      /\ past'.broke = past.broke
  BY <1>1 DEF WorkspaceInv, WorkspaceTypes, WsPasts, WsLocks
<1>4. ~Underway /\ ~Underway'
  BY <1>1 DEF Underway, Wsp!Rest, Wsp!NoCommand
<1>5. CommandFits'
  <2>1. \A q \in WsProjects : q \in ws'.here <=> ws'.manifest[q] # Wsp!Absent
    BY <1>3, ConstantsAre DEF WorkspaceInv, CommandFits
  <2> QED BY <1>1, <1>4, <2>1 DEF CommandFits, Wsp!NoCommand, Wsp!NoCall
<1>6. ASSUME NEW q \in WsProjects PROVE LinkFits(q)'
  <2>1. Wsp!Dir(q)' = Wsp!Dir(q) /\ ~Recorded(Wsp!Dir(q))' /\ LinkFits(q)
    BY <1>1, <1>4 DEF Wsp!Dir, Recorded, WorkspaceInv
  <2>2. CASE q \in ws.here
    BY <1>1, <1>3, <1>4, <2>1, <2>2, RestIs, LinkFitsNow DEF Sound
  <2>3. CASE q \notin ws.here
    <3>1. mods'.link[q] = Wsp!NoDep
      BY <1>1, <2>1, <2>3 DEF LinkFits
    <3> QED BY <3>1, LinkFitsNow
  <2> QED BY <2>2, <2>3
<1>7. StoreFits'
  BY <1>1, <1>3, <1>4, RestIs, ConstantsAre DEF StoreFits, Sound
<1>8. \A d \in WsProjects : ~Begun(d)'
  BY <1>4 DEF Begun
<1>9. ASSUME NEW q \in past'.settled PROVE Settled(q)'
  <2>1. q \in WsProjects /\ Settled(q) /\ q # p
    BY <1>3, <1>9 DEF WorkspaceInv, WorkspaceTypes, WsPasts
  <2> QED BY <1>1, <1>3, <1>4, <2>1, SettledStays DEF Settled
<1> QED BY <1>2, <1>5, <1>6, <1>7, <1>8, <1>9 DEF WorkspaceInv

LEMMA RemoveProjectKeeps ==
  ASSUME Wsp!WorkspaceAssumption, WorkspaceInv, NEW p \in WsProjects, Wsp!RemoveProject(p)
  PROVE  WorkspaceInv'
<1>1. /\ command.phase \in Wsp!Rest /\ command' = Wsp!NoCommand /\ calls' = [d \in WsProjects |-> Wsp!NoCall]
      /\ oneLockfile' = oneLockfile /\ WorkspaceTypes
  BY DEF Wsp!RemoveProject, Wsp!Edited, WorkspaceInv
<1>2. WorkspaceTypes'
  BY RemoveProjectTyped DEF WorkspaceInv
<1>3. /\ ws'.here = ws.here \ {p} /\ ws'.manifest = [ws.manifest EXCEPT ![p] = Wsp!Absent]
      /\ mods'.link = [mods.link EXCEPT ![p] = Wsp!NoDep]
      /\ mods'.current = IF oneLockfile THEN mods.current ELSE [mods.current EXCEPT ![p] = Wsp!Absent]
      /\ mods'.packages = IF oneLockfile THEN mods.packages ELSE [mods.packages EXCEPT ![p] = {}]
      /\ mods'.store = IF oneLockfile THEN mods.store
                       ELSE [mods.store EXCEPT ![p] = [v \in WsVersions |-> "absent"]]
  BY DEF Wsp!RemoveProject
<1>4. /\ past'.settled = past.settled \ {p} /\ past'.strays = past.strays \ {p} /\ past'.harmed = past.harmed
      /\ past'.broke = IF oneLockfile THEN past.broke ELSE [past.broke EXCEPT ![p] = {}]
  <2> DEFINE broke == IF oneLockfile THEN past.broke ELSE [past.broke EXCEPT ![p] = {}]
  <2>1. past' = [past EXCEPT !.settled = @ \ {p}, !.missed = @ \ {p}, !.strays = @ \ {p}, !.broke = broke]
    BY DEF Wsp!RemoveProject
  <2> HIDE DEF broke
  <2>2. /\ past'.settled = past.settled \ {p} /\ past'.strays = past.strays \ {p} /\ past'.harmed = past.harmed
        /\ past'.broke = broke
    BY <1>1, <2>1 DEF WorkspaceTypes, WsPasts
  <2> QED BY <2>2 DEF broke
<1>5. ~Underway /\ ~Underway'
  BY <1>1 DEF Underway, Wsp!Rest, Wsp!NoCommand
<1>6. ASSUME NEW q \in WsProjects, q # p
      PROVE  /\ ws'.manifest[q] = ws.manifest[q] /\ mods'.link[q] = mods.link[q] /\ mods'.current[q] = mods.current[q]
             /\ mods'.store[Wsp!Dir(q)] = mods.store[Wsp!Dir(q)] /\ past'.broke[Wsp!Dir(q)] = past.broke[Wsp!Dir(q)]
             /\ Wsp!Dir(q)' = Wsp!Dir(q)
  <2>1. ws'.manifest[q] = ws.manifest[q] /\ mods'.link[q] = mods.link[q] /\ mods'.current[q] = mods.current[q]
    BY <1>1, <1>3, <1>6 DEF WorkspaceTypes, WsModules, WsLocks
  <2>2. mods'.store[Wsp!Dir(q)] = mods.store[Wsp!Dir(q)] /\ past'.broke[Wsp!Dir(q)] = past.broke[Wsp!Dir(q)]
    <3>1. CASE oneLockfile
      BY <1>3, <1>4, <3>1
    <3>2. CASE ~oneLockfile
      BY <1>1, <1>3, <1>4, <1>6, <3>2 DEF Wsp!Dir, WorkspaceTypes, WsModules, WsPasts
    <3> QED BY <3>1, <3>2
  <2>3. Wsp!Dir(q)' = Wsp!Dir(q)
    BY <1>1 DEF Wsp!Dir
  <2> QED BY <2>1, <2>2, <2>3
<1>7. ws'.manifest[p] = Wsp!Absent /\ mods'.link[p] = Wsp!NoDep /\ p \notin ws'.here
  BY <1>1, <1>3 DEF WorkspaceTypes, WsModules, WsLocks
<1>8. CommandFits'
  <2>1. ASSUME NEW q \in WsProjects PROVE q \in ws'.here <=> ws'.manifest[q] # Wsp!Absent
    <3>1. CASE q = p
      BY <1>7, <3>1
    <3>2. CASE q # p
      BY <1>3, <1>6, <3>2 DEF WorkspaceInv, CommandFits
    <3> QED BY <3>1, <3>2
  <2> QED BY <1>1, <1>5, <2>1 DEF CommandFits, Wsp!NoCommand, Wsp!NoCall
<1>9. ASSUME NEW q \in WsProjects PROVE LinkFits(q)'
  <2>1. CASE q = p
    BY <1>7, <2>1, LinkFitsNow
  <2>2. CASE q # p
    <3>1. ~Recorded(Wsp!Dir(q))' /\ LinkFits(q) /\ (q \in ws'.here <=> q \in ws.here)
      BY <1>3, <1>5, <2>2 DEF Recorded, WorkspaceInv
    <3>2. q \notin ws'.here => mods'.link[q] = Wsp!NoDep
      BY <1>6, <2>2, <3>1 DEF LinkFits
    <3>3. Sound(Wsp!Dir(q))' <=> Sound(Wsp!Dir(q))
      BY <1>4, <1>6, <2>2 DEF Sound
    <3>4. q \in past.strays => q \in past'.strays
      BY <1>4, <2>2
    <3>5. q \in ws'.here /\ Sound(Wsp!Dir(q))' =>
            \/ q \in past'.strays \/ mods'.link[q] \in {Wsp!NoDep, mods'.current[q]}
            \/ \E lockfile \in past'.broke[Wsp!Dir(q)'] : mods'.link[q] = lockfile[q]
      BY <1>5, <1>6, <2>2, <3>1, <3>3, <3>4, RestIs
    <3> QED BY <3>1, <3>2, <3>5, LinkFitsNow
  <2> QED BY <2>1, <2>2
<1>10. StoreFits'
  BY <1>1, <1>3, <1>4, <1>5, RestIs, ConstantsAre DEF StoreFits, Sound
<1>11. \A d \in WsProjects : ~Begun(d)'
  BY <1>5 DEF Begun
<1>12. ASSUME NEW q \in past'.settled PROVE Settled(q)'
  <2>1. q \in WsProjects /\ Settled(q) /\ q # p
    BY <1>1, <1>4, <1>12 DEF WorkspaceInv, WorkspaceTypes, WsPasts
  <2>2. q \in ws'.here /\ (q \in past.strays => q \in past'.strays)
    BY <1>3, <1>4, <2>1 DEF Settled
  <2> QED BY <1>1, <1>5, <1>6, <2>1, <2>2, SettledStays
<1> QED BY <1>2, <1>8, <1>9, <1>10, <1>11, <1>12 DEF WorkspaceInv

\* A command ends.

LEMMA DoneIsWritten ==
  ASSUME Wsp!WorkspaceAssumption, WorkspaceInv, command.phase = "rebuilding", NEW d \in Wsp!Dirs, calls[d].phase = "done"
  PROVE  /\ Planned(d) /\ Begun(d)
         /\ \A p \in Wsp!Of(d) \cap ws.here : ws.lock[p] = ws.manifest[p] /\ calls[d].target[p] = ws.manifest[p]
         /\ \A p \in Wsp!Of(d) : ws.lock[p] = calls[d].target[p]
         /\ Wsp!PruneLockfileImporters => Wsp!Ids(ws.lock, d) = Wsp!Of(d) \cap ws.here
<1>1. d \in WsProjects /\ Begun(d)
  BY WsDirsAre DEF Begun, Underway
<1>2. Planned(d)
  BY <1>1 DEF WorkspaceInv
<1>3. ASSUME NEW p \in Wsp!Of(d) \cap ws.here PROVE calls[d].target[p] = ws.manifest[p]
  <2>1. calls[d].target[p] = Wsp!WantedOf(p) /\ calls[d].save = {}
    BY <1>2 DEF Planned
  <2>2. CASE p \in command.hit
    BY <1>2, <2>1, <2>2 DEF Planned
  <2>3. CASE p \notin command.hit
    BY <2>1, <2>3 DEF Wsp!WantedOf
  <2> QED BY <2>2, <2>3
<1>4. \A p \in Wsp!Of(d) : ws.lock[p] = calls[d].target[p]
  BY <1>2 DEF Planned
<1>5. Wsp!PruneLockfileImporters => Wsp!Ids(ws.lock, d) = Wsp!Of(d) \cap ws.here
  BY <1>2, <1>4, IdsAre DEF Planned
<1> QED BY <1>1, <1>2, <1>3, <1>4, <1>5

LEMMA DoneIsUsable ==
  ASSUME Wsp!WorkspaceAssumption, WorkspaceInv, command.phase = "rebuilding", command.left = {}, ~command.only,
         NEW d \in Wsp!Dirs, calls[d].phase = "done", Sound(d), NEW p \in Wsp!Mutated(d)
  PROVE  p \in ws.here /\ Wsp!Usable(p)
<1> DEFINE v == ws.manifest[p]
<1>1. /\ p \in Wsp!Of(d) /\ p \in ws.here /\ p \in WsProjects /\ Wsp!Dir(p) = d /\ d \in WsProjects
      /\ WorkspaceTypes
  BY WsDirsAre DEF Wsp!Mutated, WorkspaceInv, CommandFits
<1>2. calls[d].target[p] = v /\ Begun(d) /\ Carried(d) /\ Through(d)
  BY <1>1, DoneIsWritten DEF WorkspaceInv, Through
<1>3. CASE v = Wsp!NoDep
  BY <1>1, <1>2, <1>3 DEF Carried, HasUnlinked, Wsp!Usable
<1>4. CASE v # Wsp!NoDep
  <2>1. v \in WsVersions
    BY <1>1, <1>4, ConstantsAre DEF WorkspaceInv, CommandFits, WorkspaceTypes, WsLocks
  <2>2. mods.link[p] = v
    BY <1>2, <1>4 DEF Carried, HasLinked
  <2>3. v \in Wsp!PackagesOf(calls[d].target, Wsp!Mutated(d))
    BY <1>2, <2>1 DEF Wsp!PackagesOf
  <2>4. HasStored(d, v)
    BY <1>2, <2>3 DEF Carried, HasPackages
  <2>5. mods.store[d][v] \in {"fresh", "built"}
    BY <1>1, <2>1, <2>4 DEF HasStored, WorkspaceTypes, WsModules
  <2>6. ASSUME v \in WsNeedBuild PROVE mods.store[d][v] = "built"
    <3>1. CASE oneLockfile
      BY <2>4, <2>6, <3>1 DEF HasStored
    <3>2. CASE ~oneLockfile
      BY <1>2, <2>3, <2>5, <2>6, <3>2 DEF Carried, HasRecorded
    <3> QED BY <3>1, <3>2
  <2> QED BY <1>1, <1>4, <2>2, <2>5, <2>6 DEF Wsp!Usable
<1> QED BY <1>1, <1>3, <1>4

LEMMA ConcludeKeeps ==
  ASSUME Wsp!WorkspaceAssumption, WorkspaceInv, Wsp!Conclude
  PROVE  WorkspaceInv' /\ Wsp!WorkspaceIsInstalled' /\ Wsp!OthersAreInstalled'
<1> DEFINE installed == UNION {Wsp!Mutated(d) : d \in {e \in Wsp!Dirs : calls[e].phase = "done"}}
           written == Wsp!Failed = {} /\ ~command.only
<1>1. /\ WorkspaceTypes /\ command.phase = "rebuilding" /\ command.left = {} /\ Underway /\ Wsp!AllEnded
      /\ UNCHANGED <<oneLockfile, ws, mods, spent>>
      /\ command' = [command EXCEPT !.phase = IF Wsp!Failed = {} THEN "done" ELSE "reported"]
      /\ calls' = [d \in WsProjects |-> [Wsp!NoCall EXCEPT !.phase = calls[d].phase]]
  BY DEF WorkspaceInv, CommandFits, Wsp!Conclude, Underway
<1>2. WorkspaceTypes'
  BY <1>1, ConcludeTyped
<1>3. /\ command'.phase = (IF Wsp!Failed = {} THEN "done" ELSE "reported") /\ command'.name = command.name
      /\ command'.sel = command.sel /\ command'.hit = command.hit /\ command'.version = command.version
      /\ command'.only = command.only /\ command'.left = {}
      /\ \A d \in WsProjects : calls'[d].phase = calls[d].phase
  BY <1>1 DEF WorkspaceTypes, WsCommandsMade, Wsp!NoCall
<1>4. /\ past'.strays = past.strays /\ past'.harmed = past.harmed
      /\ past'.settled = IF written THEN past.settled \cup {p \in installed : Wsp!Dir(p) \notin past.harmed}
                         ELSE past.settled
      /\ past'.broke = IF written THEN [d \in WsProjects |-> IF calls[d].phase = "done" THEN {} ELSE past.broke[d]]
                       ELSE past.broke
  <2> HIDE DEF installed
  <2> DEFINE overlooked == {p \in state.newer : ~command.only \/ calls[Wsp!Dir(p)].how = "filtered"} \ installed
  <2>1. past' = IF ~written THEN [past EXCEPT !.missed = @ \cup overlooked]
                ELSE [past EXCEPT
                   !.settled = @ \cup {p \in installed : Wsp!Dir(p) \notin past.harmed},
                   !.missed = (@ \cup overlooked) \ installed,
                   !.torn = @ /\ installed # ws.here,
                   !.broke = [d \in WsProjects |-> IF calls[d].phase = "done" THEN {} ELSE @[d]]]
    BY DEF Wsp!Conclude, installed
  <2> HIDE DEF overlooked, written
  <2>2. CASE written
    BY <1>1, <2>1, <2>2 DEF WorkspaceTypes, WsPasts
  <2>3. CASE ~written
    BY <1>1, <2>1, <2>3 DEF WorkspaceTypes, WsPasts
  <2> QED BY <2>2, <2>3
<1>5. /\ \A p : Wsp!Dir(p)' = Wsp!Dir(p)
      /\ \A d : Wsp!Of(d)' = Wsp!Of(d) /\ Wsp!Mutated(d)' = Wsp!Mutated(d)
      /\ Wsp!Dirs' = Wsp!Dirs /\ Wsp!PruneLockfileImporters' = Wsp!PruneLockfileImporters
  BY <1>1, <1>3, SetsStay
<1>6. ~Underway' /\ \A d \in WsProjects : ~Recorded(d)' /\ ~Begun(d)'
  BY <1>3 DEF Underway, Recorded, Begun
<1>7. \A p : Wsp!Usable(p)' = Wsp!Usable(p)
  <2>1. TAKE p
  <2> QED BY <1>1, <1>4, <1>5 DEF Wsp!Usable
<1>8. \A d \in WsProjects : calls[d].phase \in {"idle", "done", "failed"}
  <2>1. TAKE d \in WsProjects
  <2>2. CASE d \in Wsp!Dirs
    BY <1>1, <2>2 DEF Wsp!AllEnded
  <2>3. CASE d \notin Wsp!Dirs
    <3>1. \A p \in command.hit : Wsp!Dir(p) \in Wsp!Dirs
      BY <1>1, WsDirsAre DEF WorkspaceTypes, WsCommandsMade
    <3> QED BY <1>1, <2>3, <3>1 DEF WorkspaceInv, CommandFits
  <2> QED BY <2>2, <2>3
<1>9. CommandFits'
  <2>1. command'.phase # "rebuilding"
    BY <1>3
  <2> QED BY <1>1, <1>3, <1>6, <1>8, <2>1 DEF WorkspaceInv, CommandFits
<1>10. ASSUME NEW p \in WsProjects PROVE LinkFits(p)'
  <2> DEFINE d == Wsp!Dir(p)
  <2>1. LinkFits(p) /\ d \in WsProjects /\ d \in Wsp!Dirs /\ (Sound(d)' <=> Sound(d)) /\ d' = d
    BY <1>4, <1>5, WsDirsAre DEF WorkspaceInv, Sound
  <2>2. ASSUME p \in ws.here, Sound(d), ~(p \in past.strays \/ mods.link[p] \in {Wsp!NoDep, mods.current[p]})
        PROVE  ~Recorded(d) /\ \E lockfile \in past.broke[d] : mods.link[p] = lockfile[p]
    <3>1. LinkIs(p, d)
      BY <2>1, <2>2 DEF LinkFits
    <3>2. calls[d].phase \notin {"build", "write"}
      BY <1>8, <2>1
    <3> QED BY <2>2, <3>1, <3>2 DEF LinkIs
  <2>3. ASSUME ~Recorded(d) PROVE past'.broke[d] = past.broke[d]
    <3>1. CASE written /\ calls[d].phase = "done"
      <4>1. Planned(d) /\ ~command.only
        BY <1>1, <2>1, <3>1, DoneIsWritten
      <4>2. Recorded(d)
        BY <1>1, <3>1, <4>1 DEF Planned, Recorded
      <4> QED BY <2>3, <4>2
    <3>2. CASE ~(written /\ calls[d].phase = "done")
      <4> HIDE DEF d, written
      <4> QED BY <1>4, <2>1, <3>2
    <3> QED BY <3>1, <3>2
  <2>4. p \notin ws'.here => mods'.link[p] = Wsp!NoDep
    BY <1>1, <2>1 DEF LinkFits
  <2>5. ~Recorded(d)'
    BY <1>3 DEF Recorded, Underway
  <2> HIDE DEF d
  <2>6. p \in ws'.here /\ Sound(d)' =>
          \/ p \in past'.strays \/ mods'.link[p] \in {Wsp!NoDep, mods'.current[p]}
          \/ ~Recorded(d)' /\ \E lockfile \in past'.broke[d'] : mods'.link[p] = lockfile[p]
    BY <1>1, <1>4, <2>1, <2>2, <2>3, <2>5
  <2> QED BY <2>4, <2>6, LinkFitsNow DEF d
<1>11. StoreFits'
  <2>1. WsRoot \in WsProjects
    BY ConstantsAre
  <2> QED BY <1>1, <1>4, <1>8, <2>1 DEF WorkspaceInv, StoreFits, Sound
<1>12. ASSUME NEW p \in installed, Wsp!Dir(p) \notin past.harmed, ~command.only
       PROVE  p \in ws.here /\ Wsp!Usable(p)
  <2>1. PICK d \in Wsp!Dirs : calls[d].phase = "done" /\ p \in Wsp!Mutated(d)
    OBVIOUS
  <2>2. Wsp!Dir(p) = d
    BY <2>1, WsDirsAre DEF Wsp!Mutated
  <2> QED BY <1>1, <1>12, <2>1, <2>2, DoneIsUsable DEF Sound
<1>13. ASSUME NEW p \in past'.settled PROVE Settled(p)'
  <2>1. p \in past.settled \/ (p \in installed /\ Wsp!Dir(p) \notin past.harmed /\ ~command.only)
    <3> HIDE DEF installed
    <3> QED BY <1>4, <1>13
  <2>2. p \in ws.here /\ Wsp!Usable(p)
    <3>1. CASE p \in past.settled
      BY <3>1 DEF WorkspaceInv, Settled
    <3>2. CASE p \in installed /\ Wsp!Dir(p) \notin past.harmed /\ ~command.only
      BY <1>12, <3>2
    <3> QED BY <2>1, <3>1, <3>2
  <2>3. Wsp!Usable(p)'
    BY <1>7, <2>2
  <2> QED BY <1>1, <1>6, <2>2, <2>3 DEF Settled
<1>14. WorkspaceInv'
  <2> HIDE DEF installed, written
  <2>1. \A d \in WsProjects : (Begun(d)' => Planned(d)') /\ (Begun(d)' /\ Sound(d)' => Carried(d)')
    BY <1>6
  <2> QED BY <1>2, <1>9, <1>10, <1>11, <1>13, <2>1 DEF WorkspaceInv
<1>15. ASSUME NEW d \in Wsp!Dirs, calls[d].phase = "done", ~command.only, d \notin past.harmed
       PROVE  \A p \in Wsp!Mutated(d) : Wsp!Usable(p)'
  BY <1>1, <1>7, <1>15, DoneIsUsable DEF Sound
<1>16. \A d \in Wsp!Dirs : calls'[d].phase = calls[d].phase
  BY <1>3, WsDirsAre
<1>17. Wsp!WorkspaceIsInstalled'
  <2>1. SUFFICES ASSUME command'.phase = "done"
                 PROVE  /\ \A d \in Wsp!Dirs : calls[d].phase = "done" =>
                             /\ \A p \in Wsp!Of(d) \cap ws.here : ws.lock[p] = ws.manifest[p]
                             /\ Wsp!PruneLockfileImporters => Wsp!Ids(ws.lock, d)' = Wsp!Of(d) \cap ws.here
                             /\ command.only \/ d \in past.harmed \/ \A p \in Wsp!Mutated(d) : Wsp!Usable(p)'
                        /\ \A p \in command.hit : calls[Wsp!Dir(p)].phase = "done" /\ Wsp!Dir(p) \in Wsp!Dirs
    <3> HIDE DEF installed, written
    <3> QED BY <1>1, <1>3, <1>4, <1>5, <1>16 DEF Wsp!WorkspaceIsInstalled
  <2>2. ASSUME NEW d \in Wsp!Dirs, calls[d].phase = "done"
        PROVE  /\ \A p \in Wsp!Of(d) \cap ws.here : ws.lock[p] = ws.manifest[p]
               /\ Wsp!PruneLockfileImporters => Wsp!Ids(ws.lock, d)' = Wsp!Of(d) \cap ws.here
               /\ command.only \/ d \in past.harmed \/ \A p \in Wsp!Mutated(d) : Wsp!Usable(p)'
    <3>1. Wsp!Ids(ws.lock, d)' = Wsp!Ids(ws.lock, d)
      BY <1>1, <1>5 DEF Wsp!Ids
    <3>2. /\ \A p \in Wsp!Of(d) \cap ws.here : ws.lock[p] = ws.manifest[p]
          /\ Wsp!PruneLockfileImporters => Wsp!Ids(ws.lock, d) = Wsp!Of(d) \cap ws.here
      BY <1>1, <2>2, DoneIsWritten
    <3> QED BY <1>15, <2>2, <3>1, <3>2
  <2>3. ASSUME NEW p \in command.hit PROVE calls[Wsp!Dir(p)].phase = "done" /\ Wsp!Dir(p) \in Wsp!Dirs
    <3>1. Wsp!Dir(p) \in Wsp!Dirs /\ Wsp!Dir(p) \in WsProjects
      BY <1>1, WsDirsAre DEF WorkspaceTypes, WsCommandsMade
    <3>2. calls[Wsp!Dir(p)].phase # "idle"
      BY <1>1 DEF WorkspaceInv, CommandFits
    <3>3. Wsp!Failed = {}
      BY <1>3, <2>1
    <3> QED BY <1>8, <3>1, <3>2, <3>3 DEF Wsp!Failed
  <2> QED BY <2>2, <2>3
<1>18. Wsp!OthersAreInstalled'
  <2>1. Wsp!Failed' = Wsp!Failed
    BY <1>5, <1>16 DEF Wsp!Failed
  <2>2. SUFFICES ASSUME command'.phase = "reported"
                 PROVE  /\ Wsp!Failed # {}
                        /\ command.only \/ \A d \in Wsp!Dirs : calls[d].phase = "done" /\ d \notin past.harmed =>
                                             \A p \in Wsp!Mutated(d) : Wsp!Usable(p)'
    <3> HIDE DEF installed, written
    <3> QED BY <1>1, <1>3, <1>4, <1>5, <1>16, <2>1 DEF Wsp!OthersAreInstalled
  <2> QED BY <1>3, <1>15, <2>2
<1> QED BY <1>14, <1>17, <1>18

LEMMA WorkspaceInitHolds ==
  ASSUME Wsp!WorkspaceAssumption, Wsp!Init
  PROVE  WorkspaceInv /\ Wsp!WorkspaceIsInstalled /\ Wsp!OthersAreInstalled
<1>1. PICK w \in WsSetups, installed \in BOOLEAN :
        LET here == {p \in WsProjects : w.manifest[p] # Wsp!Absent}
            lock == [p \in WsProjects |-> IF installed THEN w.manifest[p] ELSE Wsp!Absent]
        IN  /\ oneLockfile = w.oneLockfile
            /\ ws = [here |-> here, manifest |-> w.manifest, lock |-> lock]
            /\ IF installed THEN Wsp!Installed(here) ELSE Wsp!Fresh(here)
            /\ past = [settled |-> IF installed THEN here ELSE {}, missed |-> {}, strays |-> {},
                       harmed |-> {}, torn |-> FALSE, broke |-> [d \in WsProjects |-> {}]]
  BY DEF Wsp!Init
<1>2. w.oneLockfile \in BOOLEAN /\ w.manifest \in WsLocks
  BY DEF Wsp!WorkspaceAssumption, WsLocks
<1>3. /\ command = Wsp!NoCommand /\ calls = [d \in WsProjects |-> Wsp!NoCall]
      /\ spent = [commands |-> 0, edits |-> 0, breaks |-> 0]
  BY DEF Wsp!Init
<1> DEFINE here == {p \in WsProjects : w.manifest[p] # Wsp!Absent}
           lock == [p \in WsProjects |-> IF installed THEN w.manifest[p] ELSE Wsp!Absent]
<1>4. /\ ws = [here |-> here, manifest |-> w.manifest, lock |-> lock] /\ oneLockfile = w.oneLockfile
      /\ past = [settled |-> IF installed THEN here ELSE {}, missed |-> {}, strays |-> {},
                 harmed |-> {}, torn |-> FALSE, broke |-> [d \in WsProjects |-> {}]]
      /\ IF installed THEN Wsp!Installed(here) ELSE Wsp!Fresh(here)
  BY <1>1
<1>5. here \subseteq WsProjects /\ lock \in WsLocks
  BY <1>2, ConstantsAre DEF WsLocks
<1>6. \A p \in WsProjects : p \in here <=> w.manifest[p] # Wsp!Absent
  OBVIOUS
<1>7. installed => lock = w.manifest
  BY <1>2 DEF WsLocks
<1> HIDE DEF here, lock
<1>8. /\ mods \in WsModules /\ state \in WsStates
      /\ \A p \in WsProjects : /\ p \notin here => mods.link[p] = Wsp!NoDep
                               /\ mods.link[p] \in {Wsp!NoDep, mods.current[p]}
      /\ \A d \in WsProjects : \A v \in mods.packages[d] \cap WsNeedBuild : mods.store[d][v] \in {"absent", "built"}
      /\ installed => \A p \in here : mods.link[p] = w.manifest[p] /\ \A v \in WsVersions : w.manifest[p] = v =>
           mods.store[Wsp!Dir(p)][v] = IF v \in WsNeedBuild THEN "built" ELSE "fresh"
  <2>1. CASE ~installed
    <3>1. /\ mods = [current |-> lock, packages |-> [p \in WsProjects |-> {}],
                     store |-> [p \in WsProjects |-> [v \in WsVersions |-> "absent"]],
                     link |-> [p \in WsProjects |-> Wsp!NoDep]]
          /\ state = [exists |-> FALSE, filtered |-> FALSE, projects |-> {}, newer |-> here, lockNewer |-> {}]
      BY <1>4, <2>1 DEF Wsp!Fresh
    <3>2. mods \in WsModules /\ state \in WsStates
      BY <1>5, <3>1 DEF WsModules, WsStates
    <3> QED BY <2>1, <3>1, <3>2
  <2>2. CASE installed
    <3> DEFINE packages == [d \in WsProjects |-> IF d \in Wsp!Dirs THEN Wsp!PackagesOf(lock, Wsp!Of(d)) ELSE {}]
               recorded == [p \in WsProjects |-> IF packages[Wsp!Dir(p)] = {} THEN Wsp!Absent ELSE lock[p]]
               store == [d \in WsProjects |-> [v \in WsVersions |->
                   IF v \notin packages[d] THEN "absent" ELSE IF v \in WsNeedBuild THEN "built" ELSE "fresh"]]
               linking == [p \in WsProjects |-> IF p \in here THEN lock[p] ELSE Wsp!NoDep]
    <3>1. /\ mods = [current |-> recorded, packages |-> packages, store |-> store, link |-> linking]
          /\ state = [exists |-> TRUE, filtered |-> FALSE, projects |-> here, newer |-> {}, lockNewer |-> {}]
      BY <1>4, <2>2 DEF Wsp!Installed
    <3>2. packages \in [WsProjects -> SUBSET WsVersions]
      BY DEF Wsp!PackagesOf
    <3>3. recorded \in WsLocks
      BY <1>5 DEF WsLocks, Wsp!Importers
    <3>4. \A p \in here : lock[p] \in WsVersions \cup {Wsp!NoDep}
      BY <1>5, <1>6, <1>7, <2>2, ConstantsAre DEF WsLocks
    <3>5. linking \in [WsProjects -> WsVersions \cup {Wsp!NoDep}]
      BY <3>4
    <3>6. ASSUME NEW p \in here, lock[p] \in WsVersions
          PROVE  lock[p] \in packages[Wsp!Dir(p)] /\ Wsp!Dir(p) \in WsProjects
      BY <1>5, <3>6, WsDirsAre DEF Wsp!PackagesOf
    <3>7. ASSUME NEW p \in WsProjects PROVE linking[p] \in {Wsp!NoDep, recorded[p]}
      <4>1. CASE p \in here /\ lock[p] # Wsp!NoDep
        BY <3>4, <3>6, <4>1
      <4>2. CASE ~(p \in here /\ lock[p] # Wsp!NoDep)
        BY <4>2
      <4> QED BY <4>1, <4>2
    <3>8. ASSUME NEW p \in here, NEW v \in WsVersions, lock[p] = v
          PROVE  store[Wsp!Dir(p)][v] = IF v \in WsNeedBuild THEN "built" ELSE "fresh"
      BY <3>6, <3>8
    <3>9. store \in [WsProjects -> [WsVersions -> {"absent", "fresh", "built"}]]
      OBVIOUS
    <3>10. ASSUME NEW d \in WsProjects, NEW v \in packages[d] \cap WsNeedBuild PROVE store[d][v] \in {"absent", "built"}
      BY <3>2
    <3>11. \A p \in WsProjects : linking[p] = IF p \in here THEN lock[p] ELSE Wsp!NoDep
      OBVIOUS
    <3> HIDE DEF packages, recorded, store, linking
    <3>12. mods \in WsModules /\ state \in WsStates
      BY <1>5, <3>1, <3>2, <3>3, <3>5, <3>9 DEF WsModules, WsStates
    <3>13. /\ \A p \in WsProjects : /\ p \notin here => mods.link[p] = Wsp!NoDep
                                    /\ mods.link[p] \in {Wsp!NoDep, mods.current[p]}
           /\ \A d \in WsProjects : \A v \in mods.packages[d] \cap WsNeedBuild : mods.store[d][v] \in {"absent", "built"}
      BY <3>1, <3>7, <3>10, <3>11
    <3>14. \A p \in here : mods.link[p] = w.manifest[p] /\ \A v \in WsVersions : w.manifest[p] = v =>
              mods.store[Wsp!Dir(p)][v] = IF v \in WsNeedBuild THEN "built" ELSE "fresh"
      BY <1>5, <1>7, <2>2, <3>1, <3>8, <3>11
    <3> QED BY <3>12, <3>13, <3>14
  <2> QED BY <2>1, <2>2
<1>9. WorkspaceTypes
  <2>1. past \in WsPasts
    BY <1>4, <1>5 DEF WsPasts
  <2>2. spent \in WsSpents
    BY <1>3, ConstantsAre DEF WsSpents
  <2>3. ws \in [here : SUBSET WsProjects, manifest : WsLocks, lock : WsLocks]
    BY <1>2, <1>4, <1>5
  <2>4. command \in WsCommandsMade /\ calls \in [WsProjects -> WsCalls]
    BY <1>3, NoCommandTyped, NoCallTyped
  <2> QED BY <1>2, <1>4, <1>8, <2>1, <2>2, <2>3, <2>4 DEF WorkspaceTypes
<1>10. command.phase = "idle" /\ ~Underway
  BY <1>3 DEF Underway, Wsp!NoCommand
<1>11. CommandFits
  BY <1>3, <1>4, <1>6, <1>10 DEF CommandFits, Wsp!NoCommand, Wsp!NoCall
<1>12. \A p \in WsProjects : LinkFits(p)
  BY <1>4, <1>8 DEF LinkFits, LinkIs
<1>13. StoreFits
  BY <1>8, ConstantsAre DEF StoreFits
<1>14. ASSUME NEW p \in past.settled PROVE Settled(p)
  <2>1. installed /\ p \in here
    BY <1>4, <1>14
  <2>2. w.manifest[p] \in WsVersions \cup {Wsp!NoDep}
    BY <1>2, <1>5, <1>6, <2>1, ConstantsAre DEF WsLocks
  <2>3. Wsp!Usable(p)
    BY <1>4, <1>8, <2>1, <2>2 DEF Wsp!Usable
  <2> QED BY <1>4, <1>10, <2>1, <2>3 DEF Settled
<1>15. \A d \in WsProjects : ~Begun(d)
  BY <1>10 DEF Begun
<1> QED BY <1>9, <1>10, <1>11, <1>12, <1>13, <1>14, <1>15 DEF WorkspaceInv, Wsp!WorkspaceIsInstalled, Wsp!OthersAreInstalled

\* A step that is no end of a command leaves none behind.
LEMMA NoEndYet ==
  ASSUME command'.phase \notin {"done", "reported"}
  PROVE  Wsp!WorkspaceIsInstalled' /\ Wsp!OthersAreInstalled'
BY DEF Wsp!WorkspaceIsInstalled, Wsp!OthersAreInstalled

LEMMA CallsKeep ==
  ASSUME Wsp!WorkspaceAssumption, WorkspaceInv, NEW d \in Wsp!Dirs,
         \/ Wsp!Start(d) \/ Wsp!WriteLockfileFirst(d) \/ Wsp!Import(d) \/ Wsp!LinkDirect(d) \/ Wsp!Build(d) \/ Wsp!Fail(d)
         \/ \E b \in BOOLEAN : Wsp!PruneModules(d, b)
         \/ \E file \in {"wanted", "current"} : Wsp!WriteLockfile(d, file)
         \/ \E p \in Wsp!Of(d) : Wsp!SaveManifest(d, p)
  PROVE  WorkspaceInv' /\ Wsp!WorkspaceIsInstalled' /\ Wsp!OthersAreInstalled'
<1>1. CASE Wsp!Start(d)
  <2>1. command'.phase \notin {"done", "reported"}
    BY <1>1 DEF Wsp!Start
  <2> QED BY <1>1, <2>1, StartKeeps, NoEndYet
<1>2. CASE Wsp!Fail(d)
  <2>1. command'.phase \notin {"done", "reported"}
    BY <1>2 DEF Wsp!Fail, WorkspaceInv, WorkspaceTypes, WsCommandsMade
  <2> QED BY <1>2, <2>1, FailKeeps, NoEndYet
<1>3. ASSUME calls[d].phase \in Wsp!Active, command' = command
      PROVE  Wsp!WorkspaceIsInstalled' /\ Wsp!OthersAreInstalled'
  <2>1. command.phase \in {"running", "bailing"}
    BY <1>3, CallIs
  <2> QED BY <1>3, <2>1, NoEndYet
<1>4. CASE Wsp!WriteLockfileFirst(d)
  BY <1>3, <1>4, WriteLockfileFirstKeeps DEF Wsp!WriteLockfileFirst, Wsp!Active
<1>5. CASE Wsp!Import(d)
  BY <1>3, <1>5, WsImportKeeps DEF Wsp!Import, Wsp!Active
<1>6. CASE Wsp!LinkDirect(d)
  BY <1>3, <1>6, WsLinkDirectKeeps DEF Wsp!LinkDirect, Wsp!Active
<1>7. CASE Wsp!Build(d)
  BY <1>3, <1>7, WsBuildKeeps DEF Wsp!Build, Wsp!Active
<1>8. CASE \E b \in BOOLEAN : Wsp!PruneModules(d, b)
  BY <1>3, <1>8, PruneModulesKeeps DEF Wsp!PruneModules, Wsp!Active
<1>9. CASE \E file \in {"wanted", "current"} : Wsp!WriteLockfile(d, file)
  <2>1. calls[d].phase \in Wsp!Active /\ command' = command
    BY <1>9 DEF Wsp!WriteLockfile, Wsp!Active
  <2>2. Wsp!WriteLockfile(d, "wanted") \/ Wsp!WriteLockfile(d, "current")
    BY <1>9
  <2> QED BY <1>3, <2>1, <2>2, WriteWantedKeeps, WriteCurrentKeeps
<1>10. CASE \E p \in Wsp!Of(d) : Wsp!SaveManifest(d, p)
  BY <1>3, <1>10, SaveManifestKeeps DEF Wsp!SaveManifest, Wsp!Active
<1> QED BY <1>1, <1>2, <1>4, <1>5, <1>6, <1>7, <1>8, <1>9, <1>10

LEMMA WorkspaceStays ==
  ASSUME WorkspaceInv, Wsp!WorkspaceIsInstalled, Wsp!OthersAreInstalled, UNCHANGED Wsp!workspaceVars
  PROVE  WorkspaceInv' /\ Wsp!WorkspaceIsInstalled' /\ Wsp!OthersAreInstalled'
<1>1. UNCHANGED <<oneLockfile, ws, mods, state, command, calls, past, spent>>
  BY DEF Wsp!workspaceVars
<1>2. WorkspaceTypes' /\ CommandFits' /\ StoreFits'
  BY <1>1 DEF WorkspaceInv, WorkspaceTypes, CommandFits, StoreFits, Sound, Underway, Wsp!AllEnded, Wsp!Dirs, Wsp!Dir
<1>3. (\A d \in WsProjects : Begun(d) => Planned(d))'
  BY <1>1 DEF WorkspaceInv, Begun, Planned, Underway, Sound, Wsp!Dirs, Wsp!Of, Wsp!Dir, Wsp!Mutated, Wsp!Ids,
     Wsp!WantedOf, Wsp!PruneLockfileImporters
<1>4. (\A d \in WsProjects : Begun(d) /\ Sound(d) => Carried(d))'
  BY <1>1 DEF WorkspaceInv, Begun, Carried, Underway, Sound, Wsp!Dirs, Wsp!Of, Wsp!Dir, Wsp!Mutated, Wsp!PackagesOf,
     Through, HasStored, HasPackages, HasUnlinked, HasLinked, HasRecorded
<1>5. (\A p \in WsProjects : LinkFits(p))'
  BY <1>1 DEF WorkspaceInv, LinkFits, LinkIs, Recorded, Underway, Sound, Wsp!Dir
<1>6. (\A p \in past.settled : Settled(p))'
  BY <1>1 DEF WorkspaceInv, Settled, Underway, Wsp!Usable, Wsp!Mutated, Wsp!Of, Wsp!Dir
<1>7. Wsp!WorkspaceIsInstalled' /\ Wsp!OthersAreInstalled'
  BY <1>1 DEF Wsp!WorkspaceIsInstalled, Wsp!OthersAreInstalled, Wsp!Usable, Wsp!Mutated, Wsp!Of, Wsp!Dir, Wsp!Dirs,
     Wsp!Ids, Wsp!PruneLockfileImporters, Wsp!Failed
<1> QED BY <1>2, <1>3, <1>4, <1>5, <1>6, <1>7 DEF WorkspaceInv

LEMMA WorkspaceStepKeeps ==
  ASSUME Wsp!WorkspaceAssumption, WorkspaceInv, Wsp!WorkspaceIsInstalled, Wsp!OthersAreInstalled,
         [Wsp!Next]_Wsp!workspaceVars
  PROVE  WorkspaceInv' /\ Wsp!WorkspaceIsInstalled' /\ Wsp!OthersAreInstalled'
<1>1. CASE UNCHANGED Wsp!workspaceVars
  BY <1>1, WorkspaceStays
<1>2. CASE Wsp!Skip \/ Wsp!Verify
  <2>1. command'.phase \notin {"done", "reported"}
    BY <1>2 DEF Wsp!Skip, Wsp!Verify, Wsp!Check, Wsp!NoCommand
  <2> QED BY <1>2, <2>1, CheckKeeps, NoEndYet
<1>3. CASE Wsp!StartRebuild
  <2>1. command'.phase \notin {"done", "reported"}
    BY <1>3 DEF Wsp!StartRebuild, WorkspaceInv, WorkspaceTypes, WsCommandsMade
  <2> QED BY <1>3, <2>1, StartRebuildKeeps, NoEndYet
<1>4. CASE Wsp!Conclude
  BY <1>4, ConcludeKeeps
<1>5. CASE Wsp!Exit \/ Wsp!Kill
  <2>1. command'.phase \notin {"done", "reported"}
    BY <1>5 DEF Wsp!Exit, Wsp!Kill, Wsp!Stop, WorkspaceInv, WorkspaceTypes, WsCommandsMade
  <2> QED BY <1>5, <2>1, StopKeeps, NoEndYet
<1>6. ASSUME NEW sel, NEW c \in WsCommands[oneLockfile], Wsp!Begin(c.name, sel, c.version, c.only, c.bail)
      PROVE  WorkspaceInv' /\ Wsp!WorkspaceIsInstalled' /\ Wsp!OthersAreInstalled'
  <2>1. command'.phase \notin {"done", "reported"}
    BY <1>6 DEF Wsp!Begin, Wsp!NoCommand
  <2> QED BY <1>6, <2>1, WsBeginKeeps, NoEndYet
<1>7. ASSUME NEW p \in WsProjects, Wsp!RebuildProject(p)
      PROVE  WorkspaceInv' /\ Wsp!WorkspaceIsInstalled' /\ Wsp!OthersAreInstalled'
  <2>1. command'.phase \notin {"done", "reported"}
    BY <1>7 DEF Wsp!RebuildProject, WorkspaceInv, WorkspaceTypes, WsCommandsMade
  <2> QED BY <1>7, <2>1, RebuildProjectKeeps, NoEndYet
<1>8. ASSUME NEW p \in WsProjects, Wsp!RemoveProject(p)
      PROVE  WorkspaceInv' /\ Wsp!WorkspaceIsInstalled' /\ Wsp!OthersAreInstalled'
  <2>1. command'.phase \notin {"done", "reported"}
    BY <1>8 DEF Wsp!RemoveProject, Wsp!Edited, Wsp!NoCommand
  <2> QED BY <1>8, <2>1, RemoveProjectKeeps, NoEndYet
<1>9. ASSUME NEW p \in WsProjects, NEW v \in WsVersions \cup {Wsp!NoDep}, Wsp!EditManifest(p, v)
      PROVE  WorkspaceInv' /\ Wsp!WorkspaceIsInstalled' /\ Wsp!OthersAreInstalled'
  <2>1. command'.phase \notin {"done", "reported"}
    BY <1>9 DEF Wsp!EditManifest, Wsp!Edited, Wsp!NoCommand
  <2> QED BY <1>9, <2>1, WsEditManifestKeeps, NoEndYet
<1> QED BY <1>1, <1>2, <1>3, <1>4, <1>5, <1>6, <1>7, <1>8, <1>9, CallsKeep DEF Wsp!Next

LEMMA WorkspaceInvHolds ==
  ASSUME Wsp!WorkspaceAssumption
  PROVE  Wsp!Spec => [](WorkspaceInv /\ Wsp!WorkspaceIsInstalled /\ Wsp!OthersAreInstalled)
<1>1. Wsp!Init => WorkspaceInv /\ Wsp!WorkspaceIsInstalled /\ Wsp!OthersAreInstalled
  BY WorkspaceInitHolds
<1>2. WorkspaceInv /\ Wsp!WorkspaceIsInstalled /\ Wsp!OthersAreInstalled /\ [Wsp!Next]_Wsp!workspaceVars =>
        WorkspaceInv' /\ Wsp!WorkspaceIsInstalled' /\ Wsp!OthersAreInstalled'
  BY WorkspaceStepKeeps
<1> QED BY <1>1, <1>2, PTL DEF Wsp!Spec

\* The state of a workspace, of a command and of its calls stays in its domains.
THEOREM WorkspaceTypeCorrect ==
  ASSUME Wsp!WorkspaceAssumption PROVE Wsp!Spec => []Wsp!WorkspaceTypeOK
<1>1. ASSUME WorkspaceInv PROVE Wsp!WorkspaceTypeOK
  <2>1. /\ ws.here \subseteq WsProjects /\ {ws.manifest, ws.lock, mods.current} \subseteq [WsProjects -> Wsp!Importers]
        /\ mods.packages \in [WsProjects -> SUBSET WsVersions]
        /\ mods.store \in [WsProjects -> [WsVersions -> {"absent", "fresh", "built"}]]
        /\ mods.link \in [WsProjects -> WsVersions \cup {Wsp!NoDep}]
    BY <1>1 DEF WorkspaceInv, WorkspaceTypes, WsModules, WsLocks
  <2>2. /\ {state.exists, state.filtered} \subseteq BOOLEAN
        /\ state.projects \cup state.newer \cup state.lockNewer \subseteq WsProjects
    BY <1>1 DEF WorkspaceInv, WorkspaceTypes, WsStates
  <2>3. /\ command.phase \in Wsp!Rest \cup {"running", "bailing", "rebuilding"}
        /\ command.hit \subseteq command.sel /\ command.left \subseteq command.sel
    BY <1>1 DEF WorkspaceInv, CommandFits, WorkspaceTypes, WsCommandsMade
  <2>4. ASSUME NEW d \in WsProjects
        PROVE  /\ \E i \in DOMAIN Wsp!Phases : calls[d].phase = Wsp!Phases[i]
               /\ calls[d].build \subseteq WsNeedBuild /\ calls[d].write \subseteq {"wanted", "current"}
    <3>1. calls[d] \in WsCalls
      BY <1>1 DEF WorkspaceInv, WorkspaceTypes
    <3>2. calls[d].phase \in WsPhases
      BY <3>1 DEF WsCalls
    <3>3. \A phase \in WsPhases : \E i \in DOMAIN Wsp!Phases : phase = Wsp!Phases[i]
      BY DEF WsPhases, Wsp!Phases
    <3> QED BY <3>1, <3>2, <3>3 DEF WsCalls
  <2>5. /\ past.settled \cup past.missed \cup past.strays \cup past.harmed \subseteq WsProjects
        /\ spent.commands \in 0..MaxCommands /\ spent.edits \in 0..MaxEdits /\ spent.breaks \in 0..MaxBreaks
    BY <1>1 DEF WorkspaceInv, WorkspaceTypes, WsPasts, WsSpents
  <2>6. oneLockfile \in BOOLEAN
    BY <1>1 DEF WorkspaceInv, WorkspaceTypes
  <2> QED BY <2>1, <2>2, <2>3, <2>4, <2>5, <2>6 DEF Wsp!WorkspaceTypeOK
<1> QED BY <1>1, WorkspaceInvHolds, PTL

\* For any projects, filters, edits and failures: a command that ends well has
\* written the lockfile of all projects, has installed and built those it was
\* asked for, and one of everything has dropped the projects that are gone
\* (recursive.ts, core/src/install/index.ts).
THEOREM WorkspacesAreInstalled ==
  ASSUME Wsp!WorkspaceAssumption PROVE Wsp!Spec => []Wsp!WorkspaceIsInstalled
BY WorkspaceInvHolds, PTL

\* At no moment, also while another project is installed or after that broke
\* off, does a project that was installed lose its dependency, before it is
\* edited or installed anew (prune.ts, lockfileToDepGraph.ts).
THEOREM SettledOnesStay ==
  ASSUME Wsp!WorkspaceAssumption PROVE Wsp!Spec => []Wsp!SettledStay
<1>1. WorkspaceInv => Wsp!SettledStay
  BY DEF WorkspaceInv, Settled, Wsp!SettledStay
<1> QED BY <1>1, WorkspaceInvHolds, PTL

\* Without bail a failure is reported, and does not keep the other projects from
\* being installed and built (recursive.ts).
THEOREM OthersGetInstalled ==
  ASSUME Wsp!WorkspaceAssumption PROVE Wsp!Spec => []Wsp!OthersAreInstalled
BY WorkspaceInvHolds, PTL

-----------------------------------------------------------------------------
\* What a check finds up to date

\* What is known of a call: what it does in which order, and what it has written
\* of the projects, those that it does not install included.
Intact == ~past.torn
RecordedAs(c, target) == c = target \/ (c = Wsp!Absent /\ target = Wsp!NoDep)
Finishing(d) == Begun(d) /\ calls[d].phase \in {"write", "save", "done"} /\ "current" \notin calls[d].write
Overlooks(p) == p \in state.newer \/ (state.filtered /\ p \in past.missed)

CallWrites(d) ==
  /\ ~Underway => calls[d].write = {} /\ calls[d].save = {} /\ calls[d].build = {}
  /\ Begun(d) /\ command.only /\ calls[d].how # "filtered" =>
       calls[d].phase \in {"lock", "save", "done"} /\ "current" \in calls[d].write /\ calls[d].build = {}
  /\ Begun(d) /\ calls[d].phase \in {"save", "done"} =>
       calls[d].write = {} \/ (command.only /\ calls[d].how # "filtered")
  /\ calls[d].write = {"wanted"} => calls[d].phase \in {"write", "failed"}
  /\ calls[d].how = "filtered" => oneLockfile
  /\ calls[d].phase = "waiting" => calls[d].save = {}
  /\ Begun(d) /\ calls[d].save # {} => command.name # "install" /\ calls[d].how # "frozen"
  /\ Begun(d) /\ calls[d].how # "frozen" /\ calls[d].phase # "lock"
       /\ ("wanted" \notin calls[d].write \/ calls[d].phase \in {"save", "done"}) => d \in state.lockNewer
  /\ Intact /\ calls[d].phase = "failed" => (~oneLockfile => calls[d].build = {}) /\ calls[d].write # {"wanted"}
CallBuilds(d) ==
  /\ calls[d].phase \in {"idle", "waiting", "lock", "prune", "import"} => calls[d].build = {}
  /\ Begun(d) => calls[d].build \subseteq Wsp!PackagesOf(calls[d].target, Wsp!Mutated(d))
  /\ calls[d].phase = "link" =>
       Wsp!PackagesOf(calls[d].target, Wsp!Mutated(d)) \cap WsNeedBuild \subseteq mods.packages[d] \cup calls[d].build
CallRecords(d) == Finishing(d) =>
  /\ \A p \in Wsp!Of(d) \cap ws.here : RecordedAs(mods.current[p], calls[d].target[p])
  /\ oneLockfile => \A p \in ws.here :
       /\ p \in Wsp!Mutated(d) \/ p \in past.strays \/ mods.link[p] \in {Wsp!NoDep, calls[d].target[p]}
       /\ calls[d].target[p] \in WsVersions /\ (p \in Wsp!Mutated(d) \/ (Intact /\ ~Overlooks(p))) =>
            calls[d].target[p] \in mods.packages[d]

CommandIs == Underway =>
  /\ command.hit # {} /\ (command.name = "install" => command.hit = command.sel)
  /\ \A p \in command.sel \ command.hit : ws.manifest[p] = Wsp!NoDep
  /\ oneLockfile /\ command.phase # "bailing" => calls[WsRoot].phase # "failed"

\* Which projects the state knows, and what is there of those that are gone.
StateIs ==
  /\ WsRoot \in state.projects => WsRoot \in ws.here
  /\ ws.here \ state.projects \subseteq state.newer /\ state.newer \cup past.missed \subseteq ws.here
  /\ oneLockfile /\ Intact /\ WsRoot \in past.missed => state.filtered
RestIsEmpty ==
  /\ oneLockfile => \A d \in WsProjects \ {WsRoot} : \A v \in WsVersions : mods.store[d][v] = "absent"
  /\ ~oneLockfile => /\ past.strays = {}
                     /\ \A p \in WsProjects \ ws.here :
                          /\ mods.current[p] = Wsp!Absent /\ ws.lock[p] = Wsp!Absent
                          /\ \A v \in WsVersions : mods.store[p][v] = "absent"

\* The lockfiles, the links and the packages of a project
LockIsCurrent(p) == mods.current[p] = ws.lock[p] \/ (mods.current[p] = Wsp!Absent /\ ws.lock[p] = Wsp!NoDep)
Unsaved(p) == Underway /\ p \in calls[Wsp!Dir(p)].save /\ calls[Wsp!Dir(p)].phase \in Wsp!Active \ {"lock"}
Passed(p) == ~oneLockfile /\ p \in past.missed
Overlooked(p) ==
  /\ oneLockfile /\ Underway /\ p \in (ws.here \cap state.newer) \ Wsp!Mutated(WsRoot)
  /\ calls[WsRoot].phase \in {"import", "link", "build", "write", "save", "done"}
  /\ command.only => calls[WsRoot].how = "filtered"
Relinks(p, d) ==
  /\ calls[d].phase \in {"import", "link", "build", "write"} /\ "current" \in calls[d].write
  /\ p \in Wsp!Mutated(d) /\ calls[d].target[p] # mods.current[p]
Returned(p) == oneLockfile /\ ~state.filtered /\ p \in state.newer /\ p # WsRoot /\ mods.link[p] = Wsp!NoDep

ManifestIsLocked(p) ==
  Intact /\ p \in ws.here \cap state.projects /\ p \notin state.newer /\ ~Unsaved(p) =>
    Passed(p) \/ (ws.lock[p] = ws.manifest[p] /\ LockIsCurrent(p))
LockIsInstalled(p) ==
  Intact /\ p \in state.projects /\ Wsp!Dir(p) \notin state.lockNewer /\ calls[Wsp!Dir(p)].write # {"wanted"} =>
    Passed(p) \/ LockIsCurrent(p)
CurrentIsLinked(p) ==
  (/\ Intact /\ p \in ws.here \cap state.projects /\ Sound(Wsp!Dir(p))
   /\ p \notin past.missed /\ mods.current[p] \in WsVersions) =>
    \/ mods.link[p] = mods.current[p]
    \/ \E lockfile \in past.broke[Wsp!Dir(p)] : lockfile[p] # mods.current[p]
    \/ Returned(p) \/ Relinks(p, Wsp!Dir(p)) \/ Overlooked(p)
LockIsPackaged(p) ==
  (/\ Intact /\ oneLockfile /\ p \in state.projects
   /\ WsRoot \notin state.lockNewer \/ p \in ws.here \ state.newer
   /\ ~state.filtered \/ p \in ws.here \ past.missed
   /\ ~Unsaved(p) /\ calls[WsRoot].write # {"wanted"} /\ ws.lock[p] \in WsVersions) =>
    ws.lock[p] \in mods.packages[WsRoot]
LinkIsStored(p) ==
  (/\ Intact /\ p \in ws.here /\ Sound(Wsp!Dir(p)) /\ mods.link[p] \in WsVersions
   /\ p \notin past.strays \/ (p \notin past.missed /\ mods.current[p] = mods.link[p])) =>
    \/ mods.store[Wsp!Dir(p)][mods.link[p]] # "absent"
    \/ Overlooked(p) /\ (p \in past.strays \/ mods.link[p] # calls[WsRoot].target[p])
UnbuiltIsToBuild(d) ==
  Intact /\ ~oneLockfile /\ Sound(d) =>
    \A v \in WsVersions \cap WsNeedBuild : mods.store[d][v] = "fresh" /\ (v \in mods.packages[d] \/ mods.link[d] = v) =>
                             v \in calls[d].build
ProjectFits(p) ==
  /\ ManifestIsLocked(p) /\ LockIsInstalled(p) /\ CurrentIsLinked(p)
  /\ LockIsPackaged(p) /\ LinkIsStored(p) /\ UnbuiltIsToBuild(p)

\* What a check has found stays until the next step.
CheckedIs ==
  command.phase \in {"skipped", "verified"} =>
    /\ state.projects = ws.here /\ state.newer = {}
    /\ state.filtered \/ \A p \in ws.here : ws.manifest[p] # Wsp!NoDep => Wsp!HasModulesDir(p)
    /\ command.phase = "skipped" => ~state.filtered

CallFits(d) == CallWrites(d) /\ CallBuilds(d) /\ CallRecords(d)
UpToDateInv ==
  /\ \A d \in WsProjects : CallFits(d)
  /\ CommandIs /\ StateIs /\ RestIsEmpty
  /\ \A p \in WsProjects : ProjectFits(p)

\* A step of a call, which may write of its own projects only
CallGoes(d) ==
  /\ GoesOn /\ (Intact' => Intact)
  /\ state'.projects = state.projects /\ state'.filtered = state.filtered /\ past'.missed = past.missed
  /\ state.newer \subseteq state'.newer /\ state'.newer \subseteq state.newer \cup Wsp!Mutated(d)
  /\ state.lockNewer \subseteq state'.lockNewer /\ state'.lockNewer \subseteq state.lockNewer \cup {d}
  /\ past'.strays \subseteq past.strays \cup (Wsp!Of(d) \ Wsp!Mutated(d))
  /\ \A p \in WsProjects \ command.hit : ws'.manifest[p] = ws.manifest[p]
  /\ \A e \in WsProjects : e # d => Aside(e)

\* With a lockfile per project a call is that of a project which is installed.
LEMMA SeparateIs ==
  ASSUME Wsp!WorkspaceAssumption, WorkspaceInv, Underway, ~oneLockfile, NEW d \in WsProjects, calls[d].phase # "idle"
  PROVE  Wsp!Mutated(d) = {d} /\ Wsp!Of(d) = {d} /\ d \in ws.here /\ d \in command.hit
<1>1. Wsp!Of(d) = {d}
  BY WsDirsAre
<1>2. \E p \in command.hit : Wsp!Dir(p) = d
  BY DEF WorkspaceInv, CommandFits
<1>3. d \in command.hit /\ d \in ws.here
  BY <1>2 DEF Wsp!Dir, WorkspaceInv, CommandFits
<1> QED BY <1>1, <1>3 DEF Wsp!Mutated

\* What the manifest of a project says, unless it is to be saved
LEMMA SavedIs ==
  ASSUME Wsp!WorkspaceAssumption, WorkspaceInv, NEW d \in WsProjects, Begun(d),
         NEW p \in Wsp!Of(d) \cap ws.here, p \notin calls[d].save
  PROVE  ws.manifest[p] = calls[d].target[p]
<1>1. Planned(d)
  BY DEF WorkspaceInv
<1>2. calls[d].target[p] = Wsp!WantedOf(p)
  BY <1>1 DEF Planned
<1>3. CASE p \in command.hit
  BY <1>1, <1>2, <1>3 DEF Planned
<1>4. CASE p \notin command.hit
  BY <1>2, <1>4 DEF Wsp!WantedOf
<1> QED BY <1>3, <1>4

LEMMA AsideCallFits ==
  ASSUME Wsp!WorkspaceAssumption, NEW d \in Wsp!Dirs, CallGoes(d), NEW e \in WsProjects, e # d, CallFits(e)
  PROVE  CallFits(e)'
<1>1. /\ \A p : Wsp!Dir(p)' = Wsp!Dir(p)
      /\ \A f : Wsp!Of(f)' = Wsp!Of(f) /\ Wsp!Mutated(f)' = Wsp!Mutated(f)
      /\ Wsp!Dirs' = Wsp!Dirs
  BY SetsStay DEF CallGoes, GoesOn
<1>2. /\ calls'[e] = calls[e] /\ Underway /\ Underway' /\ command'.only = command.only /\ command'.name = command.name
      /\ oneLockfile' = oneLockfile /\ (e \in state'.lockNewer <=> e \in state.lockNewer) /\ ws'.here = ws.here
      /\ mods'.packages[e] = mods.packages[e] /\ (Intact' => Intact)
      /\ \A p \in Wsp!Of(e) : mods'.current[p] = mods.current[p]
  BY DEF CallGoes, GoesOn, Aside, Underway
<1>3. Begun(e)' = Begun(e)
  BY <1>1, <1>2 DEF Begun
<1>4. Wsp!PackagesOf(calls[e].target, Wsp!Mutated(e))' = Wsp!PackagesOf(calls[e].target, Wsp!Mutated(e))
  BY <1>1, <1>2 DEF Wsp!PackagesOf
<1>5. CallWrites(e)'
  BY <1>2, <1>3 DEF CallFits, CallWrites
<1>6. CallBuilds(e)'
  BY <1>2, <1>3, <1>4 DEF CallFits, CallBuilds
<1>7. CallRecords(e)'
  <2>1. CASE oneLockfile
    <3>1. ~Begun(e)
      BY <2>1, WsDirsAre DEF Begun
    <3> QED BY <1>3, <3>1 DEF CallRecords, Finishing
  <2>2. CASE ~oneLockfile
    BY <1>1, <1>2, <1>3, <2>2 DEF CallFits, CallRecords, Finishing
  <2> QED BY <2>1, <2>2
<1> QED BY <1>5, <1>6, <1>7 DEF CallFits

LEMMA AsideProjectFits ==
  ASSUME Wsp!WorkspaceAssumption, NEW d \in Wsp!Dirs, CallGoes(d),
         NEW p \in WsProjects, Wsp!Dir(p) # d, ProjectFits(p)
  PROVE  ProjectFits(p)'
<1>1. ~oneLockfile /\ ~oneLockfile' /\ Wsp!Dir(p) = p /\ Wsp!Dir(p)' = p /\ p # d /\ p \in Wsp!Of(p)
  BY WsDirsAre DEF Wsp!Dir, CallGoes, GoesOn, Wsp!Of
<1>2. Wsp!Of(d) = {d}
  BY <1>1, WsDirsAre
<1>3. p \notin Wsp!Mutated(d)
  BY <1>1, <1>2 DEF Wsp!Mutated
<1>4. /\ Underway /\ Underway' /\ calls'[p] = calls[p] /\ ws'.here = ws.here /\ (Intact' => Intact)
      /\ state'.projects = state.projects /\ past'.missed = past.missed /\ past'.broke[p] = past.broke[p]
      /\ (p \in state'.newer <=> p \in state.newer) /\ (p \in state'.lockNewer <=> p \in state.lockNewer)
      /\ (p \in past'.strays <=> p \in past.strays) /\ (Sound(p)' => Sound(p))
      /\ ws'.manifest[p] = ws.manifest[p] /\ ws'.lock[p] = ws.lock[p]
      /\ mods'.link[p] = mods.link[p] /\ mods'.current[p] = mods.current[p]
      /\ mods'.store[p] = mods.store[p] /\ mods'.packages[p] = mods.packages[p]
  BY <1>1, <1>2, <1>3 DEF CallGoes, GoesOn, Aside, Underway, Sound
<1>5. Unsaved(p)' = Unsaved(p) /\ Passed(p)' = Passed(p) /\ LockIsCurrent(p)' = LockIsCurrent(p)
  BY <1>1, <1>4 DEF Unsaved, Passed, LockIsCurrent
<1>6. ManifestIsLocked(p)' /\ LockIsInstalled(p)'
  BY <1>1, <1>4, <1>5 DEF ProjectFits, ManifestIsLocked, LockIsInstalled
<1>7. CurrentIsLinked(p)'
  <2>1. Relinks(p, p) => Relinks(p, p)'
    BY <1>4, SetsStay DEF Relinks, CallGoes, GoesOn
  <2> QED BY <1>1, <1>4, <2>1 DEF ProjectFits, CurrentIsLinked, Returned, Overlooked
<1>8. LockIsPackaged(p)' /\ LinkIsStored(p)' /\ UnbuiltIsToBuild(p)'
  BY <1>1, <1>4 DEF ProjectFits, LockIsPackaged, LinkIsStored, UnbuiltIsToBuild, Overlooked
<1> QED BY <1>6, <1>7, <1>8 DEF ProjectFits

LEMMA CallUpToDate ==
  ASSUME Wsp!WorkspaceAssumption, WorkspaceInv, UpToDateInv, NEW d \in Wsp!Dirs, calls[d].phase # "idle", CallGoes(d),
         CallFits(d)', oneLockfile /\ command'.phase # "bailing" => calls'[d].phase # "failed",
         \A p \in Wsp!Of(d) : ProjectFits(p)'
  PROVE  UpToDateInv'
<1>1. d \in WsProjects /\ Underway /\ Underway' /\ oneLockfile' = oneLockfile /\ ws'.here = ws.here
      /\ (oneLockfile => d = WsRoot)
  BY WsDirsAre DEF CallGoes, GoesOn, Underway
<1>2. ASSUME NEW e \in WsProjects PROVE CallFits(e)'
  BY <1>2, AsideCallFits DEF UpToDateInv
<1>3. ASSUME NEW p \in WsProjects PROVE ProjectFits(p)'
  BY <1>3, AsideProjectFits DEF UpToDateInv, Wsp!Of
<1>4. CommandIs'
  <2>1. /\ command'.hit = command.hit /\ command'.sel = command.sel /\ command'.name = command.name
        /\ \A p \in command.sel \ command.hit : ws'.manifest[p] = ws.manifest[p]
    BY DEF CallGoes, GoesOn, WorkspaceInv, WorkspaceTypes, WsCommandsMade
  <2> QED BY <1>1, <2>1 DEF UpToDateInv, CommandIs
<1>5. StateIs'
  <2>1. Wsp!Mutated(d) \subseteq ws.here
    BY DEF Wsp!Mutated, WorkspaceInv, CommandFits
  <2> QED BY <1>1, <2>1 DEF UpToDateInv, StateIs, CallGoes
<1>6. RestIsEmpty'
  <2>1. CASE oneLockfile
    BY <1>1, <2>1 DEF UpToDateInv, RestIsEmpty, CallGoes, Aside
  <2>2. CASE ~oneLockfile
    <3>1. past'.strays = {}
      BY <1>1, <2>2, SeparateIs DEF UpToDateInv, RestIsEmpty, CallGoes
    <3>2. ASSUME NEW p \in WsProjects \ ws.here
          PROVE  /\ mods'.current[p] = Wsp!Absent /\ ws'.lock[p] = Wsp!Absent
                 /\ \A v \in WsVersions : mods'.store[p][v] = "absent"
      <4>1. p # d /\ Wsp!Of(p) = {p}
        BY <1>1, <2>2, SeparateIs, WsDirsAre
      <4> QED BY <2>2, <4>1 DEF UpToDateInv, RestIsEmpty, CallGoes, Aside
    <3> QED BY <1>1, <2>2, <3>1, <3>2 DEF RestIsEmpty
  <2> QED BY <2>1, <2>2
<1> QED BY <1>2, <1>3, <1>4, <1>5, <1>6 DEF UpToDateInv

\* Steps that change the virtual store or links
LEMMA ModulesStepGoes ==
  ASSUME Wsp!WorkspaceAssumption, WorkspaceInv, NEW d \in Wsp!Dirs, ModulesStep(d)
  PROVE  /\ CallGoes(d) /\ d \in WsProjects /\ Begun(d) /\ Planned(d) /\ (Sound(d) => Carried(d)) /\ Begun(d)'
         /\ \A p \in Wsp!Of(d) : p \in WsProjects /\ Wsp!Dir(p) = d /\ Wsp!Dir(p)' = d
         /\ \A f : Wsp!Of(f)' = Wsp!Of(f) /\ Wsp!Mutated(f)' = Wsp!Mutated(f)
         /\ Wsp!Mutated(d) \subseteq Wsp!Of(d) \cap ws.here
         /\ \A p \in Wsp!Of(d) \cap ws.here : calls[d].target[p] \in WsVersions \cup {Wsp!NoDep}
         /\ \A p \in (Wsp!Of(d) \cap ws.here) \ Wsp!Mutated(d) : calls[d].target[p] = ws.manifest[p]
         /\ "current" \in calls[d].write /\ "current" \in calls'[d].write
<1>1. /\ d \in WsProjects /\ command.phase \in {"running", "bailing"}
      /\ Begun(d) /\ Planned(d) /\ (Sound(d) => Carried(d))
      /\ Wsp!Mutated(d) \subseteq Wsp!Of(d) \cap ws.here
      /\ \A p \in Wsp!Of(d) \cap ws.here : calls[d].target[p] \in WsVersions \cup {Wsp!NoDep}
      /\ \A p \in (Wsp!Of(d) \cap ws.here) \ Wsp!Mutated(d) : calls[d].target[p] = ws.manifest[p]
  BY CallIs DEF ModulesStep, Wsp!Active
<1>2. GoesOn
  BY <1>1 DEF ModulesStep, GoesOn
<1>3. /\ \A p : Wsp!Dir(p)' = Wsp!Dir(p)
      /\ \A f : Wsp!Of(f)' = Wsp!Of(f) /\ Wsp!Mutated(f)' = Wsp!Mutated(f)
      /\ Wsp!Dirs' = Wsp!Dirs
  BY <1>2, SetsStay DEF GoesOn
<1>4. Begun(d)'
  BY <1>1, <1>3 DEF ModulesStep, Begun, Underway, Wsp!Active
<1>5. \A e \in WsProjects : e # d => Aside(e)
  BY <1>1, WsDirsAre DEF ModulesStep, Aside
<1>6. CallGoes(d)
  BY <1>2, <1>5 DEF CallGoes, ModulesStep, Intact
<1>7. "current" \in calls[d].write /\ "current" \in calls'[d].write
  BY <1>1 DEF ModulesStep, Planned
<1> QED BY <1>1, <1>3, <1>4, <1>6, <1>7, WsDirsAre

LEMMA ModulesStepUpToDate ==
  ASSUME Wsp!WorkspaceAssumption, WorkspaceInv, UpToDateInv, NEW d \in Wsp!Dirs, ModulesStep(d), CallBuilds(d)',
         \A p \in Wsp!Of(d) : CurrentIsLinked(p)' /\ LinkIsStored(p)' /\ UnbuiltIsToBuild(p)'
  PROVE  UpToDateInv'
<1>1. /\ CallGoes(d) /\ d \in WsProjects /\ Begun(d) /\ Begun(d)' /\ Planned(d)
      /\ \A p \in Wsp!Of(d) : p \in WsProjects /\ Wsp!Dir(p) = d /\ Wsp!Dir(p)' = d
      /\ "current" \in calls[d].write /\ "current" \in calls'[d].write
  BY ModulesStepGoes
<1>2. CallWrites(d)
  BY <1>1 DEF UpToDateInv, CallFits
<1>3. CallWrites(d)'
  <2>1. Underway /\ Underway'
    BY <1>1 DEF Begun
  <2>2. ~(command.only /\ calls[d].how # "filtered")
    BY <1>1, <1>2 DEF CallWrites, ModulesStep
  <2> QED BY <1>1, <1>2, <2>1, <2>2 DEF CallWrites, ModulesStep, Intact
<1>4. CallRecords(d)'
  BY <1>1 DEF CallRecords, Finishing
<1>5. ASSUME NEW p \in Wsp!Of(d) PROVE ProjectFits(p)'
  <2>1. /\ p \in WsProjects /\ Wsp!Dir(p) = d /\ Wsp!Dir(p)' = d
    BY <1>1
  <2>2. ManifestIsLocked(p) /\ LockIsInstalled(p) /\ LockIsPackaged(p)
    BY <2>1 DEF UpToDateInv, ProjectFits
  <2>3. Unsaved(p)' = Unsaved(p)
    BY <1>1, <2>1 DEF Unsaved, ModulesStep, Underway, Wsp!Active
  <2>4. Passed(p)' = Passed(p) /\ LockIsCurrent(p)' = LockIsCurrent(p)
    BY DEF Passed, LockIsCurrent, ModulesStep
  <2>5. ManifestIsLocked(p)' /\ LockIsInstalled(p)'
    BY <1>1, <2>1, <2>2, <2>3, <2>4 DEF ManifestIsLocked, LockIsInstalled, ModulesStep, Intact
  <2>6. LockIsPackaged(p)'
    <3>1. oneLockfile => d = WsRoot
      BY WsDirsAre
    <3> QED BY <1>1, <2>1, <2>2, <2>3, <3>1 DEF LockIsPackaged, ModulesStep, Intact
  <2> QED BY <1>5, <2>5, <2>6 DEF ProjectFits
<1>6. calls[d].phase # "idle" /\ calls'[d].phase # "failed"
  BY DEF ModulesStep
<1> QED BY <1>1, <1>3, <1>4, <1>5, <1>6, CallUpToDate DEF CallFits

\* What a filtered install overlooks stays overlooked.
LEMMA OverlookedStays ==
  ASSUME Wsp!WorkspaceAssumption, WorkspaceInv, NEW d \in Wsp!Dirs, ModulesStep(d), NEW p \in Wsp!Of(d), Overlooked(p)
  PROVE  Overlooked(p)' /\ calls'[WsRoot].target = calls[WsRoot].target
<1>1. oneLockfile /\ d = WsRoot
  BY WsDirsAre DEF Overlooked
<1> QED BY <1>1, ModulesStepGoes DEF Overlooked, ModulesStep, Begun

LEMMA ImportUpToDate ==
  ASSUME Wsp!WorkspaceAssumption, WorkspaceInv, UpToDateInv, NEW d \in Wsp!Dirs, Wsp!Import(d)
  PROVE  UpToDateInv'
<1>1. calls[d].phase = "import" /\ d \in WsProjects /\ WorkspaceTypes
  BY WsDirsAre DEF Wsp!Import, WorkspaceInv
<1> DEFINE packages == Wsp!PackagesOf(calls[d].target, Wsp!Mutated(d))
           New(v) == v \notin mods.packages[d] \/ mods.store[d][v] = "absent"
<1>2. /\ UNCHANGED <<oneLockfile, ws, state, command, past, spent>>
      /\ calls'[d] = [calls[d] EXCEPT !.phase = "link", !.build = {v \in packages : New(v)} \cap WsNeedBuild]
      /\ \A e \in WsProjects : e # d => calls'[e] = calls[e] /\ mods'.store[e] = mods.store[e]
      /\ mods'.link = mods.link /\ mods'.current = mods.current /\ mods'.packages = mods.packages
      /\ \A v \in WsVersions : mods'.store[d][v] =
           IF v \in packages /\ New(v) /\ mods.store[d][v] = "absent" THEN "fresh" ELSE mods.store[d][v]
  BY <1>1 DEF Wsp!Import, WorkspaceTypes, WsModules
<1>3. /\ calls'[d].phase = "link" /\ calls'[d].build = {v \in packages : New(v)} \cap WsNeedBuild
      /\ calls'[d].target = calls[d].target /\ calls'[d].how = calls[d].how /\ calls'[d].save = calls[d].save
      /\ calls'[d].write = calls[d].write /\ calls'[d].partial = calls[d].partial
  BY <1>1, <1>2 DEF WorkspaceTypes, WsCalls
<1>4. ModulesStep(d)
  BY <1>1, <1>2, <1>3 DEF ModulesStep
<1>5. /\ \A p \in Wsp!Of(d) : p \in WsProjects /\ Wsp!Dir(p) = d /\ Wsp!Dir(p)' = d
      /\ Wsp!Mutated(d)' = Wsp!Mutated(d)
  BY <1>4, ModulesStepGoes
<1>6. Wsp!PackagesOf(calls[d].target, Wsp!Mutated(d))' = packages /\ packages \subseteq WsVersions
  BY <1>3, <1>5 DEF Wsp!PackagesOf
<1>7. CallBuilds(d)'
  BY <1>2, <1>3, <1>6 DEF CallBuilds
<1>8. CallBuilds(d)
  BY <1>1 DEF UpToDateInv, CallFits
<1>9. ASSUME NEW p \in Wsp!Of(d) PROVE CurrentIsLinked(p)' /\ LinkIsStored(p)' /\ UnbuiltIsToBuild(p)'
  <2>1. /\ p \in WsProjects /\ Wsp!Dir(p) = d /\ Wsp!Dir(p)' = d
        /\ CurrentIsLinked(p) /\ LinkIsStored(p) /\ UnbuiltIsToBuild(p)
    BY <1>5 DEF UpToDateInv, ProjectFits
  <2>2. Overlooked(p) => Overlooked(p)' /\ calls'[WsRoot].target = calls[WsRoot].target
    BY <1>4, OverlookedStays
  <2>3. Relinks(p, d) => Relinks(p, d)'
    BY <1>2, <1>3, <1>5 DEF Relinks
  <2>4. CurrentIsLinked(p)'
    BY <1>2, <2>1, <2>2, <2>3 DEF CurrentIsLinked, Intact, Sound, Returned
  <2>5. LinkIsStored(p)'
    BY <1>2, <2>1, <2>2 DEF LinkIsStored, Intact, Sound
  <2>6. UnbuiltIsToBuild(p)'
    <3>1. ASSUME ~oneLockfile, Intact, Sound(d), NEW v \in WsVersions \cap WsNeedBuild, mods'.store[d][v] = "fresh",
                 v \in mods.packages[d] \/ mods.link[d] = v
          PROVE  v \in calls'[d].build
      <4>1. CASE mods.store[d][v] = "fresh"
        <5>1. p = d
          BY <2>1, <3>1 DEF Wsp!Dir
        <5>2. v \in calls[d].build
          BY <2>1, <3>1, <4>1, <5>1 DEF UnbuiltIsToBuild
        <5> QED BY <1>1, <1>8, <5>2 DEF CallBuilds
      <4>2. CASE mods.store[d][v] # "fresh"
        BY <1>2, <1>3, <3>1, <4>2
      <4> QED BY <4>1, <4>2
    <3>2. ~oneLockfile => p = d
      BY <2>1 DEF Wsp!Dir
    <3> QED BY <1>2, <3>1, <3>2 DEF UnbuiltIsToBuild, Intact, Sound
  <2> QED BY <2>4, <2>5, <2>6
<1> QED BY <1>4, <1>7, <1>9, ModulesStepUpToDate

LEMMA LinkDirectUpToDate ==
  ASSUME Wsp!WorkspaceAssumption, WorkspaceInv, UpToDateInv, NEW d \in Wsp!Dirs, Wsp!LinkDirect(d)
  PROVE  UpToDateInv'
<1>1. calls[d].phase = "link" /\ d \in WsProjects /\ WorkspaceTypes
  BY WsDirsAre DEF Wsp!LinkDirect, WorkspaceInv
<1> DEFINE packages == Wsp!PackagesOf(calls[d].target, Wsp!Mutated(d))
<1>2. /\ UNCHANGED <<oneLockfile, ws, state, command, past, spent>>
      /\ calls'[d] = [calls[d] EXCEPT !.phase = "build"]
      /\ \A e \in WsProjects : e # d => calls'[e] = calls[e]
      /\ mods'.store = mods.store /\ mods'.current = mods.current /\ mods'.packages = mods.packages
      /\ \A p \in WsProjects : mods'.link[p] =
           IF p \in Wsp!Mutated(d) /\ calls[d].target[p] # Wsp!NoDep THEN calls[d].target[p] ELSE mods.link[p]
  BY <1>1 DEF Wsp!LinkDirect, WorkspaceTypes, WsModules
<1>3. /\ calls'[d].phase = "build" /\ calls'[d].build = calls[d].build
      /\ calls'[d].target = calls[d].target /\ calls'[d].how = calls[d].how /\ calls'[d].save = calls[d].save
      /\ calls'[d].write = calls[d].write /\ calls'[d].partial = calls[d].partial
  BY <1>1, <1>2 DEF WorkspaceTypes, WsCalls
<1>4. ModulesStep(d)
  BY <1>1, <1>2, <1>3 DEF ModulesStep
<1>5. /\ \A p \in Wsp!Of(d) : p \in WsProjects /\ Wsp!Dir(p) = d /\ Wsp!Dir(p)' = d
      /\ Wsp!Mutated(d)' = Wsp!Mutated(d) /\ Wsp!Mutated(d) \subseteq Wsp!Of(d) \cap ws.here
      /\ Begun(d) /\ (Sound(d) => Carried(d)) /\ "current" \in calls'[d].write
      /\ \A p \in Wsp!Of(d) \cap ws.here : calls[d].target[p] \in WsVersions \cup {Wsp!NoDep}
  BY <1>4, ModulesStepGoes
<1>6. Wsp!PackagesOf(calls[d].target, Wsp!Mutated(d))' = packages
  BY <1>3, <1>5 DEF Wsp!PackagesOf
<1>7. CallBuilds(d)
  BY <1>1 DEF UpToDateInv, CallFits
<1>8. CallBuilds(d)'
  BY <1>2, <1>3, <1>5, <1>6, <1>7 DEF CallBuilds
<1>9. ASSUME NEW p \in Wsp!Of(d) PROVE CurrentIsLinked(p)' /\ LinkIsStored(p)' /\ UnbuiltIsToBuild(p)'
  <2>1. /\ p \in WsProjects /\ Wsp!Dir(p) = d /\ Wsp!Dir(p)' = d
        /\ CurrentIsLinked(p) /\ LinkIsStored(p) /\ UnbuiltIsToBuild(p)
    BY <1>5 DEF UpToDateInv, ProjectFits
  <2>2. Overlooked(p) => Overlooked(p)' /\ calls'[WsRoot].target = calls[WsRoot].target /\ p \notin Wsp!Mutated(d)
    BY <1>4, OverlookedStays, WsDirsAre DEF Overlooked
  <2>3. Relinks(p, d) => Relinks(p, d)'
    BY <1>2, <1>3, <1>5 DEF Relinks
  <2>4. CurrentIsLinked(p)'
    <3>1. CASE p \in Wsp!Mutated(d) /\ calls[d].target[p] # mods.current[p]
      <4>1. Relinks(p, d)'
        BY <1>2, <1>3, <1>5, <3>1 DEF Relinks
      <4> QED BY <2>1, <4>1 DEF CurrentIsLinked
    <3>2. CASE p \in Wsp!Mutated(d) /\ calls[d].target[p] = mods.current[p]
      <4>1. mods.current[p] \in WsVersions => mods'.link[p] = mods.current[p]
        BY <1>2, <2>1, <3>2, ConstantsAre
      <4> QED BY <1>2, <2>1, <4>1 DEF CurrentIsLinked
    <3>3. CASE p \notin Wsp!Mutated(d)
      BY <1>2, <2>1, <2>2, <2>3, <3>3 DEF CurrentIsLinked, Intact, Sound, Returned
    <3> QED BY <3>1, <3>2, <3>3
  <2>5. LinkIsStored(p)'
    <3>1. CASE p \in Wsp!Mutated(d) /\ calls[d].target[p] # Wsp!NoDep /\ Sound(d)
      <4>1. mods'.link[p] = calls[d].target[p] /\ calls[d].target[p] \in packages
        BY <1>2, <1>5, <2>1, <3>1 DEF Wsp!PackagesOf
      <4>2. mods.store[d][calls[d].target[p]] # "absent"
        BY <1>1, <1>5, <3>1, <4>1 DEF Carried, HasPackages, HasStored
      <4> QED BY <1>2, <2>1, <4>1, <4>2 DEF LinkIsStored
    <3>2. CASE ~(p \in Wsp!Mutated(d) /\ calls[d].target[p] # Wsp!NoDep) /\ Sound(d)
      BY <1>2, <2>1, <2>2, <3>2 DEF LinkIsStored, Intact, Sound
    <3>3. CASE ~Sound(d)
      BY <1>2, <2>1, <3>3 DEF LinkIsStored, Sound
    <3> QED BY <3>1, <3>2, <3>3
  <2>6. UnbuiltIsToBuild(p)'
    <3>1. ASSUME ~oneLockfile, Intact, Sound(d), NEW v \in WsVersions \cap WsNeedBuild, mods.store[d][v] = "fresh",
                 v \in mods.packages[d] \/ mods'.link[d] = v
          PROVE  v \in calls[d].build
      <4>1. p = d
        BY <2>1, <3>1 DEF Wsp!Dir
      <4>2. CASE v \in mods.packages[d] \/ mods.link[d] = v
        BY <2>1, <3>1, <4>1, <4>2 DEF UnbuiltIsToBuild
      <4>3. CASE v \notin mods.packages[d] /\ mods.link[d] # v
        <5>1. d \in Wsp!Mutated(d) /\ calls[d].target[d] = v
          BY <1>1, <1>2, <3>1, <4>3
        <5>2. v \in packages
          BY <3>1, <5>1 DEF Wsp!PackagesOf
        <5> QED BY <1>1, <1>7, <3>1, <4>3, <5>2 DEF CallBuilds
      <4> QED BY <4>2, <4>3
    <3>2. ~oneLockfile => p = d
      BY <2>1 DEF Wsp!Dir
    <3> QED BY <1>2, <1>3, <3>1, <3>2 DEF UnbuiltIsToBuild, Intact, Sound
  <2> QED BY <2>4, <2>5, <2>6
<1> QED BY <1>4, <1>8, <1>9, ModulesStepUpToDate

LEMMA BuildUpToDate ==
  ASSUME Wsp!WorkspaceAssumption, WorkspaceInv, UpToDateInv, NEW d \in Wsp!Dirs, Wsp!Build(d)
  PROVE  UpToDateInv'
<1>1. calls[d].phase = "build" /\ d \in WsProjects /\ WorkspaceTypes
  BY WsDirsAre DEF Wsp!Build, WorkspaceInv
<1>2. /\ UNCHANGED <<oneLockfile, ws, state, command, past, spent>>
      /\ calls'[d] = [calls[d] EXCEPT !.phase = "write"]
      /\ \A e \in WsProjects : e # d => calls'[e] = calls[e] /\ mods'.store[e] = mods.store[e]
      /\ mods'.link = mods.link /\ mods'.current = mods.current /\ mods'.packages = mods.packages
      /\ \A v \in WsVersions : mods'.store[d][v] = IF oneLockfile /\ v \in calls[d].build THEN "built" ELSE mods.store[d][v]
  BY <1>1 DEF Wsp!Build, WorkspaceTypes, WsModules
<1>3. /\ calls'[d].phase = "write" /\ calls'[d].build = calls[d].build
      /\ calls'[d].target = calls[d].target /\ calls'[d].how = calls[d].how /\ calls'[d].save = calls[d].save
      /\ calls'[d].write = calls[d].write /\ calls'[d].partial = calls[d].partial
  BY <1>1, <1>2 DEF WorkspaceTypes, WsCalls
<1>4. ModulesStep(d)
  BY <1>1, <1>2, <1>3 DEF ModulesStep
<1>5. /\ \A p \in Wsp!Of(d) : p \in WsProjects /\ Wsp!Dir(p) = d /\ Wsp!Dir(p)' = d
      /\ Wsp!Mutated(d)' = Wsp!Mutated(d) /\ Begun(d) /\ "current" \in calls'[d].write
  BY <1>4, ModulesStepGoes
<1>6. Wsp!PackagesOf(calls[d].target, Wsp!Mutated(d))' = Wsp!PackagesOf(calls[d].target, Wsp!Mutated(d))
  BY <1>3, <1>5 DEF Wsp!PackagesOf
<1>7. CallBuilds(d)
  BY <1>1 DEF UpToDateInv, CallFits
<1>8. CallBuilds(d)'
  BY <1>3, <1>5, <1>6, <1>7 DEF CallBuilds
<1>9. ASSUME NEW p \in Wsp!Of(d) PROVE CurrentIsLinked(p)' /\ LinkIsStored(p)' /\ UnbuiltIsToBuild(p)'
  <2>1. /\ p \in WsProjects /\ Wsp!Dir(p) = d /\ Wsp!Dir(p)' = d
        /\ CurrentIsLinked(p) /\ LinkIsStored(p) /\ UnbuiltIsToBuild(p)
    BY <1>5 DEF UpToDateInv, ProjectFits
  <2>2. Overlooked(p) => Overlooked(p)' /\ calls'[WsRoot].target = calls[WsRoot].target
    BY <1>4, OverlookedStays
  <2>3. Relinks(p, d) => Relinks(p, d)'
    BY <1>2, <1>3, <1>5 DEF Relinks
  <2>4. CurrentIsLinked(p)'
    BY <1>2, <2>1, <2>2, <2>3 DEF CurrentIsLinked, Intact, Sound, Returned
  <2>5. LinkIsStored(p)'
    BY <1>2, <2>1, <2>2 DEF LinkIsStored, Intact, Sound
  <2>6. UnbuiltIsToBuild(p)'
    <3>1. /\ UNCHANGED <<oneLockfile, past>> /\ mods'.link = mods.link /\ mods'.packages = mods.packages
      BY <1>2
    <3>2. ASSUME ~oneLockfile
          PROVE  /\ calls'[p].build = calls[p].build
                 /\ \A v \in WsVersions : mods'.store[p][v] = "fresh" => mods.store[p][v] = "fresh"
      <4>1. p = d
        BY <2>1, <3>2 DEF Wsp!Dir
      <4> QED BY <1>2, <1>3, <3>2, <4>1
    <3> QED BY <2>1, <3>1, <3>2 DEF UnbuiltIsToBuild, Intact, Sound
  <2> QED BY <2>4, <2>5, <2>6
<1> QED BY <1>4, <1>8, <1>9, ModulesStepUpToDate

LEMMA PruneModulesUpToDate ==
  ASSUME Wsp!WorkspaceAssumption, WorkspaceInv, UpToDateInv, NEW d \in Wsp!Dirs, NEW b \in BOOLEAN, Wsp!PruneModules(d, b)
  PROVE  UpToDateInv'
<1>1. calls[d].phase = "prune" /\ d \in WsProjects /\ WorkspaceTypes
  BY WsDirsAre DEF Wsp!PruneModules, WorkspaceInv
<1> DEFINE gone == {p \in Wsp!Mutated(d) : mods.current[p] \in WsVersions /\ mods.current[p] # calls[d].target[p]}
<1>2. /\ UNCHANGED <<oneLockfile, ws, state, command, past, spent>>
      /\ calls'[d] = [calls[d] EXCEPT !.phase = "import"]
      /\ \A e \in WsProjects : e # d => calls'[e] = calls[e] /\ mods'.store[e] = mods.store[e]
      /\ mods'.current = mods.current /\ mods'.packages = mods.packages
      /\ \A p \in WsProjects : mods'.link[p] = IF p \in gone THEN Wsp!NoDep ELSE mods.link[p]
      /\ \A v \in WsVersions : mods'.store[d][v] = IF b /\ v \notin Wsp!Needed(d) THEN "absent" ELSE mods.store[d][v]
  BY <1>1 DEF Wsp!PruneModules, WorkspaceTypes, WsModules
<1>3. /\ calls'[d].phase = "import" /\ calls'[d].build = calls[d].build
      /\ calls'[d].target = calls[d].target /\ calls'[d].how = calls[d].how /\ calls'[d].save = calls[d].save
      /\ calls'[d].write = calls[d].write /\ calls'[d].partial = calls[d].partial
  BY <1>1, <1>2 DEF WorkspaceTypes, WsCalls
<1>4. ModulesStep(d)
  BY <1>1, <1>2, <1>3 DEF ModulesStep
<1>5. /\ \A p \in Wsp!Of(d) : p \in WsProjects /\ Wsp!Dir(p) = d /\ Wsp!Dir(p)' = d
      /\ Wsp!Mutated(d)' = Wsp!Mutated(d) /\ Wsp!Mutated(d) \subseteq Wsp!Of(d) \cap ws.here
      /\ Begun(d) /\ Planned(d) /\ "current" \in calls'[d].write
      /\ \A p \in Wsp!Of(d) \cap ws.here : calls[d].target[p] \in WsVersions \cup {Wsp!NoDep}
      /\ \A p \in (Wsp!Of(d) \cap ws.here) \ Wsp!Mutated(d) : calls[d].target[p] = ws.manifest[p]
  BY <1>4, ModulesStepGoes
<1>6. Wsp!PackagesOf(calls[d].target, Wsp!Mutated(d))' = Wsp!PackagesOf(calls[d].target, Wsp!Mutated(d))
  BY <1>3, <1>5 DEF Wsp!PackagesOf
<1>7. CallBuilds(d) /\ CallWrites(d)
  BY <1>1 DEF UpToDateInv, CallFits
<1>8. CallBuilds(d)'
  BY <1>1, <1>3, <1>6, <1>7 DEF CallBuilds
<1>9. ASSUME NEW p \in Wsp!Of(d) PROVE CurrentIsLinked(p)' /\ LinkIsStored(p)' /\ UnbuiltIsToBuild(p)'
  <2>1. /\ p \in WsProjects /\ Wsp!Dir(p) = d /\ Wsp!Dir(p)' = d /\ p \in Wsp!Of(d)
        /\ ManifestIsLocked(p) /\ CurrentIsLinked(p) /\ LinkIsStored(p) /\ UnbuiltIsToBuild(p)
    BY <1>5, <1>9 DEF UpToDateInv, ProjectFits
  <2>2. ~Overlooked(p) /\ ~Relinks(p, d)
    <3>1. oneLockfile => d = WsRoot
      BY WsDirsAre
    <3> QED BY <1>1, <3>1 DEF Overlooked, Relinks
  <2>3. CurrentIsLinked(p)'
    <3>1. CASE p \in gone
      <4>1. Relinks(p, d)'
        BY <1>2, <1>3, <1>5, <3>1 DEF Relinks
      <4> QED BY <2>1, <4>1 DEF CurrentIsLinked
    <3>2. CASE p \notin gone
      BY <1>2, <2>1, <2>2, <3>2 DEF CurrentIsLinked, Intact, Sound, Returned
    <3> QED BY <3>1, <3>2
  <2>4. LinkIsStored(p)'
    <3> DEFINE v == mods.link[p]
    <3>1. SUFFICES ASSUME Intact, p \in ws.here, Sound(d), mods'.link[p] \in WsVersions,
                          p \notin past.strays \/ (p \notin past.missed /\ mods.current[p] = mods'.link[p])
                   PROVE  \/ mods'.store[d][mods'.link[p]] # "absent"
                          \/ Overlooked(p)' /\ mods'.link[p] # calls[d].target[p]
      <4>1. Overlooked(p)' => d = WsRoot
        BY <1>2, WsDirsAre DEF Overlooked
      <4>2. /\ (Intact' <=> Intact) /\ (Sound(Wsp!Dir(p))' <=> Sound(d))
            /\ ws'.here = ws.here /\ past' = past /\ mods'.current = mods.current
        BY <1>2, <2>1 DEF Intact, Sound
      <4>3. Overlooked(p)' => calls'[WsRoot].target[p] = calls[d].target[p]
        BY <1>3, <4>1
      <4> QED BY <2>1, <4>2, <4>3 DEF LinkIsStored
    <3>2. mods'.link[p] = v /\ p \notin gone /\ v \in WsVersions
      BY <1>2, <2>1, <3>1, ConstantsAre
    <3>3. mods.store[d][v] # "absent"
      BY <2>1, <2>2, <3>1, <3>2 DEF LinkIsStored
    <3>4. CASE v = calls[d].target[p]
      <4>1. v \in Wsp!Needed(d)
        BY <2>1, <3>2, <3>4 DEF Wsp!Needed, Wsp!PackagesOf
      <4> QED BY <1>2, <3>2, <3>3, <4>1
    <3>5. CASE v # calls[d].target[p]
      <4>1. mods.current[p] = v
        <5>1. LinkIs(p, d)
          BY <2>1, <3>1 DEF WorkspaceInv, LinkFits
        <5>2. past.broke[d] \subseteq {calls[d].target}
          BY <1>5, <3>1 DEF Planned
        <5> QED BY <1>1, <3>1, <3>2, <3>5, <5>1, <5>2, ConstantsAre DEF LinkIs
      <4>2. p \notin Wsp!Mutated(d)
        BY <3>2, <3>5, <4>1
      <4>3. p \in state.newer
        <5>1. SUFFICES ASSUME p \notin state.newer PROVE FALSE
          OBVIOUS
        <5>2. p \in state.projects
          BY <3>1, <5>1 DEF UpToDateInv, StateIs
        <5>3. ~Unsaved(p)
          BY <1>5, <2>1, <4>2 DEF Unsaved, Planned, Wsp!Mutated
        <5>4. ~Passed(p)
          BY <1>1, <1>5, <4>2, SeparateIs, WsDirsAre DEF Passed, Begun, Underway
        <5>5. ws.lock[p] = ws.manifest[p] /\ LockIsCurrent(p)
          BY <2>1, <3>1, <5>1, <5>2, <5>3, <5>4 DEF ManifestIsLocked
        <5>6. v # Wsp!Absent
          BY <3>2, ConstantsAre
        <5> QED BY <1>5, <2>1, <3>1, <3>5, <4>1, <4>2, <5>5, <5>6 DEF LockIsCurrent
      <4>4. oneLockfile /\ d = WsRoot
        BY <1>1, <1>5, <2>1, <4>2, SeparateIs, WsDirsAre DEF Begun
      <4>5. command.only => calls[d].how = "filtered"
        BY <1>1, <1>5, <1>7 DEF CallWrites
      <4>6. Overlooked(p)'
        BY <1>2, <1>3, <1>5, <3>1, <4>2, <4>3, <4>4, <4>5 DEF Overlooked, Begun, Underway
      <4> QED BY <3>2, <3>5, <4>6
    <3> QED BY <3>4, <3>5
  <2>5. UnbuiltIsToBuild(p)'
    <3>1. UNCHANGED <<oneLockfile, past>> /\ mods'.packages = mods.packages
      BY <1>2
    <3>2. ASSUME ~oneLockfile
          PROVE  /\ calls'[p].build = calls[p].build
                 /\ \A v \in WsVersions : mods'.store[p][v] = "fresh" => mods.store[p][v] = "fresh"
      <4>1. p = d
        BY <2>1, <3>2 DEF Wsp!Dir
      <4> QED BY <1>2, <1>3, <3>2, <4>1
    <3>3. mods'.link[p] \in {Wsp!NoDep, mods.link[p]} /\ Wsp!NoDep \notin WsVersions
      BY <1>2, <2>1, ConstantsAre
    <3> QED BY <2>1, <3>1, <3>2, <3>3 DEF UnbuiltIsToBuild, Intact, Sound
  <2> QED BY <2>3, <2>4, <2>5
<1> QED BY <1>4, <1>8, <1>9, ModulesStepUpToDate

\* Steps before and after the modules
LEMMA StartUpToDate ==
  ASSUME Wsp!WorkspaceAssumption, WorkspaceInv, UpToDateInv, NEW d \in Wsp!Dirs, Wsp!Start(d)
  PROVE  UpToDateInv'
<1>1. d \in WsProjects /\ WorkspaceTypes /\ command.phase \in {"running", "bailing"} /\ calls[d].phase = "waiting"
  BY WsDirsAre DEF WorkspaceInv, Wsp!Start
<1>2. /\ UNCHANGED <<oneLockfile, ws, mods, state, command, spent>>
      /\ past' = [past EXCEPT !.harmed = IF past.broke[d] \subseteq {calls'[d].target} THEN @ ELSE @ \cup {d}]
      /\ \A e \in WsProjects : e # d => calls'[e] = calls[e]
  BY <1>1 DEF Wsp!Start, WorkspaceTypes
<1>3. /\ past'.broke = past.broke /\ past'.strays = past.strays /\ past'.missed = past.missed /\ past'.torn = past.torn
      /\ past.harmed \subseteq past'.harmed
  BY <1>1, <1>2 DEF WorkspaceTypes, WsPasts
<1>4. /\ calls'[d].phase = (IF command.only \/ calls'[d].how = "filtered" THEN "lock" ELSE "prune")
      /\ calls'[d].write \in {{"current"}, {"wanted", "current"}} /\ calls'[d].build = {}
      /\ calls'[d].how \in {"frozen", "filtered"} \/ "wanted" \in calls'[d].write
      /\ calls'[d].save = {p \in command.hit \cap Wsp!Of(d) : ws.manifest[p] # Wsp!WantedOf(p)}
      /\ calls'[d].how = "frozen" => command.name = "install"
  BY <1>1 DEF Wsp!Start, WorkspaceTypes, WsCalls, Wsp!NoCall, Wsp!FrozenIsPossible
<1>5. GoesOn /\ \A e \in WsProjects : e # d => Aside(e)
  BY <1>1, <1>2, <1>3 DEF GoesOn, Aside
<1>6. CallGoes(d)
  BY <1>2, <1>3, <1>5 DEF CallGoes, Intact
<1>7. CallWrites(d) /\ CallBuilds(d) /\ Underway /\ Underway'
  BY <1>1, <1>2 DEF UpToDateInv, CallFits, Underway
<1>8. calls[d].write # {"wanted"} /\ calls[d].save = {} /\ calls[d].build = {}
  BY <1>1, <1>7 DEF CallWrites, CallBuilds
<1>9. calls'[d].save # {} => command.name # "install" /\ calls'[d].how # "frozen"
  BY <1>4 DEF Wsp!WantedOf
<1>10. calls'[d].how = "filtered" => oneLockfile
  <2>1. CASE oneLockfile
    BY <2>1
  <2>2. CASE ~oneLockfile
    <3>1. Wsp!Mutated(d) = Wsp!Of(d) \cap ws.here
      BY <1>1, <1>7, <2>2, SeparateIs
    <3>2. calls'[d].how # "filtered"
      BY <1>1, <3>1 DEF Wsp!Start, WorkspaceTypes, WsCalls, Wsp!NoCall
    <3> QED BY <3>2
  <2> QED BY <2>1, <2>2
<1>11. CallFits(d)'
  BY <1>2, <1>4, <1>7, <1>9, <1>10 DEF CallFits, CallWrites, CallBuilds, CallRecords, Finishing
<1>12. ASSUME NEW p \in Wsp!Of(d) PROVE ProjectFits(p)'
  <2>1. /\ p \in WsProjects /\ Wsp!Dir(p) = d /\ Wsp!Dir(p)' = d /\ ProjectFits(p)
        /\ (oneLockfile => d = WsRoot) /\ (~oneLockfile => p = d)
    BY <1>2, WsDirsAre DEF UpToDateInv, Wsp!Dir
  <2>2. ~Unsaved(p) /\ Passed(p)' = Passed(p) /\ LockIsCurrent(p)' = LockIsCurrent(p) /\ Returned(p)' = Returned(p)
        /\ ~Overlooked(p) /\ ~Relinks(p, d)
    BY <1>1, <1>2, <1>3, <1>8, <2>1 DEF Unsaved, Passed, LockIsCurrent, Returned, Overlooked, Relinks
  <2>3. (Sound(d)' => Sound(d)) /\ (Intact' <=> Intact)
    BY <1>3 DEF Sound, Intact
  <2>4. ManifestIsLocked(p)' /\ LockIsInstalled(p)'
    BY <1>2, <1>8, <2>1, <2>2, <2>3 DEF ProjectFits, ManifestIsLocked, LockIsInstalled
  <2>5. CurrentIsLinked(p)' /\ LinkIsStored(p)'
    BY <1>2, <1>3, <2>1, <2>2, <2>3 DEF ProjectFits, CurrentIsLinked, LinkIsStored
  <2>6. LockIsPackaged(p)' /\ UnbuiltIsToBuild(p)'
    BY <1>2, <1>3, <1>8, <2>1, <2>2, <2>3 DEF ProjectFits, LockIsPackaged, UnbuiltIsToBuild
  <2> QED BY <2>4, <2>5, <2>6 DEF ProjectFits
<1>13. calls[d].phase # "idle" /\ calls'[d].phase # "failed"
  BY <1>1, <1>4
<1> QED BY <1>6, <1>11, <1>12, <1>13, CallUpToDate

LEMMA WriteLockfileFirstUpToDate ==
  ASSUME Wsp!WorkspaceAssumption, WorkspaceInv, UpToDateInv, NEW d \in Wsp!Dirs, Wsp!WriteLockfileFirst(d)
  PROVE  UpToDateInv'
<1>1. calls[d].phase = "lock"
  BY DEF Wsp!WriteLockfileFirst
<1>2. /\ d \in WsProjects /\ Begun(d) /\ Planned(d) /\ WorkspaceTypes /\ command.phase \in {"running", "bailing"}
  BY <1>1, CallIs DEF Wsp!Active, WorkspaceInv
<1>3. /\ UNCHANGED <<oneLockfile, mods, command, past, spent>>
      /\ \A e \in WsProjects : e # d => calls'[e] = calls[e]
      /\ ws'.here = ws.here /\ ws'.manifest = ws.manifest
      /\ \A p \in WsProjects : ws'.lock[p] = IF p \in Wsp!Of(d) THEN calls[d].target[p] ELSE ws.lock[p]
      /\ state'.lockNewer = state.lockNewer \cup {d} /\ state'.newer = state.newer
      /\ state'.projects = state.projects /\ state'.filtered = state.filtered
  BY <1>2 DEF Wsp!WriteLockfileFirst, Wsp!SetLock, WorkspaceTypes, WsStates
<1>4. /\ calls'[d].phase \in {"prune", "save", "done"}
      /\ calls'[d].phase = "done" => calls[d].save = {}
      /\ calls'[d].phase \in {"save", "done"} <=> command.only /\ calls[d].how # "filtered"
      /\ calls'[d].target = calls[d].target /\ calls'[d].how = calls[d].how /\ calls'[d].save = calls[d].save
      /\ calls'[d].write = calls[d].write /\ calls'[d].build = calls[d].build
  BY <1>2 DEF Wsp!WriteLockfileFirst, Wsp!Saving, WorkspaceTypes, WsCalls
<1>5. GoesOn /\ \A e \in WsProjects : e # d => Aside(e)
  BY <1>2, <1>3, WsDirsAre DEF GoesOn, Aside
<1>6. CallGoes(d)
  BY <1>3, <1>5 DEF CallGoes, Intact
<1>7. CallWrites(d) /\ CallBuilds(d) /\ Underway /\ Underway'
  BY <1>2, <1>3 DEF UpToDateInv, CallFits, Underway
<1>8. calls[d].write # {"wanted"} /\ "current" \in calls[d].write /\ calls[d].build = {}
  BY <1>1, <1>2, <1>7 DEF CallWrites, CallBuilds, Planned
<1>9. CallFits(d)'
  BY <1>2, <1>3, <1>4, <1>7, <1>8 DEF CallFits, CallWrites, CallBuilds, CallRecords, Finishing
<1>10. ASSUME NEW p \in Wsp!Of(d) PROVE ProjectFits(p)'
  <2>1. /\ p \in WsProjects /\ Wsp!Dir(p) = d /\ Wsp!Dir(p)' = d /\ ProjectFits(p) /\ ws'.lock[p] = calls[d].target[p]
        /\ (oneLockfile => d = WsRoot) /\ (~oneLockfile => p = d)
    BY <1>3, WsDirsAre DEF UpToDateInv, Wsp!Dir
  <2>2. ~Unsaved(p) /\ Passed(p)' = Passed(p) /\ Returned(p)' = Returned(p) /\ ~Overlooked(p) /\ ~Relinks(p, d)
    BY <1>1, <1>3, <2>1 DEF Unsaved, Passed, Returned, Overlooked, Relinks
  <2>3. ASSUME Intact, p \in ws.here \cap state.projects, p \notin state.newer, ~Unsaved(p)'
        PROVE  Passed(p) \/ (ws.lock[p] = ws.manifest[p] /\ LockIsCurrent(p) /\ ws'.lock[p] = ws.lock[p])
    <3>1. p \notin calls[d].save
      BY <1>4, <1>7, <2>1, <2>3 DEF Unsaved, Wsp!Active
    <3>2. ws.manifest[p] = calls[d].target[p]
      BY <1>2, <2>3, <3>1, SavedIs
    <3> QED BY <2>1, <2>2, <2>3, <3>2 DEF ProjectFits, ManifestIsLocked
  <2>4. ManifestIsLocked(p)' /\ LockIsInstalled(p)'
    BY <1>3, <2>1, <2>2, <2>3 DEF ManifestIsLocked, LockIsInstalled, Intact, LockIsCurrent
  <2>5. CurrentIsLinked(p)' /\ LinkIsStored(p)'
    BY <1>3, <2>1, <2>2 DEF ProjectFits, CurrentIsLinked, LinkIsStored, Intact, Sound
  <2>6. LockIsPackaged(p)'
    <3>1. SUFFICES ASSUME Intact, oneLockfile, p \in state.projects, p \in ws.here \ state.newer,
                          ~state.filtered \/ p \in ws.here \ past.missed, ~Unsaved(p)', ws'.lock[p] \in WsVersions
                   PROVE  ws'.lock[p] \in mods.packages[WsRoot]
      BY <1>3, <2>1 DEF LockIsPackaged, Intact
    <3>2. ws'.lock[p] = ws.lock[p]
      BY <2>3, <3>1 DEF Passed
    <3> QED BY <1>8, <2>1, <2>2, <3>1, <3>2 DEF ProjectFits, LockIsPackaged
  <2>7. UnbuiltIsToBuild(p)'
    BY <1>3, <1>4, <2>1 DEF ProjectFits, UnbuiltIsToBuild, Intact, Sound
  <2> QED BY <2>4, <2>5, <2>6, <2>7 DEF ProjectFits
<1>11. calls[d].phase # "idle" /\ calls'[d].phase # "failed"
  BY <1>1, <1>4
<1> QED BY <1>6, <1>9, <1>10, <1>11, CallUpToDate

LEMMA WriteWantedUpToDate ==
  ASSUME Wsp!WorkspaceAssumption, WorkspaceInv, UpToDateInv, NEW d \in Wsp!Dirs, Wsp!WriteLockfile(d, "wanted")
  PROVE  UpToDateInv'
<1>1. calls[d].phase = "write" /\ "wanted" \in calls[d].write
  BY DEF Wsp!WriteLockfile
<1>2. /\ d \in WsProjects /\ Begun(d) /\ Planned(d) /\ WorkspaceTypes /\ command.phase \in {"running", "bailing"}
  BY <1>1, CallIs DEF Wsp!Active, WorkspaceInv
<1>3. /\ UNCHANGED <<oneLockfile, mods, command, past, spent>>
      /\ \A e \in WsProjects : e # d => calls'[e] = calls[e]
      /\ ws'.here = ws.here /\ ws'.manifest = ws.manifest
      /\ \A p \in WsProjects : ws'.lock[p] = IF p \in Wsp!Of(d) THEN calls[d].target[p] ELSE ws.lock[p]
      /\ state'.lockNewer = state.lockNewer \cup {d} /\ state'.newer = state.newer
      /\ state'.projects = state.projects /\ state'.filtered = state.filtered
  BY <1>2 DEF Wsp!WriteLockfile, Wsp!SetLock, WorkspaceTypes, WsStates
<1>4. /\ calls'[d].write = calls[d].write \ {"wanted"}
      /\ calls'[d].write # {} => calls'[d].phase = "write"
      /\ calls'[d].write = {} => calls'[d].phase \in {"save", "done"}
      /\ calls'[d].phase = "done" => calls[d].save = {}
      /\ calls'[d].target = calls[d].target /\ calls'[d].how = calls[d].how /\ calls'[d].save = calls[d].save
      /\ calls'[d].build = calls[d].build
  <2> DEFINE written == [calls[d] EXCEPT !.write = @ \ {"wanted"}]
  <2>1. calls'[d] = IF written.write = {} THEN [written EXCEPT !.phase = Wsp!Saving(written)] ELSE written
    BY <1>2 DEF Wsp!WriteLockfile, WorkspaceTypes
  <2>2. written \in WsCalls /\ written.write = calls[d].write \ {"wanted"} /\ written.phase = "write"
        /\ written.target = calls[d].target /\ written.how = calls[d].how /\ written.save = calls[d].save
        /\ written.build = calls[d].build
    BY <1>1, <1>2 DEF WorkspaceTypes, WsCalls
  <2> HIDE DEF written
  <2> QED BY <2>1, <2>2 DEF WsCalls, Wsp!Saving
<1>5. GoesOn /\ \A e \in WsProjects : e # d => Aside(e)
  BY <1>2, <1>3, WsDirsAre DEF GoesOn, Aside
<1>6. CallGoes(d)
  BY <1>3, <1>5 DEF CallGoes, Intact
<1>7. /\ CallWrites(d) /\ CallBuilds(d) /\ CallRecords(d) /\ Underway /\ Underway'
      /\ Begun(d)' /\ calls'[d].phase \in {"write", "save", "done"}
      /\ ("current" \in calls'[d].write <=> "current" \in calls[d].write)
  BY <1>2, <1>3, <1>4 DEF UpToDateInv, CallFits, Underway, Begun, Wsp!Active, Wsp!Dirs, Wsp!Dir
<1>8. ~(command.only /\ calls[d].how # "filtered")
  BY <1>1, <1>2, <1>7 DEF CallWrites
<1>9. Wsp!Of(d)' = Wsp!Of(d) /\ Wsp!Mutated(d)' = Wsp!Mutated(d)
  BY <1>3, SetsStay
<1>10. CallFits(d)'
  <2>1. CallWrites(d)'
    BY <1>2, <1>3, <1>4, <1>7, <1>8 DEF CallWrites
  <2>2. Wsp!PackagesOf(calls[d].target, Wsp!Mutated(d))' = Wsp!PackagesOf(calls[d].target, Wsp!Mutated(d))
    BY <1>4, <1>9 DEF Wsp!PackagesOf
  <2>3. CallBuilds(d)'
    BY <1>2, <1>4, <1>7, <2>2 DEF CallBuilds
  <2>4. CallRecords(d)'
    BY <1>1, <1>2, <1>3, <1>4, <1>7, <1>9 DEF CallRecords, Finishing, Overlooks, Intact
  <2> QED BY <2>1, <2>3, <2>4 DEF CallFits
<1>11. ASSUME NEW p \in Wsp!Of(d) PROVE ProjectFits(p)'
  <2>1. /\ p \in WsProjects /\ Wsp!Dir(p) = d /\ Wsp!Dir(p)' = d /\ ProjectFits(p) /\ ws'.lock[p] = calls[d].target[p]
        /\ (oneLockfile => d = WsRoot) /\ (~oneLockfile => p = d)
    BY <1>3, WsDirsAre DEF UpToDateInv, Wsp!Dir
  <2>2. /\ Passed(p)' = Passed(p) /\ Returned(p)' = Returned(p) /\ (Overlooked(p) => Overlooked(p)')
        /\ (Relinks(p, d) => Relinks(p, d)')
    BY <1>3, <1>4, <1>7, <1>9, <2>1 DEF Passed, Returned, Overlooked, Relinks
  <2>3. ASSUME Intact, p \in ws.here \cap state.projects, p \notin state.newer, ~Unsaved(p)'
        PROVE  Passed(p) \/ (ws.lock[p] = ws.manifest[p] /\ LockIsCurrent(p) /\ ws'.lock[p] = ws.lock[p])
    <3>1. p \notin calls[d].save
      BY <1>4, <1>7, <2>1, <2>3 DEF Unsaved, Wsp!Active
    <3>2. ws.manifest[p] = calls[d].target[p]
      BY <1>2, <2>3, <3>1, SavedIs
    <3>3. ~Unsaved(p)
      BY <2>1, <3>1 DEF Unsaved
    <3> QED BY <2>1, <2>3, <3>2, <3>3 DEF ProjectFits, ManifestIsLocked
  <2>4. ManifestIsLocked(p)' /\ LockIsInstalled(p)'
    BY <1>3, <2>1, <2>2, <2>3 DEF ManifestIsLocked, LockIsInstalled, Intact, LockIsCurrent
  <2>5. CurrentIsLinked(p)' /\ LinkIsStored(p)'
    BY <1>3, <1>4, <2>1, <2>2 DEF ProjectFits, CurrentIsLinked, LinkIsStored, Intact, Sound, Overlooked
  <2>6. LockIsPackaged(p)'
    <3>1. SUFFICES ASSUME Intact, oneLockfile, p \in state.projects, p \in ws.here \ state.newer,
                          ~state.filtered \/ p \in ws.here \ past.missed, ~Unsaved(p)', ws'.lock[p] \in WsVersions
                   PROVE  ws'.lock[p] \in mods.packages[WsRoot]
      BY <1>3, <2>1 DEF LockIsPackaged, Intact
    <3>2. ws'.lock[p] = ws.lock[p]
      BY <2>3, <3>1 DEF Passed
    <3>3. CASE calls[d].write # {"wanted"}
      <4>1. ~Unsaved(p)
        BY <1>4, <1>7, <2>1, <3>1 DEF Unsaved, Wsp!Active
      <4> QED BY <2>1, <3>1, <3>2, <3>3, <4>1 DEF ProjectFits, LockIsPackaged
    <3>4. CASE calls[d].write = {"wanted"}
      <4>1. Finishing(d) /\ ~Overlooks(p)
        BY <1>1, <1>2, <3>1, <3>4 DEF Finishing, Overlooks
      <4> QED BY <1>7, <2>1, <3>1, <4>1 DEF CallRecords
    <3> QED BY <3>3, <3>4
  <2>7. UnbuiltIsToBuild(p)'
    BY <1>3, <1>4, <2>1 DEF ProjectFits, UnbuiltIsToBuild, Intact, Sound
  <2> QED BY <2>4, <2>5, <2>6, <2>7 DEF ProjectFits
<1>12. calls[d].phase # "idle" /\ calls'[d].phase # "failed"
  BY <1>1, <1>7
<1> QED BY <1>6, <1>10, <1>11, <1>12, CallUpToDate

LEMMA SaveManifestUpToDate ==
  ASSUME Wsp!WorkspaceAssumption, WorkspaceInv, UpToDateInv, NEW d \in Wsp!Dirs, NEW p \in Wsp!Of(d), Wsp!SaveManifest(d, p)
  PROVE  UpToDateInv'
<1>1. calls[d].phase = "save" /\ p \in calls[d].save
  BY DEF Wsp!SaveManifest
<1>2. /\ d \in WsProjects /\ Begun(d) /\ Planned(d) /\ WorkspaceTypes /\ command.phase \in {"running", "bailing"}
  BY <1>1, CallIs DEF Wsp!Active, WorkspaceInv
<1>3. p \in WsProjects /\ p \in command.hit /\ p \in Wsp!Mutated(d)
  BY <1>1, <1>2, WsDirsAre DEF Planned, Wsp!Mutated
<1>4. /\ UNCHANGED <<oneLockfile, mods, command, past, spent>>
      /\ \A e \in WsProjects : e # d => calls'[e] = calls[e]
      /\ ws'.here = ws.here /\ ws'.lock = ws.lock
      /\ \A q \in WsProjects : q # p => ws'.manifest[q] = ws.manifest[q]
      /\ state'.newer = state.newer \cup {p} /\ state'.lockNewer = state.lockNewer
      /\ state'.projects = state.projects /\ state'.filtered = state.filtered
  BY <1>2 DEF Wsp!SaveManifest, WorkspaceTypes, WsLocks, WsStates
<1>5. /\ calls'[d].phase \in {"save", "done"} /\ calls'[d].save = calls[d].save \ {p}
      /\ calls'[d].phase = "done" => calls'[d].save = {}
      /\ calls'[d].target = calls[d].target /\ calls'[d].how = calls[d].how
      /\ calls'[d].write = calls[d].write /\ calls'[d].build = calls[d].build
  BY <1>2 DEF Wsp!SaveManifest, Wsp!Saving, WorkspaceTypes, WsCalls
<1>6. GoesOn /\ \A e \in WsProjects : e # d => Aside(e)
  BY <1>2, <1>4, WsDirsAre DEF GoesOn, Aside
<1>7. CallGoes(d)
  BY <1>3, <1>4, <1>6 DEF CallGoes, Intact
<1>8. /\ CallWrites(d) /\ CallBuilds(d) /\ CallRecords(d) /\ Underway /\ Underway'
      /\ Wsp!Of(d)' = Wsp!Of(d) /\ Wsp!Mutated(d)' = Wsp!Mutated(d)
  BY <1>2, <1>4, SetsStay DEF UpToDateInv, CallFits, Underway
<1>9. calls[d].write # {"wanted"} /\ d \in state.lockNewer
  BY <1>1, <1>2, <1>8 DEF CallWrites
<1>10. CallFits(d)'
  <2>1. CallWrites(d)'
    BY <1>1, <1>2, <1>4, <1>5, <1>8, <1>9 DEF CallWrites
  <2>2. Wsp!PackagesOf(calls[d].target, Wsp!Mutated(d))' = Wsp!PackagesOf(calls[d].target, Wsp!Mutated(d))
    BY <1>5, <1>8 DEF Wsp!PackagesOf
  <2>3. CallBuilds(d)'
    BY <1>2, <1>5, <1>8, <2>2 DEF CallBuilds
  <2>4. CallRecords(d)'
    BY <1>1, <1>2, <1>4, <1>5, <1>8 DEF CallRecords, Finishing, Overlooks, Intact
  <2> QED BY <2>1, <2>3, <2>4 DEF CallFits
<1>11. ASSUME NEW q \in Wsp!Of(d) PROVE ProjectFits(q)'
  <2>1. /\ q \in WsProjects /\ Wsp!Dir(q) = d /\ Wsp!Dir(q)' = d /\ ProjectFits(q)
        /\ (oneLockfile => d = WsRoot) /\ (~oneLockfile => q = d)
    BY <1>4, WsDirsAre DEF UpToDateInv, Wsp!Dir
  <2>2. /\ Passed(q)' = Passed(q) /\ LockIsCurrent(q)' = LockIsCurrent(q) /\ (Returned(q) => Returned(q)')
        /\ (Overlooked(q) => Overlooked(q)') /\ ~Relinks(q, d)
    BY <1>1, <1>4, <1>5, <1>8, <2>1 DEF Passed, LockIsCurrent, Returned, Overlooked, Relinks
  <2>3. q # p /\ ~Unsaved(q)' => ~Unsaved(q)
    BY <1>5, <1>8, <2>1 DEF Unsaved, Wsp!Active
  <2>4. ManifestIsLocked(q)' /\ LockIsInstalled(q)'
    BY <1>4, <1>9, <2>1, <2>2, <2>3 DEF ProjectFits, ManifestIsLocked, LockIsInstalled, Intact
  <2>5. CurrentIsLinked(q)' /\ LinkIsStored(q)'
    BY <1>4, <1>5, <2>1, <2>2 DEF ProjectFits, CurrentIsLinked, LinkIsStored, Intact, Sound, Overlooked
  <2>6. LockIsPackaged(q)'
    BY <1>4, <1>9, <2>1, <2>3 DEF ProjectFits, LockIsPackaged, Intact
  <2>7. UnbuiltIsToBuild(q)'
    BY <1>4, <1>5, <2>1 DEF ProjectFits, UnbuiltIsToBuild, Intact, Sound
  <2> QED BY <2>4, <2>5, <2>6, <2>7 DEF ProjectFits
<1>12. calls[d].phase # "idle" /\ calls'[d].phase # "failed"
  BY <1>1, <1>5
<1> QED BY <1>7, <1>10, <1>11, <1>12, CallUpToDate

\* What the current lockfile of a directory will have.
LEMMA NewOnesAre ==
  ASSUME Wsp!WorkspaceAssumption, WorkspaceInv, NEW d \in Wsp!Dirs, calls[d].phase = "write"
  PROVE  /\ \A p \in Wsp!Of(d) \cap ws.here : RecordedAs(Wsp!NewCurrent(d)[p], calls[d].target[p])
         /\ \A p \in Wsp!Of(d) : ~calls[d].partial =>
              \/ Wsp!NewCurrent(d)[p] = calls[d].target[p]
              \/ Wsp!NewCurrent(d)[p] = Wsp!Absent /\ calls[d].target[p] \in {Wsp!NoDep, Wsp!Absent}
         /\ \A p \in Wsp!Mutated(d) : calls[d].target[p] \in WsVersions => calls[d].target[p] \in Wsp!NewPackages(d)
         /\ \A p \in Wsp!Of(d) \ Wsp!Mutated(d) :
              calls[d].how # "full" /\ calls[d].target[p] \in WsVersions \cap mods.packages[d] =>
                calls[d].target[p] \in Wsp!NewPackages(d)
<1> DEFINE target == calls[d].target
           installed == Wsp!PackagesOf(target, Wsp!Mutated(d))
<1>1. /\ d \in WsProjects /\ Planned(d) /\ WorkspaceTypes /\ Wsp!Mutated(d) \subseteq Wsp!Of(d) \cap ws.here
      /\ \A p \in Wsp!Of(d) \cap ws.here : target[p] \in WsVersions \cup {Wsp!NoDep}
      /\ Wsp!Of(d) \subseteq WsProjects
  BY CallIs, WsDirsAre DEF Wsp!Active, WorkspaceInv
<1>2. target \in WsLocks
  BY <1>1 DEF WorkspaceTypes, WsCalls
<1>3. \A p \in Wsp!Of(d) : Wsp!NewCurrent(d)[p] =
        IF Wsp!PackagesOf(target, Wsp!Of(d)) = {} THEN Wsp!Absent
        ELSE IF calls[d].partial /\ p \notin Wsp!Mutated(d) THEN mods.current[p] ELSE target[p]
  BY <1>1 DEF Wsp!NewCurrent
<1>4. calls[d].partial => calls[d].how = "full" /\ Wsp!Of(d) \cap ws.here \subseteq Wsp!Mutated(d)
  BY <1>1 DEF Planned
<1>5. ASSUME NEW p \in Wsp!Of(d), Wsp!PackagesOf(target, Wsp!Of(d)) = {} PROVE target[p] \in {Wsp!NoDep, Wsp!Absent}
  BY <1>1, <1>2, <1>5 DEF Wsp!PackagesOf, WsLocks, Wsp!Importers
<1>6. ASSUME NEW p \in Wsp!Of(d) \cap ws.here PROVE RecordedAs(Wsp!NewCurrent(d)[p], target[p])
  BY <1>1, <1>3, <1>4, <1>5, ConstantsAre DEF RecordedAs
<1>7. ASSUME NEW p \in Wsp!Of(d), target[p] \in WsVersions, p \in Wsp!Mutated(d) \/ ~calls[d].partial
      PROVE  /\ Wsp!NewCurrent(d)[p] = target[p] /\ Wsp!Ids(Wsp!NewCurrent(d), d) # {}
             /\ target[p] \in Wsp!PackagesOf(Wsp!NewCurrent(d), Wsp!Of(d))
  <2>1. Wsp!PackagesOf(target, Wsp!Of(d)) # {}
    BY <1>7 DEF Wsp!PackagesOf
  <2>2. Wsp!NewCurrent(d)[p] = target[p]
    BY <1>3, <1>7, <2>1
  <2> QED BY <1>7, <2>2, ConstantsAre DEF Wsp!Ids, Wsp!PackagesOf
<1>8. ASSUME NEW p \in Wsp!Mutated(d), target[p] \in WsVersions PROVE target[p] \in Wsp!NewPackages(d)
  <2>1. target[p] \in installed
    BY <1>8 DEF Wsp!PackagesOf
  <2> HIDE DEF installed
  <2>2. Wsp!Ids(Wsp!NewCurrent(d), d) # {} /\ target[p] \in Wsp!PackagesOf(Wsp!NewCurrent(d), Wsp!Of(d))
    BY <1>1, <1>7, <1>8
  <2> QED BY <2>1, <2>2 DEF Wsp!NewPackages, installed
<1>9. ASSUME NEW p \in Wsp!Of(d) \ Wsp!Mutated(d), calls[d].how # "full", target[p] \in WsVersions \cap mods.packages[d]
      PROVE  target[p] \in Wsp!NewPackages(d)
  <2>1. Wsp!Ids(Wsp!NewCurrent(d), d) # {} /\ target[p] \in Wsp!PackagesOf(Wsp!NewCurrent(d), Wsp!Of(d))
    BY <1>4, <1>7, <1>9
  <2>2. Wsp!Mutated(d) # Wsp!Ids(target, d)
    BY <1>9, ConstantsAre DEF Wsp!Ids
  <2> QED BY <1>9, <2>1, <2>2 DEF Wsp!NewPackages
<1>10. ASSUME NEW p \in Wsp!Of(d), ~calls[d].partial
       PROVE  \/ Wsp!NewCurrent(d)[p] = target[p]
              \/ Wsp!NewCurrent(d)[p] = Wsp!Absent /\ target[p] \in {Wsp!NoDep, Wsp!Absent}
  BY <1>3, <1>5, <1>10
<1> QED BY <1>6, <1>8, <1>9, <1>10

LEMMA WriteCurrentUpToDate ==
  ASSUME Wsp!WorkspaceAssumption, WorkspaceInv, UpToDateInv, NEW d \in Wsp!Dirs, Wsp!WriteLockfile(d, "current")
  PROVE  UpToDateInv'
<1>1. calls[d].phase = "write" /\ "current" \in calls[d].write
  BY DEF Wsp!WriteLockfile
<1>2. /\ d \in WsProjects /\ Begun(d) /\ Planned(d) /\ WorkspaceTypes /\ command.phase \in {"running", "bailing"}
      /\ (Sound(d) => Carried(d)) /\ Wsp!Mutated(d) \subseteq Wsp!Of(d) \cap ws.here
      /\ \A p \in Wsp!Of(d) \cap ws.here : calls[d].target[p] \in WsVersions \cup {Wsp!NoDep}
      /\ \A p \in (Wsp!Of(d) \cap ws.here) \ Wsp!Mutated(d) : calls[d].target[p] = ws.manifest[p]
      /\ calls[d].write \subseteq {"wanted", "current"}
  BY <1>1, CallIs DEF Wsp!Active, WorkspaceInv, WorkspaceTypes, WsCalls
<1> DEFINE astray == {p \in Wsp!Of(d) \cap ws.here : p \notin Wsp!Mutated(d) /\ mods.link[p] \notin {Wsp!NoDep, calls[d].target[p]}}
<1>3. /\ UNCHANGED <<oneLockfile, ws, state, command, spent>>
      /\ \A e \in WsProjects : e # d => calls'[e] = calls[e] /\ mods'.packages[e] = mods.packages[e]
      /\ mods'.store = mods.store /\ mods'.link = mods.link /\ mods'.current = Wsp!NewCurrent(d)
      /\ mods'.packages[d] = Wsp!NewPackages(d)
      /\ past' = [past EXCEPT !.strays = @ \cup astray]
  <2>1. mods' = [mods EXCEPT !.current = Wsp!NewCurrent(d), !.packages[d] = Wsp!NewPackages(d)]
    BY DEF Wsp!WriteLockfile
  <2>2. /\ mods'.store = mods.store /\ mods'.link = mods.link /\ mods'.current = Wsp!NewCurrent(d)
        /\ mods'.packages = [mods.packages EXCEPT ![d] = Wsp!NewPackages(d)]
    BY <1>2, <2>1 DEF WorkspaceTypes, WsModules
  <2>3. mods'.packages[d] = Wsp!NewPackages(d) /\ \A e \in WsProjects : e # d => mods'.packages[e] = mods.packages[e]
    BY <1>2, <2>2 DEF WorkspaceTypes, WsModules
  <2> QED BY <1>2, <2>2, <2>3 DEF Wsp!WriteLockfile, WorkspaceTypes
<1>4. /\ past'.strays = past.strays \cup astray /\ past'.broke = past.broke /\ past'.harmed = past.harmed
      /\ past'.missed = past.missed /\ past'.torn = past.torn
  BY <1>2, <1>3 DEF WorkspaceTypes, WsPasts
<1>5. /\ calls'[d].write = calls[d].write \ {"current"}
      /\ calls'[d].write # {} => calls'[d].phase = "write"
      /\ calls'[d].write = {} => calls'[d].phase \in {"save", "done"}
      /\ calls'[d].phase = "done" => calls[d].save = {}
      /\ calls'[d].target = calls[d].target /\ calls'[d].how = calls[d].how /\ calls'[d].save = calls[d].save
      /\ calls'[d].build = calls[d].build
  <2> DEFINE written == [calls[d] EXCEPT !.write = @ \ {"current"}]
  <2>1. calls'[d] = IF written.write = {} THEN [written EXCEPT !.phase = Wsp!Saving(written)] ELSE written
    BY <1>2 DEF Wsp!WriteLockfile, WorkspaceTypes
  <2>2. written \in WsCalls /\ written.write = calls[d].write \ {"current"} /\ written.phase = "write"
        /\ written.target = calls[d].target /\ written.how = calls[d].how /\ written.save = calls[d].save
        /\ written.build = calls[d].build
    BY <1>1, <1>2 DEF WorkspaceTypes, WsCalls
  <2> HIDE DEF written
  <2> QED BY <2>1, <2>2 DEF WsCalls, Wsp!Saving
<1>6. /\ \A p \in WsProjects \ Wsp!Of(d) : mods'.current[p] = mods.current[p]
      /\ mods'.packages[d] \subseteq Wsp!PackagesOf(calls[d].target, Wsp!Mutated(d)) \cup mods.packages[d]
      /\ \A p \in Wsp!Of(d) \cap ws.here : RecordedAs(mods'.current[p], calls[d].target[p])
      /\ \A p \in Wsp!Of(d) : ~calls[d].partial =>
           \/ mods'.current[p] = calls[d].target[p]
           \/ mods'.current[p] = Wsp!Absent /\ calls[d].target[p] \in {Wsp!NoDep, Wsp!Absent}
      /\ \A p \in Wsp!Mutated(d) : calls[d].target[p] \in WsVersions => calls[d].target[p] \in mods'.packages[d]
      /\ \A p \in Wsp!Of(d) \ Wsp!Mutated(d) :
           calls[d].how # "full" /\ calls[d].target[p] \in WsVersions \cap mods.packages[d] =>
             calls[d].target[p] \in mods'.packages[d]
  <2>1. mods'.current = Wsp!NewCurrent(d) /\ mods'.packages[d] = Wsp!NewPackages(d)
    BY <1>3
  <2>2. /\ \A p \in WsProjects \ Wsp!Of(d) : Wsp!NewCurrent(d)[p] = mods.current[p]
        /\ Wsp!NewPackages(d) \subseteq Wsp!PackagesOf(calls[d].target, Wsp!Mutated(d)) \cup mods.packages[d]
    BY <1>1, <1>2, NewCurrentIs
  <2> HIDE DEF astray
  <2> QED BY <1>1, <2>1, <2>2, NewOnesAre
<1>7. GoesOn /\ \A e \in WsProjects : e # d => Aside(e)
  BY <1>2, <1>3, <1>4, <1>6, WsDirsAre DEF GoesOn, Aside
<1>8. CallGoes(d)
  <2>1. past'.strays \subseteq past.strays \cup (Wsp!Of(d) \ Wsp!Mutated(d))
    BY <1>4
  <2> HIDE DEF astray
  <2> QED BY <1>3, <1>4, <1>7, <2>1 DEF CallGoes, Intact
<1>9. /\ CallWrites(d) /\ CallBuilds(d) /\ Underway /\ Underway' /\ Begun(d)'
      /\ calls'[d].phase \in {"write", "save", "done"} /\ "current" \notin calls'[d].write
      /\ (calls'[d].write # {"wanted"} <=> "wanted" \notin calls[d].write)
  BY <1>2, <1>3, <1>5 DEF UpToDateInv, CallFits, Underway, Begun, Wsp!Active, Wsp!Dirs, Wsp!Dir
<1>10. ~(command.only /\ calls[d].how # "filtered")
  BY <1>1, <1>2, <1>9 DEF CallWrites
<1>11. /\ \A e : Wsp!Of(e)' = Wsp!Of(e) /\ Wsp!Mutated(e)' = Wsp!Mutated(e)
       /\ (oneLockfile => d = WsRoot) /\ (oneLockfile => Wsp!Of(d) = WsProjects)
  BY <1>3, SetsStay, WsDirsAre
<1>12. ASSUME NEW p \in (Wsp!Of(d) \cap ws.here) \ Wsp!Mutated(d)
       PROVE  oneLockfile /\ ~Unsaved(p) /\ calls[d].how # "full"
              /\ (Intact /\ p \notin state.newer =>
                    /\ p \in state.projects /\ ws.lock[p] = ws.manifest[p]
                    /\ (calls[d].target[p] \in WsVersions => mods.current[p] = calls[d].target[p]))
  <2>1. oneLockfile
    BY <1>1, <1>2, <1>12, SeparateIs DEF Begun
  <2>2. p \in WsProjects /\ Wsp!Dir(p) = d /\ p \notin calls[d].save /\ calls[d].how # "full"
    BY <1>2, <1>12, WsDirsAre DEF Planned, Wsp!Mutated
  <2>3. ~Unsaved(p)
    BY <2>2 DEF Unsaved
  <2>4. ASSUME Intact, p \notin state.newer
        PROVE  /\ p \in state.projects /\ ws.lock[p] = ws.manifest[p]
               /\ (calls[d].target[p] \in WsVersions => mods.current[p] = calls[d].target[p])
    <3>1. p \in state.projects
      BY <1>12, <2>4 DEF UpToDateInv, StateIs
    <3>2. ws.lock[p] = ws.manifest[p] /\ LockIsCurrent(p)
      BY <1>12, <2>1, <2>2, <2>3, <2>4, <3>1 DEF UpToDateInv, ProjectFits, ManifestIsLocked, Passed
    <3> QED BY <1>2, <1>12, <3>1, <3>2, ConstantsAre DEF LockIsCurrent
  <2> QED BY <2>1, <2>2, <2>3, <2>4
<1>13. CallFits(d)'
  <2> HIDE DEF astray
  <2>1. CallWrites(d)'
    <3>1. /\ command'.name = command.name /\ command'.only = command.only /\ oneLockfile' = oneLockfile
          /\ state'.lockNewer = state.lockNewer
          /\ (calls'[d].write = {} \/ calls'[d].phase = "write") /\ calls'[d].phase \notin {"waiting", "failed", "lock"}
      BY <1>3, <1>5, <1>9
    <3>2. calls[d].save # {} => command.name # "install" /\ calls[d].how # "frozen"
      BY <1>2, <1>9 DEF CallWrites
    <3>3. calls[d].how # "frozen" /\ ("wanted" \notin calls'[d].write \/ calls'[d].phase \in {"save", "done"}) => d \in state.lockNewer
      <4>1. calls'[d].phase \in {"save", "done"} => calls'[d].write = {}
        BY <1>5
      <4>2. "wanted" \notin calls'[d].write => "wanted" \notin calls[d].write
        BY <1>5
      <4>3. calls[d].how # "frozen" /\ "wanted" \notin calls[d].write => d \in state.lockNewer
        BY <1>1, <1>2, <1>9 DEF CallWrites
      <4> QED BY <4>1, <4>2, <4>3
    <3> QED BY <1>5, <1>9, <1>10, <3>1, <3>2, <3>3 DEF CallWrites
  <2>2. Wsp!PackagesOf(calls[d].target, Wsp!Mutated(d))' = Wsp!PackagesOf(calls[d].target, Wsp!Mutated(d))
    BY <1>5, <1>11 DEF Wsp!PackagesOf
  <2>3. CallBuilds(d)'
    BY <1>2, <1>5, <1>9, <2>2 DEF CallBuilds
  <2>4. ASSUME oneLockfile, NEW p \in ws.here, p \notin Wsp!Mutated(d), p \notin past'.strays
        PROVE  mods.link[p] \in {Wsp!NoDep, calls[d].target[p]}
    BY <1>2, <1>4, <1>11, <2>4 DEF astray, WorkspaceTypes
  <2>5. ASSUME oneLockfile, NEW p \in ws.here, calls[d].target[p] \in WsVersions,
               p \in Wsp!Mutated(d) \/ (Intact /\ ~Overlooks(p))
        PROVE  calls[d].target[p] \in mods'.packages[d]
    <3>1. CASE p \in Wsp!Mutated(d)
      BY <1>6, <2>5, <3>1
    <3>2. CASE p \notin Wsp!Mutated(d)
      <4>1. p \in (Wsp!Of(d) \cap ws.here) \ Wsp!Mutated(d) /\ p \in WsProjects /\ Intact /\ p \notin state.newer
            /\ (state.filtered => p \notin past.missed)
        BY <1>2, <1>11, <2>5, <3>2 DEF WorkspaceTypes, Overlooks
      <4>2. p \in state.projects /\ ws.lock[p] = calls[d].target[p] /\ ~Unsaved(p) /\ calls[d].how # "full"
        BY <1>2, <1>12, <4>1
      <4>3. LockIsPackaged(p)
        BY <4>1 DEF UpToDateInv, ProjectFits
      <4>4. calls[d].target[p] \in mods.packages[d]
        BY <1>1, <1>11, <2>5, <4>1, <4>2, <4>3 DEF LockIsPackaged
      <4> QED BY <1>6, <2>5, <4>1, <4>2, <4>4
    <3> QED BY <3>1, <3>2
  <2>6. CallRecords(d)'
    BY <1>3, <1>4, <1>5, <1>6, <1>11, <2>4, <2>5 DEF CallRecords, Overlooks, Intact
  <2> QED BY <2>1, <2>3, <2>6 DEF CallFits
<1>14. ASSUME NEW p \in Wsp!Of(d) PROVE ProjectFits(p)'
  <2>1. /\ p \in WsProjects /\ Wsp!Dir(p) = d /\ Wsp!Dir(p)' = d /\ ProjectFits(p) /\ (~oneLockfile => p = d)
        /\ (p \in astray => p \in ws.here /\ p \notin Wsp!Mutated(d) /\ mods.link[p] \notin {Wsp!NoDep, calls[d].target[p]})
        /\ (p \in ws.here /\ p \notin Wsp!Mutated(d) /\ mods.link[p] \notin {Wsp!NoDep, calls[d].target[p]} => p \in astray)
    BY <1>3, WsDirsAre DEF UpToDateInv, Wsp!Dir
  <2> HIDE DEF astray
  <2>2. /\ Passed(p)' = Passed(p) /\ (Intact' <=> Intact) /\ (Sound(d)' <=> Sound(d)) /\ (Unsaved(p)' <=> Unsaved(p))
    BY <1>1, <1>3, <1>4, <1>5, <1>9, <2>1 DEF Passed, Intact, Sound, Unsaved, Wsp!Active
  <2>3. ASSUME p \in ws.here, p \notin Wsp!Mutated(d), p \in state.newer PROVE Overlooked(p)'
    <3>1. oneLockfile /\ d = WsRoot
      BY <1>11, <1>12, <2>3
    <3> QED BY <1>3, <1>5, <1>9, <1>10, <1>11, <2>3, <3>1 DEF Overlooked
  <2>4. mods'.current[p] \in WsVersions /\ p \in ws.here => mods'.current[p] = calls[d].target[p]
    BY <1>6, ConstantsAre DEF RecordedAs
  <2>5. ManifestIsLocked(p)'
    <3>1. SUFFICES ASSUME Intact, p \in ws.here \cap state.projects, p \notin state.newer, ~Unsaved(p), ~Passed(p)
                   PROVE  ws.lock[p] = ws.manifest[p] /\ LockIsCurrent(p)'
      BY <1>3, <2>2 DEF ManifestIsLocked
    <3>2. ws.lock[p] = ws.manifest[p]
      BY <2>1, <3>1 DEF ProjectFits, ManifestIsLocked
    <3>3. ws.manifest[p] = calls[d].target[p]
      <4>1. p \notin calls[d].save
        BY <1>1, <1>9, <2>1, <3>1 DEF Unsaved, Wsp!Active
      <4> QED BY <1>2, <3>1, <4>1, SavedIs
    <3> QED BY <1>3, <1>6, <3>1, <3>2, <3>3 DEF LockIsCurrent, RecordedAs
  <2>6. LockIsInstalled(p)'
    <3>1. SUFFICES ASSUME d \notin state.lockNewer, "wanted" \notin calls[d].write PROVE LockIsCurrent(p)'
      BY <1>3, <1>9, <2>1 DEF LockIsInstalled
    <3>2. ~calls[d].partial
      BY <1>1, <1>2, <1>9, <3>1 DEF CallWrites, Planned
    <3>3. ws.lock[p] = calls[d].target[p]
      BY <1>1, <1>2, <3>1 DEF Planned
    <3> QED BY <1>3, <1>6, <3>2, <3>3 DEF LockIsCurrent
  <2>7. CurrentIsLinked(p)'
    <3>1. SUFFICES ASSUME Intact, p \in ws.here \cap state.projects, Sound(d), p \notin past.missed,
                          mods'.current[p] \in WsVersions
                   PROVE  mods.link[p] = mods'.current[p] \/ Overlooked(p)'
      BY <1>3, <1>4, <2>1, <2>2 DEF CurrentIsLinked
    <3>2. mods'.current[p] = calls[d].target[p] /\ calls[d].target[p] # Wsp!NoDep
      BY <2>4, <3>1, ConstantsAre
    <3>3. CASE p \in Wsp!Mutated(d)
      BY <1>1, <1>2, <3>1, <3>2, <3>3 DEF Carried, HasLinked
    <3>4. CASE p \notin Wsp!Mutated(d) /\ p \notin state.newer
      <4>1. mods.current[p] = calls[d].target[p]
        BY <1>12, <3>1, <3>2, <3>4
      <4>2. past.broke[d] \subseteq {calls[d].target}
        BY <1>2, <3>1 DEF Planned
      <4>3. CurrentIsLinked(p) /\ ~Returned(p) /\ ~Relinks(p, d) /\ ~Overlooked(p)
        BY <2>1, <3>4 DEF ProjectFits, Returned, Relinks, Overlooked
      <4> QED BY <2>1, <3>1, <3>2, <4>1, <4>2, <4>3 DEF CurrentIsLinked
    <3> QED BY <2>3, <3>1, <3>3, <3>4
  <2>8. LockIsPackaged(p)'
    <3>1. SUFFICES ASSUME Intact, oneLockfile, p \in state.projects, WsRoot \notin state.lockNewer \/ p \in ws.here \ state.newer,
                          ~state.filtered \/ p \in ws.here \ past.missed, ~Unsaved(p), "wanted" \notin calls[d].write,
                          ws.lock[p] \in WsVersions
                   PROVE  ws.lock[p] \in mods'.packages[d]
      BY <1>3, <1>4, <1>9, <1>11, <2>2 DEF LockIsPackaged
    <3>2. ws.lock[p] = calls[d].target[p]
      BY <1>1, <1>2, <3>1 DEF Planned
    <3>3. CASE p \in Wsp!Mutated(d)
      BY <1>6, <3>1, <3>2, <3>3
    <3>4. CASE p \notin Wsp!Mutated(d)
      <4>1. ws.lock[p] \in mods.packages[d]
        BY <1>1, <1>11, <2>1, <3>1 DEF ProjectFits, LockIsPackaged
      <4>2. calls[d].how # "full"
        <5>1. CASE p \in ws.here
          BY <1>12, <3>4, <5>1
        <5>2. CASE p \notin ws.here
          BY <1>1, <1>2, <1>9, <1>11, <3>1, <5>2 DEF CallWrites
        <5> QED BY <5>1, <5>2
      <4> QED BY <1>6, <3>1, <3>2, <3>4, <4>1, <4>2
    <3> QED BY <3>3, <3>4
  <2>9. LinkIsStored(p)'
    <3> DEFINE v == mods.link[p]
    <3>1. SUFFICES ASSUME Intact, p \in ws.here, Sound(d), v \in WsVersions,
                          p \notin past'.strays \/ (p \notin past.missed /\ mods'.current[p] = v)
                   PROVE  mods.store[d][v] # "absent" \/ (Overlooked(p)' /\ p \in past'.strays)
      BY <1>3, <1>4, <2>1, <2>2 DEF LinkIsStored
    <3>2. v # Wsp!NoDep /\ past'.strays = past.strays \cup astray
      BY <1>4, <3>1, ConstantsAre
    <3>3. CASE p \in Wsp!Mutated(d)
      <4>1. calls[d].target[p] # Wsp!NoDep
        BY <1>1, <1>2, <2>1, <2>4, <3>1, <3>2, <3>3 DEF Carried, HasUnlinked
      <4>2. v = calls[d].target[p]
        BY <1>1, <1>2, <3>1, <3>3, <4>1 DEF Carried, HasLinked
      <4>3. v \in Wsp!PackagesOf(calls[d].target, Wsp!Mutated(d))
        BY <3>1, <3>3, <4>2 DEF Wsp!PackagesOf
      <4> QED BY <1>1, <1>2, <3>1, <4>3 DEF Carried, HasPackages, HasStored
    <3>4. CASE p \notin Wsp!Mutated(d) /\ p \notin past'.strays
      <4>1. p \notin past.strays /\ v = calls[d].target[p]
        BY <2>1, <3>1, <3>2, <3>4
      <4>2. oneLockfile /\ d = WsRoot
        BY <1>11, <1>12, <3>1, <3>4
      <4> QED BY <2>1, <3>1, <4>1, <4>2 DEF ProjectFits, LinkIsStored
    <3>5. CASE p \notin Wsp!Mutated(d) /\ p \in past'.strays /\ p \notin state.newer
      <4>1. p \notin past.missed /\ v = calls[d].target[p]
        BY <2>4, <3>1, <3>5
      <4>2. mods.current[p] = v
        BY <1>12, <3>1, <3>5, <4>1
      <4>3. ~Overlooked(p)
        BY <3>5 DEF Overlooked
      <4> QED BY <2>1, <3>1, <4>1, <4>2, <4>3 DEF ProjectFits, LinkIsStored
    <3> QED BY <2>3, <3>1, <3>3, <3>4, <3>5
  <2>10. UnbuiltIsToBuild(p)'
    <3>1. SUFFICES ASSUME Intact, ~oneLockfile, Sound(d), NEW v \in WsVersions \cap WsNeedBuild, mods.store[d][v] = "fresh",
                          v \in mods'.packages[d] \/ mods.link[d] = v
                   PROVE  v \in calls[d].build
      BY <1>3, <1>5, <2>1, <2>2 DEF UnbuiltIsToBuild
    <3>2. v \in mods.packages[d] \/ mods.link[d] = v
      <4>1. CASE v \in Wsp!PackagesOf(calls[d].target, Wsp!Mutated(d))
        <5>1. calls[d].target[d] = v /\ d \in Wsp!Mutated(d)
          BY <1>1, <1>2, <3>1, <4>1, SeparateIs DEF Wsp!PackagesOf, Begun
        <5> QED BY <1>1, <1>2, <3>1, <5>1, ConstantsAre DEF Carried, HasLinked
      <4> QED BY <1>6, <3>1, <4>1
    <3> QED BY <2>1, <3>1, <3>2 DEF ProjectFits, UnbuiltIsToBuild
  <2> QED BY <2>5, <2>6, <2>7, <2>8, <2>9, <2>10 DEF ProjectFits
<1>15. calls[d].phase # "idle" /\ calls'[d].phase # "failed"
  BY <1>1, <1>9
<1> QED BY <1>8, <1>13, <1>14, <1>15, CallUpToDate

\* Steps that no call takes

\* Calls that are done with, or have yet to start
LEMMA RestCallsFit ==
  ASSUME NEW d \in WsProjects, calls'[d].write = {}, calls'[d].save = {}, calls'[d].build = {}, calls'[d].how = "full",
         calls'[d].phase \in {"idle", "waiting", "done", "failed"}, Begun(d)' => FALSE
  PROVE  CallFits(d)'
BY DEF CallFits, CallWrites, CallBuilds, CallRecords, Finishing

LEMMA RestIsQuiet ==
  ASSUME Wsp!WorkspaceAssumption, UpToDateInv, ~Underway, NEW p \in WsProjects
  PROVE  /\ Wsp!Dir(p) \in WsProjects /\ calls[Wsp!Dir(p)].write = {} /\ calls[Wsp!Dir(p)].build = {}
         /\ ~Unsaved(p) /\ ~Overlooked(p) /\ ~Relinks(p, Wsp!Dir(p))
<1>1. Wsp!Dir(p) \in WsProjects
  BY WsDirsAre
<1>2. calls[Wsp!Dir(p)].write = {} /\ calls[Wsp!Dir(p)].build = {}
  BY <1>1 DEF UpToDateInv, CallFits, CallWrites
<1> QED BY <1>1, <1>2 DEF Unsaved, Overlooked, Relinks

LEMMA RebuildsOnUpToDate ==
  ASSUME Wsp!WorkspaceAssumption, WorkspaceInv, UpToDateInv, RebuildsOn, state' = state
  PROVE  UpToDateInv'
<1>1. /\ WorkspaceTypes /\ Underway /\ Underway' /\ command'.phase = "rebuilding"
      /\ command'.name = command.name /\ command'.sel = command.sel /\ command'.hit = command.hit
      /\ command'.only = command.only /\ oneLockfile' = oneLockfile /\ ws' = ws /\ calls' = calls /\ past' = past
      /\ mods'.link = mods.link /\ mods'.current = mods.current /\ mods'.packages = mods.packages
      /\ command.phase # "bailing"
  BY DEF RebuildsOn, WorkspaceInv, Underway
<1>2. /\ \A p : Wsp!Dir(p)' = Wsp!Dir(p)
      /\ \A d : Wsp!Of(d)' = Wsp!Of(d) /\ Wsp!Mutated(d)' = Wsp!Mutated(d)
      /\ Wsp!Dirs' = Wsp!Dirs
  BY <1>1, SetsStay
<1>3. ASSUME NEW d \in WsProjects PROVE CallFits(d)'
  <2>1. CallFits(d) /\ (Begun(d)' <=> Begun(d))
    BY <1>1, <1>2 DEF UpToDateInv, Begun
  <2>2. Wsp!PackagesOf(calls[d].target, Wsp!Mutated(d))' = Wsp!PackagesOf(calls[d].target, Wsp!Mutated(d))
    BY <1>1, <1>2 DEF Wsp!PackagesOf
  <2>3. CallWrites(d)'
    BY <1>1, <2>1 DEF CallFits, CallWrites, Intact
  <2>4. CallBuilds(d)'
    BY <1>1, <2>1, <2>2 DEF CallFits, CallBuilds
  <2>5. CallRecords(d)'
    BY <1>1, <1>2, <2>1 DEF CallFits, CallRecords, Finishing, Intact, Overlooks
  <2> QED BY <2>3, <2>4, <2>5 DEF CallFits
<1>4. CommandIs' /\ StateIs'
  BY <1>1 DEF UpToDateInv, CommandIs, StateIs, Intact
<1>5. RestIsEmpty'
  BY <1>1 DEF UpToDateInv, RestIsEmpty, RebuildsOn
<1>6. ASSUME NEW p \in WsProjects PROVE ProjectFits(p)'
  <2>1. /\ ProjectFits(p) /\ Wsp!Dir(p) \in WsProjects /\ (Unsaved(p)' <=> Unsaved(p)) /\ (Passed(p)' <=> Passed(p))
        /\ (LockIsCurrent(p)' <=> LockIsCurrent(p)) /\ (Returned(p)' <=> Returned(p))
        /\ (Overlooked(p)' <=> Overlooked(p)) /\ (Relinks(p, Wsp!Dir(p))' <=> Relinks(p, Wsp!Dir(p)))
    BY <1>1, <1>2, WsDirsAre DEF UpToDateInv, Unsaved, Passed, LockIsCurrent, Returned, Overlooked, Relinks
  <2>2. ManifestIsLocked(p)' /\ LockIsInstalled(p)'
    BY <1>1, <1>2, <2>1 DEF ProjectFits, ManifestIsLocked, LockIsInstalled, Intact
  <2>3. CurrentIsLinked(p)' /\ LockIsPackaged(p)'
    BY <1>1, <1>2, <2>1 DEF ProjectFits, CurrentIsLinked, LockIsPackaged, Intact, Sound
  <2>4. LinkIsStored(p)'
    BY <1>1, <1>2, <2>1 DEF ProjectFits, LinkIsStored, Intact, Sound, RebuildsOn
  <2>5. UnbuiltIsToBuild(p)'
    BY <1>1, <1>2, <2>1 DEF ProjectFits, UnbuiltIsToBuild, Intact, Sound, RebuildsOn
  <2> QED BY <2>2, <2>3, <2>4, <2>5 DEF ProjectFits
<1> QED BY <1>3, <1>4, <1>5, <1>6 DEF UpToDateInv

LEMMA RebuildUpToDate ==
  ASSUME Wsp!WorkspaceAssumption, WorkspaceInv, UpToDateInv,
         Wsp!StartRebuild \/ \E p \in WsProjects : Wsp!RebuildProject(p)
  PROVE  UpToDateInv'
<1>1. state' = state /\ WorkspaceTypes
  BY DEF Wsp!StartRebuild, Wsp!RebuildProject, WorkspaceInv
<1>2. CASE Wsp!StartRebuild
  <2>1. /\ command.phase = "running" /\ Wsp!AllEnded
        /\ UNCHANGED <<oneLockfile, ws, mods, state, calls, past, spent>>
        /\ command' = [command EXCEPT !.phase = "rebuilding", !.left = Wsp!ToRebuild]
    BY <1>2 DEF Wsp!StartRebuild
  <2>2. /\ command'.phase = "rebuilding" /\ command'.left = Wsp!ToRebuild /\ command'.name = command.name
        /\ command'.sel = command.sel /\ command'.hit = command.hit /\ command'.version = command.version
        /\ command'.only = command.only
    BY <1>1, <2>1 DEF WorkspaceTypes, WsCommandsMade
  <2>3. RebuildsOn
    BY <2>1, <2>2 DEF RebuildsOn, Wsp!ToRebuild
  <2> QED BY <1>1, <2>3, RebuildsOnUpToDate
<1>3. ASSUME NEW p \in WsProjects, Wsp!RebuildProject(p) PROVE UpToDateInv'
  <2>1. /\ command.phase = "rebuilding" /\ p \in command.left /\ Wsp!AllEnded
        /\ UNCHANGED <<oneLockfile, ws, state, calls, past, spent>>
        /\ command' = [command EXCEPT !.left = @ \ {p}]
    BY <1>3 DEF WorkspaceInv, CommandFits, Wsp!RebuildProject
  <2>2. /\ command'.phase = "rebuilding" /\ command'.left = command.left \ {p} /\ command'.name = command.name
        /\ command'.sel = command.sel /\ command'.hit = command.hit /\ command'.version = command.version
        /\ command'.only = command.only
    BY <1>1, <2>1 DEF WorkspaceTypes, WsCommandsMade
  <2>3. /\ mods'.link = mods.link /\ mods'.current = mods.current /\ mods'.packages = mods.packages
        /\ \A d \in WsProjects : d # p => mods'.store[d] = mods.store[d]
        /\ \A v \in WsVersions : mods'.store[p][v] =
             IF v \in mods.packages[p] \cap WsNeedBuild /\ mods.store[p][v] = "fresh" THEN "built" ELSE mods.store[p][v]
    <3>1. mods' = [mods EXCEPT !.store[p] =
            [v \in WsVersions |-> IF v \in mods.packages[p] \cap WsNeedBuild /\ @[v] = "fresh" THEN "built" ELSE @[v]]]
      BY <1>3 DEF Wsp!RebuildProject
    <3> QED BY <1>1, <3>1 DEF WorkspaceTypes, WsModules
  <2>4. command'.left \subseteq command.sel
    BY <2>2 DEF WorkspaceInv, CommandFits
  <2>5. RebuildsOn
    BY <2>1, <2>2, <2>3, <2>4 DEF RebuildsOn
  <2> QED BY <1>1, <2>5, RebuildsOnUpToDate
<1> QED BY <1>2, <1>3

\* What is known of a workspace after calls broke off
LEMMA BrokenUpToDate ==
  ASSUME Wsp!WorkspaceAssumption, WorkspaceInv, UpToDateInv, Underway, NEW ds \in SUBSET Wsp!Dirs,
         NEW d \in ds, NEW p \in Wsp!Of(d), past' = Wsp!Broken(ds), UNCHANGED <<oneLockfile, ws, mods, state>>,
         calls'[d].phase \in {"idle", "failed"}
  PROVE  ProjectFits(p)'
<1>1. /\ WorkspaceTypes /\ p \in WsProjects /\ Wsp!Dir(p) = d /\ d \in WsProjects /\ d \in Wsp!Dirs /\ p \in Wsp!Of(d) /\ Wsp!Dir(p)' = d /\ ProjectFits(p)
      /\ CallFits(d) /\ Wsp!Dirs \subseteq WsProjects /\ (oneLockfile => d = WsRoot)
  BY WsDirsAre DEF WorkspaceInv, UpToDateInv, Wsp!Dir
<1>2. ds \in SUBSET WsProjects
  BY <1>1
<1>3. past'.torn = (\/ past.torn
                    \/ ~oneLockfile /\ \E e \in Wsp!Dirs : calls[e].build # {}
                    \/ \E e \in Wsp!Dirs : calls[e].write = {"wanted"}
                    \/ /\ command.name # "install" \/ Wsp!FilteredInstall
                       /\ \E e \in Wsp!Dirs : calls[e].phase \in (Wsp!Active \ {"lock"}) \cup {"done"})
  BY <1>1 DEF Wsp!Broken, WorkspaceTypes, WsPasts
<1>4. past'.missed = past.missed
  BY <1>1 DEF Wsp!Broken, WorkspaceTypes, WsPasts
<1>5. /\ past'.strays = past.strays /\ past.harmed \subseteq past'.harmed
      /\ past'.broke[d] =
           IF calls[d].phase \in {"import", "link", "build", "write"} /\ "current" \in calls[d].write
           THEN {calls[d].target} ELSE past.broke[d]
  BY <1>1, <1>2, BrokenIs
<1>6. ~Unsaved(p)' /\ ~Overlooked(p)' /\ ~Relinks(p, d)'
  BY <1>1 DEF Unsaved, Overlooked, Relinks, Wsp!Active
<1>7. (Sound(d)' => Sound(d)) /\ (Passed(p)' <=> Passed(p)) /\ (LockIsCurrent(p)' <=> LockIsCurrent(p))
      /\ (Returned(p)' <=> Returned(p))
  BY <1>4, <1>5 DEF Sound, Passed, LockIsCurrent, Returned
<1>8. ASSUME Intact'
      PROVE  /\ Intact /\ calls[d].write # {"wanted"} /\ (~oneLockfile => calls[d].build = {})
             /\ (calls[d].phase \in (Wsp!Active \ {"lock"}) \cup {"done"} =>
                   command.name = "install" /\ command.sel = ws.here)
  BY <1>1, <1>3, <1>8 DEF Intact, Wsp!FilteredInstall
<1>9. ASSUME Intact' PROVE ~Unsaved(p) /\ ~Overlooked(p)
  <2>1. ASSUME Unsaved(p) PROVE FALSE
    <3>1. p \in calls[d].save /\ calls[d].phase \in Wsp!Active \ {"lock"} /\ Begun(d)
      BY <1>1, <2>1 DEF Unsaved, Begun
    <3>2. command.name # "install"
      BY <1>1, <3>1 DEF CallFits, CallWrites
    <3> QED BY <1>8, <1>9, <3>1, <3>2
  <2>2. ASSUME Overlooked(p) PROVE FALSE
    <3>1. /\ oneLockfile /\ p \in ws.here \ Wsp!Mutated(WsRoot)
          /\ calls[WsRoot].phase \in {"import", "link", "build", "write", "save", "done"}
      BY <2>2 DEF Overlooked
    <3>2. command.name = "install" /\ command.sel = ws.here
      BY <1>1, <1>8, <1>9, <3>1 DEF Wsp!Active
    <3>3. command.hit = ws.here
      BY <3>2 DEF UpToDateInv, CommandIs
    <3> QED BY <1>1, <3>1, <3>3 DEF Wsp!Mutated
  <2> QED BY <2>1, <2>2
<1>10. ManifestIsLocked(p)' /\ LockIsInstalled(p)'
  BY <1>1, <1>7, <1>8, <1>9 DEF ProjectFits, ManifestIsLocked, LockIsInstalled
<1>11. CurrentIsLinked(p)'
  <2>1. SUFFICES ASSUME Intact', p \in ws.here \cap state.projects, Sound(d)', p \notin past.missed,
                        mods.current[p] \in WsVersions, mods.link[p] # mods.current[p], ~Returned(p)
                 PROVE  \E lockfile \in past'.broke[d] : lockfile[p] # mods.current[p]
    BY <1>1, <1>4, <1>7 DEF CurrentIsLinked
  <2>2. (\E lockfile \in past.broke[d] : lockfile[p] # mods.current[p]) \/ Relinks(p, d)
    BY <1>1, <1>7, <1>8, <1>9, <2>1 DEF ProjectFits, CurrentIsLinked
  <2>3. CASE ~(calls[d].phase \in {"import", "link", "build", "write"} /\ "current" \in calls[d].write)
    BY <1>5, <2>2, <2>3 DEF Relinks
  <2>4. CASE calls[d].phase \in {"import", "link", "build", "write"} /\ "current" \in calls[d].write
    <3>1. Planned(d)
      BY <1>1, <2>4 DEF WorkspaceInv, Begun, Wsp!Active
    <3>2. past.broke[d] \subseteq {calls[d].target}
      BY <1>7, <2>1, <3>1 DEF Planned
    <3>3. calls[d].target[p] # mods.current[p]
      BY <2>2, <3>2 DEF Relinks
    <3> QED BY <1>5, <2>4, <3>3
  <2> QED BY <2>3, <2>4
<1>12. LockIsPackaged(p)'
  BY <1>1, <1>4, <1>8, <1>9 DEF ProjectFits, LockIsPackaged
<1>13. LinkIsStored(p)'
  BY <1>1, <1>4, <1>5, <1>7, <1>8, <1>9 DEF ProjectFits, LinkIsStored
<1>14. UnbuiltIsToBuild(p)'
  <2>1. ~oneLockfile => d = p
    BY <1>1 DEF Wsp!Dir
  <2>2. SUFFICES ASSUME Intact', ~oneLockfile, Sound(d)' PROVE UnbuiltIsToBuild(p)'
    BY <2>1 DEF UnbuiltIsToBuild
  <2>3. Intact /\ Sound(p) /\ calls[p].build = {}
    BY <1>7, <1>8, <2>1, <2>2
  <2> QED BY <1>1, <2>2, <2>3 DEF ProjectFits, UnbuiltIsToBuild
<1> QED BY <1>10, <1>11, <1>12, <1>13, <1>14 DEF ProjectFits

LEMMA FailUpToDate ==
  ASSUME Wsp!WorkspaceAssumption, WorkspaceInv, UpToDateInv, NEW d \in Wsp!Dirs, Wsp!Fail(d)
  PROVE  UpToDateInv'
<1>1. /\ d \in WsProjects /\ WorkspaceTypes /\ command.phase = "running" /\ calls[d].phase \in Wsp!Active
      /\ UNCHANGED <<oneLockfile, ws, mods, state>> /\ past' = Wsp!Broken({d}) /\ Underway
  BY WsDirsAre DEF WorkspaceInv, Wsp!Fail, Underway
<1>2. /\ calls'[d] = [calls[d] EXCEPT !.phase = "failed"] /\ \A e \in WsProjects : e # d => calls'[e] = calls[e]
      /\ command'.phase \in {"running", "bailing"} /\ command'.name = command.name
      /\ command'.sel = command.sel /\ command'.hit = command.hit /\ command'.version = command.version
      /\ command'.only = command.only /\ command'.left = command.left
      /\ (oneLockfile => command'.phase = "bailing")
  BY <1>1 DEF Wsp!Fail, WorkspaceTypes, WsCommandsMade
<1>3. /\ calls'[d].phase = "failed" /\ calls'[d].write = calls[d].write /\ calls'[d].save = calls[d].save
      /\ calls'[d].build = calls[d].build /\ calls'[d].how = calls[d].how
  BY <1>1, <1>2 DEF WorkspaceTypes, WsCalls
<1>4. /\ past'.strays = past.strays /\ past.harmed \subseteq past'.harmed /\ past'.missed = past.missed
      /\ \A e \in WsProjects : e # d => past'.broke[e] = past.broke[e]
      /\ Intact' => Intact /\ calls[d].write # {"wanted"} /\ (~oneLockfile => calls[d].build = {})
  <2> DEFINE ds == {d}
  <2>1. ds \in SUBSET WsProjects /\ \A e \in WsProjects : e # d => e \notin ds
    BY <1>1
  <2>2. past' = Wsp!Broken(ds) /\ WorkspaceTypes
    BY <1>1
  <2> HIDE DEF ds
  <2>3. /\ Wsp!Broken(ds).strays = past.strays /\ past.harmed \subseteq Wsp!Broken(ds).harmed
    BY <2>1, <2>2, BrokenIs
  <2>4. \A e \in WsProjects : e # d => Wsp!Broken(ds).broke[e] = past.broke[e]
    BY <2>1, <2>2, BrokenIs
  <2>5. past'.missed = past.missed
    BY <2>2 DEF Wsp!Broken, WorkspaceTypes, WsPasts
  <2>6. past'.torn = (\/ past.torn
                      \/ ~oneLockfile /\ \E e \in Wsp!Dirs : calls[e].build # {}
                      \/ \E e \in Wsp!Dirs : calls[e].write = {"wanted"}
                      \/ /\ command.name # "install" \/ Wsp!FilteredInstall
                         /\ \E e \in Wsp!Dirs : calls[e].phase \in (Wsp!Active \ {"lock"}) \cup {"done"})
    BY <2>2 DEF Wsp!Broken, WorkspaceTypes, WsPasts
  <2> QED BY <2>2, <2>3, <2>4, <2>5, <2>6 DEF Intact
<1>5. GoesOn /\ \A e \in WsProjects : e # d => Aside(e)
  BY <1>1, <1>2, <1>4 DEF GoesOn, Aside
<1>6. CallGoes(d)
  BY <1>1, <1>4, <1>5 DEF CallGoes
<1>7. CallFits(d)'
  <2>1. CallWrites(d) /\ Underway' /\ ~Begun(d)'
    BY <1>1, <1>2, <1>3 DEF UpToDateInv, CallFits, Underway, Begun, Wsp!Active
  <2>2. CallWrites(d)'
    BY <1>1, <1>3, <1>4, <2>1 DEF CallWrites
  <2>3. CallBuilds(d)' /\ CallRecords(d)'
    BY <1>3, <2>1 DEF CallBuilds, CallRecords, Finishing
  <2> QED BY <2>2, <2>3 DEF CallFits
<1>8. ASSUME NEW p \in Wsp!Of(d) PROVE ProjectFits(p)'
  <2>1. calls'[d].phase \in {"idle", "failed"} /\ {d} \in SUBSET Wsp!Dirs
    BY <1>3
  <2> QED BY <1>1, <2>1, BrokenUpToDate
<1>9. calls[d].phase # "idle"
  BY <1>1 DEF Wsp!Active
<1> QED BY <1>2, <1>6, <1>7, <1>8, <1>9, CallUpToDate

LEMMA StopUpToDate ==
  ASSUME Wsp!WorkspaceAssumption, WorkspaceInv, UpToDateInv, Wsp!Exit \/ Wsp!Kill
  PROVE  UpToDateInv'
<1>1. /\ UNCHANGED <<oneLockfile, ws, mods, state>> /\ past' = Wsp!Broken(Wsp!Dirs) /\ WorkspaceTypes /\ Underway
      /\ calls' = [d \in WsProjects |-> Wsp!NoCall]
      /\ command' = [command EXCEPT !.phase = "failed", !.left = {}]
  BY DEF WorkspaceInv, Wsp!Exit, Wsp!Kill, Wsp!Stop, Underway
<1>2. /\ \A d \in WsProjects : calls'[d] = Wsp!NoCall
      /\ command'.phase = "failed"
  BY <1>1 DEF WorkspaceTypes, WsCommandsMade
<1>3. /\ past'.strays = past.strays /\ past'.missed = past.missed /\ (Intact' => Intact)
  <2>1. past'.strays = past.strays
    BY <1>1, BrokenIs, WsDirsAre
  <2> QED BY <1>1, <2>1 DEF Wsp!Broken, WorkspaceTypes, WsPasts, Intact
<1>4. ~Underway'
  BY <1>2 DEF Underway
<1>5. ASSUME NEW d \in WsProjects PROVE CallFits(d)'
  BY <1>2, <1>4, RestCallsFit DEF Wsp!NoCall, Begun
<1>6. CommandIs' /\ StateIs' /\ RestIsEmpty'
  BY <1>1, <1>3, <1>4 DEF UpToDateInv, CommandIs, StateIs, RestIsEmpty
<1>7. ASSUME NEW p \in WsProjects PROVE ProjectFits(p)'
  <2>1. Wsp!Dir(p) \in Wsp!Dirs /\ Wsp!Dir(p) \in WsProjects /\ p \in Wsp!Of(Wsp!Dir(p))
    BY WsDirsAre
  <2>2. calls'[Wsp!Dir(p)].phase \in {"idle", "failed"}
    BY <1>2, <2>1 DEF Wsp!NoCall
  <2> QED BY <1>1, <2>1, <2>2, BrokenUpToDate
<1> QED BY <1>5, <1>6, <1>7 DEF UpToDateInv

\* What checkDepsStatus makes of a workspace
LEMMA WantedIsCurrent ==
  ASSUME Wsp!WorkspaceAssumption, WorkspaceInv, NEW p \in ws.here, ws.lock[p] = ws.manifest[p],
         Wsp!CurrentIsWanted(Wsp!Dir(p))
  PROVE  /\ LockIsCurrent(p)
         /\ ws.lock[p] \in WsVersions => ws.lock[p] \in mods.packages[Wsp!Dir(p)]
<1> DEFINE d == Wsp!Dir(p)
<1>1. WorkspaceTypes /\ p \in WsProjects /\ p \in Wsp!Of(d) /\ ws.lock[p] \in WsVersions \cup {Wsp!NoDep}
  BY WsDirsAre, ConstantsAre DEF WorkspaceInv, WorkspaceTypes, WsLocks, CommandFits
<1> HIDE DEF d
<1>2. ws.lock[p] \in WsVersions => ws.lock[p] \in Wsp!PackagesOf(ws.lock, Wsp!Of(d))
  BY <1>1 DEF Wsp!PackagesOf
<1>3. CASE Wsp!HasCurrent(d)
  <2>1. mods.current[p] = ws.lock[p] /\ mods.packages[d] = Wsp!PackagesOf(ws.lock, Wsp!Of(d))
    BY <1>1, <1>3 DEF Wsp!CurrentIsWanted, d
  <2> QED BY <1>2, <2>1 DEF LockIsCurrent, d
<1>4. CASE ~Wsp!HasCurrent(d)
  <2>1. mods.current[p] = Wsp!Absent /\ Wsp!PackagesOf(ws.lock, Wsp!Of(d)) = {}
    BY <1>1, <1>4 DEF Wsp!CurrentIsWanted, Wsp!HasCurrent, Wsp!Ids, d
  <2> QED BY <1>1, <1>2, <2>1 DEF LockIsCurrent
<1> QED BY <1>3, <1>4

LEMMA CheckUpToDate ==
  ASSUME Wsp!WorkspaceAssumption, WorkspaceInv, UpToDateInv, Wsp!Skip \/ Wsp!Verify
  PROVE  UpToDateInv' /\ CheckedIs'
<1>1. PICK b \in BOOLEAN, phase \in {"skipped", "verified"} : Wsp!Check(b, phase) /\ (phase = "skipped" => b)
  BY DEF Wsp!Skip, Wsp!Verify
<1>2. /\ command.phase \in Wsp!Rest /\ UNCHANGED <<oneLockfile, ws, mods, past, spent>>
      /\ command' = [Wsp!NoCommand EXCEPT !.phase = phase] /\ calls' = [d \in WsProjects |-> Wsp!NoCall]
      /\ Wsp!DepsStatusIsFine(b)
      /\ state' = IF state.newer \cap ws.here = {} THEN state ELSE [state EXCEPT !.newer = {}, !.lockNewer = {}]
  BY <1>1 DEF Wsp!Check
<1>3. WorkspaceTypes /\ ~Underway /\ ~Underway' /\ command'.phase = phase /\ \A d \in WsProjects : calls'[d] = Wsp!NoCall
  BY <1>2 DEF WorkspaceInv, Underway, Wsp!Rest, Wsp!NoCommand
<1>4. /\ state.projects = ws.here /\ (b => ~state.filtered) /\ state.newer \subseteq ws.here
      /\ state.filtered \/ \A p \in ws.here : ws.manifest[p] # Wsp!NoDep => Wsp!HasModulesDir(p)
      /\ \A p \in state.newer : /\ ws.lock[p] = ws.manifest[p]
                                /\ Wsp!Dir(p) \in state.lockNewer => Wsp!CurrentIsWanted(Wsp!Dir(p))
  BY <1>2 DEF Wsp!DepsStatusIsFine, UpToDateInv, StateIs
<1>5. /\ state'.newer = {} /\ state'.projects = state.projects /\ state'.filtered = state.filtered
      /\ state'.lockNewer = IF state.newer = {} THEN state.lockNewer ELSE {}
  BY <1>2, <1>3, <1>4 DEF WorkspaceTypes, WsStates
<1>6. ASSUME NEW d \in WsProjects PROVE CallFits(d)'
  BY <1>3, RestCallsFit DEF Wsp!NoCall, Begun
<1>7. CommandIs' /\ StateIs' /\ RestIsEmpty'
  BY <1>2, <1>3, <1>4, <1>5 DEF UpToDateInv, CommandIs, StateIs, RestIsEmpty, Intact
<1>8. ASSUME NEW p \in WsProjects PROVE ProjectFits(p)'
  <2>1. /\ ProjectFits(p) /\ Wsp!Dir(p)' = Wsp!Dir(p) /\ Wsp!Dir(p) \in WsProjects /\ calls[Wsp!Dir(p)].write = {}
        /\ calls[Wsp!Dir(p)].build = {} /\ ~Unsaved(p) /\ ~Overlooked(p) /\ ~Relinks(p, Wsp!Dir(p))
    BY <1>2, <1>3, RestIsQuiet DEF UpToDateInv, Wsp!Dir
  <2>2. /\ (Passed(p)' <=> Passed(p)) /\ (LockIsCurrent(p)' <=> LockIsCurrent(p)) /\ (Intact' <=> Intact)
        /\ (Sound(Wsp!Dir(p))' <=> Sound(Wsp!Dir(p)))
    BY <1>2, <2>1 DEF Passed, LockIsCurrent, Intact, Sound
  <2>3. ASSUME Intact, p \in ws.here
        PROVE  Passed(p) \/ (ws.lock[p] = ws.manifest[p] /\ LockIsCurrent(p))
    <3>1. CASE p \notin state.newer
      BY <1>4, <2>1, <2>3, <3>1 DEF ProjectFits, ManifestIsLocked
    <3>2. CASE p \in state.newer /\ Wsp!Dir(p) \in state.lockNewer
      BY <1>4, <2>3, <3>2, WantedIsCurrent
    <3>3. CASE p \in state.newer /\ Wsp!Dir(p) \notin state.lockNewer
      BY <1>4, <2>1, <2>3, <3>3 DEF ProjectFits, LockIsInstalled
    <3> QED BY <3>1, <3>2, <3>3
  <2>4. ManifestIsLocked(p)' /\ LockIsInstalled(p)'
    BY <1>2, <1>4, <1>5, <2>2, <2>3 DEF ManifestIsLocked, LockIsInstalled
  <2>5. CurrentIsLinked(p)'
    <3>1. SUFFICES ASSUME Intact, p \in ws.here, Sound(Wsp!Dir(p)), p \notin past.missed, mods.current[p] \in WsVersions,
                          Returned(p)
                   PROVE  FALSE
      BY <1>2, <1>4, <1>5, <2>1, <2>2 DEF ProjectFits, CurrentIsLinked
    <3>2. oneLockfile /\ ~state.filtered /\ p # WsRoot /\ mods.link[p] = Wsp!NoDep
      BY <3>1 DEF Returned
    <3>3. ws.manifest[p] = Wsp!NoDep
      BY <1>4, <3>1, <3>2 DEF Wsp!HasModulesDir, UpToDateInv, RestIsEmpty
    <3>4. LockIsCurrent(p) /\ ws.lock[p] = Wsp!NoDep
      BY <2>3, <3>1, <3>2, <3>3 DEF Passed
    <3> QED BY <3>1, <3>4, ConstantsAre DEF LockIsCurrent
  <2>6. LockIsPackaged(p)'
    <3>1. SUFFICES ASSUME Intact, oneLockfile, p \in ws.here, ~state.filtered \/ p \notin past.missed,
                          ws.lock[p] \in WsVersions
                   PROVE  ws.lock[p] \in mods.packages[WsRoot]
      BY <1>2, <1>4, <1>5, <2>2 DEF LockIsPackaged
    <3>2. Wsp!Dir(p) = WsRoot
      BY <3>1 DEF Wsp!Dir
    <3>3. CASE p \notin state.newer \/ WsRoot \notin state.lockNewer
      BY <1>4, <2>1, <3>1, <3>2, <3>3 DEF ProjectFits, LockIsPackaged
    <3>4. CASE p \in state.newer /\ WsRoot \in state.lockNewer
      BY <1>4, <3>1, <3>2, <3>4, WantedIsCurrent
    <3> QED BY <3>3, <3>4
  <2>7. LinkIsStored(p)'
    BY <1>2, <2>1, <2>2 DEF ProjectFits, LinkIsStored
  <2>8. UnbuiltIsToBuild(p)'
    <3>1. calls[p].build = {} /\ calls'[p].build = {}
      BY <1>3 DEF Wsp!NoCall, UpToDateInv, CallFits, CallWrites
    <3> QED BY <1>2, <2>1, <2>2, <3>1 DEF ProjectFits, UnbuiltIsToBuild, Sound
  <2> QED BY <2>4, <2>5, <2>6, <2>7, <2>8 DEF ProjectFits
<1>9. CheckedIs'
  BY <1>1, <1>2, <1>3, <1>4, <1>5 DEF CheckedIs, Wsp!HasModulesDir
<1> QED BY <1>6, <1>7, <1>8, <1>9 DEF UpToDateInv

\* After a check, until the next step
LEMMA CheckedIsUsable ==
  ASSUME Wsp!WorkspaceAssumption, WorkspaceInv, UpToDateInv, CheckedIs, command.phase \in {"skipped", "verified"}, Intact,
         NEW p \in ws.here, Sound(Wsp!Dir(p)), past.broke[Wsp!Dir(p)] \subseteq {ws.lock},
         p \notin past.missed \/ (command.phase = "skipped" /\ oneLockfile /\ p \notin past.strays)
  PROVE  Wsp!Usable(p) /\ ws.lock[p] = ws.manifest[p]
<1> DEFINE d == Wsp!Dir(p)
           v == ws.manifest[p]
<1>1. /\ WorkspaceTypes /\ ~Underway /\ p \in WsProjects /\ ProjectFits(p) /\ d \in WsProjects
      /\ p \in state.projects /\ p \notin state.newer
      /\ v \in WsVersions \cup {Wsp!NoDep} /\ mods.link[p] \in WsVersions \cup {Wsp!NoDep}
  <2>1. WorkspaceTypes /\ ~Underway /\ p \in WsProjects
    BY DEF WorkspaceInv, WorkspaceTypes, Underway
  <2> QED BY <2>1, ConstantsAre, WsDirsAre DEF UpToDateInv, CheckedIs, WorkspaceInv, CommandFits, WorkspaceTypes, WsLocks, WsModules
<1>2. calls[d].write = {} /\ calls[d].build = {} /\ ~Unsaved(p) /\ ~Overlooked(p) /\ ~Relinks(p, d)
  BY <1>1, RestIsQuiet
<1>3. ws.lock[p] = v /\ LockIsCurrent(p)
  BY <1>1, <1>2 DEF ProjectFits, ManifestIsLocked, Passed
<1>4. \/ p \in past.strays \/ mods.link[p] \in {Wsp!NoDep, mods.current[p]} \/ mods.link[p] = v
  BY <1>1, <1>3, RestIs
<1> HIDE DEF d
<1>5. CASE v = Wsp!NoDep
  BY <1>1, <1>3, <1>4, <1>5, ConstantsAre DEF LockIsCurrent, Wsp!Usable
<1>6. CASE v \in WsVersions
  <2>1. mods.current[p] = v /\ v # Wsp!NoDep
    BY <1>3, <1>6, ConstantsAre DEF LockIsCurrent
  <2>2. mods.link[p] = v
    <3>1. CASE p \notin past.missed
      BY <1>1, <1>2, <1>3, <1>6, <2>1, <3>1 DEF ProjectFits, CurrentIsLinked, Returned, d
    <3>2. CASE p \in past.missed
      <4>1. oneLockfile /\ p \notin past.strays /\ ~state.filtered /\ Wsp!HasModulesDir(p)
        BY <2>1, <3>2 DEF CheckedIs
      <4>2. p # WsRoot
        BY <3>2, <4>1 DEF UpToDateInv, StateIs
      <4>3. mods.link[p] # Wsp!NoDep
        BY <1>1, <4>1, <4>2 DEF Wsp!HasModulesDir, UpToDateInv, RestIsEmpty
      <4> QED BY <1>4, <2>1, <4>1, <4>3
    <3> QED BY <3>1, <3>2
  <2>3. mods.store[d][v] # "absent"
    BY <1>1, <1>2, <1>6, <2>1, <2>2 DEF ProjectFits, LinkIsStored, d
  <2>4. mods.store[d][v] \in {"fresh", "built"}
    BY <1>1, <1>6, <2>3 DEF WorkspaceTypes, WsModules
  <2>5. ASSUME v \in WsNeedBuild PROVE mods.store[d][v] = "built"
    <3>1. CASE oneLockfile
      <4>1. d = WsRoot
        BY <3>1 DEF Wsp!Dir, d
      <4>2. v \in mods.packages[WsRoot]
        BY <1>1, <1>2, <1>3, <1>6, <3>1, <4>1 DEF ProjectFits, LockIsPackaged, CheckedIs
      <4> QED BY <1>1, <2>3, <2>5, <3>1, <4>1, <4>2, RestIs, ConstantsAre DEF d
    <3>2. CASE ~oneLockfile
      <4>1. d = p
        BY <3>2 DEF Wsp!Dir, d
      <4>2. Sound(p) /\ calls[p].build = {}
        BY <1>2, <4>1 DEF d
      <4> QED BY <1>1, <1>6, <2>2, <2>4, <2>5, <3>2, <4>1, <4>2 DEF ProjectFits, UnbuiltIsToBuild
    <3> QED BY <3>1, <3>2
  <2> QED BY <1>3, <2>1, <2>2, <2>4, <2>5 DEF Wsp!Usable, d
<1> QED BY <1>1, <1>3, <1>5, <1>6

LEMMA UpToDateIsTrueOfIt ==
  ASSUME Wsp!WorkspaceAssumption, WorkspaceInv, UpToDateInv, CheckedIs
  PROVE  Wsp!WorkspaceIsUpToDate /\ Wsp!VerifiedIsUsable
<1>1. ASSUME NEW p \in ws.here, command.phase = "skipped", ~past.torn
      PROVE  \/ Wsp!Dir(p) \in past.harmed \/ ~(past.broke[Wsp!Dir(p)] \subseteq {ws.lock})
             \/ (p \in past.missed /\ (~oneLockfile \/ p \in past.strays))
             \/ (Wsp!Usable(p) /\ ws.lock[p] = ws.manifest[p])
  BY <1>1, CheckedIsUsable DEF Intact, Sound
<1>2. ASSUME NEW p \in ws.here, command.phase = "verified", ~past.torn
      PROVE  \/ Wsp!Dir(p) \in past.harmed \/ ~(past.broke[Wsp!Dir(p)] \subseteq {ws.lock})
             \/ p \in past.missed \/ Wsp!Usable(p)
  BY <1>2, CheckedIsUsable DEF Intact, Sound
<1>3. Wsp!WorkspaceIsUpToDate
  BY <1>1 DEF Wsp!WorkspaceIsUpToDate
<1>4. Wsp!VerifiedIsUsable
  BY <1>2 DEF Wsp!VerifiedIsUsable
<1> QED BY <1>3, <1>4

\* A command begins, and what the user does
LEMMA BeginUpToDate ==
  ASSUME Wsp!WorkspaceAssumption, WorkspaceInv, UpToDateInv, NEW sel, NEW c \in WsCommands[oneLockfile],
         Wsp!Begin(c.name, sel, c.version, c.only, c.bail)
  PROVE  UpToDateInv'
<1> DEFINE hit == Wsp!Hit(c.name, sel)
<1>1. /\ command.phase \in Wsp!Rest /\ UNCHANGED <<oneLockfile, ws, mods, state>> /\ hit # {}
      /\ command' = [Wsp!NoCommand EXCEPT !.phase = "running", !.name = c.name, !.sel = sel, !.hit = hit,
                                          !.version = c.version, !.only = c.only, !.bail = c.bail]
      /\ calls' = [d \in WsProjects |->
           [Wsp!NoCall EXCEPT !.phase = IF d \in {Wsp!Dir(p) : p \in hit} THEN "waiting" ELSE "idle"]]
      /\ past' = [past EXCEPT !.settled = @ \ (hit \cup IF oneLockfile THEN {WsRoot} \cap ws.here ELSE {})]
  BY DEF Wsp!Begin
<1>2. /\ c.name = "install" => hit = sel
      /\ \A p \in sel \ hit : ws.manifest[p] = Wsp!NoDep
  BY DEF Wsp!Hit
<1> HIDE DEF hit
<1>3. /\ WorkspaceTypes /\ command'.phase = "running" /\ command'.name = c.name /\ command'.sel = sel /\ command'.hit = hit
      /\ past'.strays = past.strays /\ past'.harmed = past.harmed /\ past'.broke = past.broke
      /\ past'.missed = past.missed /\ past'.torn = past.torn
  BY <1>1 DEF Wsp!NoCommand, WorkspaceInv, WorkspaceTypes, WsPasts
<1>4. \A d \in WsProjects : /\ calls'[d].phase \in {"waiting", "idle"} /\ calls'[d].how = "full"
                            /\ calls'[d].write = {} /\ calls'[d].save = {} /\ calls'[d].build = {}
  BY <1>1 DEF Wsp!NoCall
<1>5. ~Underway
  BY <1>1 DEF Underway, Wsp!Rest
<1>6. ASSUME NEW d \in WsProjects PROVE CallFits(d)'
  BY <1>4, RestCallsFit DEF Begun, Wsp!Active
<1>7. CommandIs' /\ StateIs' /\ RestIsEmpty'
  BY <1>1, <1>2, <1>3, <1>4, ConstantsAre DEF UpToDateInv, CommandIs, StateIs, RestIsEmpty, Intact
<1>8. ASSUME NEW p \in WsProjects PROVE ProjectFits(p)'
  <2>1. /\ ProjectFits(p) /\ Wsp!Dir(p)' = Wsp!Dir(p) /\ Wsp!Dir(p) \in WsProjects /\ calls[Wsp!Dir(p)].write = {}
        /\ ~Unsaved(p) /\ ~Overlooked(p) /\ ~Relinks(p, Wsp!Dir(p)) /\ (oneLockfile => Wsp!Dir(p) = WsRoot)
    BY <1>1, <1>5, RestIsQuiet DEF UpToDateInv, Wsp!Dir
  <2>2. /\ (Passed(p)' <=> Passed(p)) /\ (LockIsCurrent(p)' <=> LockIsCurrent(p)) /\ (Intact' <=> Intact)
        /\ (Sound(Wsp!Dir(p))' <=> Sound(Wsp!Dir(p))) /\ (Returned(p)' <=> Returned(p))
    BY <1>1, <1>3, <2>1 DEF Passed, LockIsCurrent, Intact, Sound, Returned
  <2>3. ManifestIsLocked(p)' /\ LockIsInstalled(p)'
    BY <1>1, <2>1, <2>2 DEF ProjectFits, ManifestIsLocked, LockIsInstalled
  <2>4. CurrentIsLinked(p)' /\ LockIsPackaged(p)' /\ LinkIsStored(p)'
    BY <1>1, <1>3, <2>1, <2>2 DEF ProjectFits, CurrentIsLinked, LockIsPackaged, LinkIsStored
  <2>5. UnbuiltIsToBuild(p)'
    <3>1. calls[p].build = {}
      BY <1>5 DEF UpToDateInv, CallFits, CallWrites
    <3> QED BY <1>1, <1>3, <2>1, <2>2, <3>1 DEF ProjectFits, UnbuiltIsToBuild, Sound
  <2> QED BY <2>3, <2>4, <2>5 DEF ProjectFits
<1> QED BY <1>6, <1>7, <1>8 DEF UpToDateInv

LEMMA EditManifestUpToDate ==
  ASSUME Wsp!WorkspaceAssumption, WorkspaceInv, UpToDateInv, NEW p \in WsProjects,
         NEW v \in WsVersions \cup {Wsp!NoDep}, Wsp!EditManifest(p, v)
  PROVE  UpToDateInv'
<1>1. /\ command.phase \in Wsp!Rest /\ command' = Wsp!NoCommand /\ calls' = [d \in WsProjects |-> Wsp!NoCall]
      /\ UNCHANGED <<oneLockfile, mods>> /\ WorkspaceTypes
      /\ ws' = [ws EXCEPT !.manifest[p] = v, !.here = @ \cup {p}]
      /\ state' = [state EXCEPT !.newer = @ \cup {p}]
      /\ past' = [past EXCEPT !.settled = @ \ {p},
                              !.missed = IF state.filtered /\ p \notin ws.here THEN @ \cup {p} ELSE @]
  BY DEF Wsp!EditManifest, Wsp!Edited, WorkspaceInv
<1>2. /\ ws'.here = ws.here \cup {p} /\ ws'.lock = ws.lock
      /\ \A q \in WsProjects : q # p => ws'.manifest[q] = ws.manifest[q]
      /\ state'.newer = state.newer \cup {p} /\ state'.lockNewer = state.lockNewer
      /\ state'.projects = state.projects /\ state'.filtered = state.filtered
  BY <1>1 DEF WorkspaceTypes, WsLocks, WsStates
<1>3. /\ past'.strays = past.strays /\ past'.harmed = past.harmed /\ past'.broke = past.broke /\ past'.torn = past.torn
      /\ past'.missed = past.missed \cup (IF state.filtered /\ p \notin ws.here THEN {p} ELSE {})
  BY <1>1 DEF WorkspaceTypes, WsPasts
<1>4. ~Underway /\ ~Underway' /\ \A d \in WsProjects : calls'[d] = Wsp!NoCall
  BY <1>1 DEF Underway, Wsp!Rest, Wsp!NoCommand
<1>5. ASSUME NEW d \in WsProjects PROVE CallFits(d)'
  BY <1>4, RestCallsFit DEF Wsp!NoCall, Begun
<1>6. CommandIs' /\ StateIs' /\ RestIsEmpty'
  BY <1>1, <1>2, <1>3, <1>4 DEF UpToDateInv, CommandIs, StateIs, RestIsEmpty, Intact
<1>7. ASSUME NEW q \in WsProjects PROVE ProjectFits(q)'
  <2>1. /\ ProjectFits(q) /\ Wsp!Dir(q)' = Wsp!Dir(q) /\ Wsp!Dir(q) \in WsProjects /\ calls[Wsp!Dir(q)].write = {}
        /\ ~Unsaved(q) /\ ~Overlooked(q) /\ ~Relinks(q, Wsp!Dir(q)) /\ (oneLockfile => Wsp!Dir(q) = WsRoot)
        /\ (q \notin ws.here => mods.link[q] = Wsp!NoDep)
    BY <1>1, <1>4, RestIsQuiet DEF UpToDateInv, Wsp!Dir, WorkspaceInv, LinkFits
  <2>2. /\ (Passed(q) => Passed(q)') /\ (LockIsCurrent(q)' <=> LockIsCurrent(q)) /\ (Intact' <=> Intact)
        /\ (Sound(Wsp!Dir(q))' <=> Sound(Wsp!Dir(q))) /\ (Returned(q) => Returned(q)')
    BY <1>1, <1>2, <1>3, <2>1 DEF Passed, LockIsCurrent, Intact, Sound, Returned
  <2>3. /\ q # p => (q \in ws'.here <=> q \in ws.here) /\ (q \in past'.missed <=> q \in past.missed)
                    /\ (q \in state'.newer <=> q \in state.newer) /\ ws'.manifest[q] = ws.manifest[q]
        /\ q = p => q \in ws'.here /\ q \in state'.newer
        /\ q \in ws.here => (q \in past'.missed <=> q \in past.missed)
        /\ q \in ws.here => q \in ws'.here
        /\ q \notin ws.here /\ q \in ws'.here => q = p /\ (state.filtered => q \in past'.missed)
    BY <1>2, <1>3
  <2>4. ManifestIsLocked(q)' /\ LockIsInstalled(q)'
    BY <1>2, <2>1, <2>2, <2>3 DEF ProjectFits, ManifestIsLocked, LockIsInstalled
  <2>5. CurrentIsLinked(q)'
    <3>1. CASE q \in ws.here \/ q \notin ws'.here
      BY <1>1, <1>2, <1>3, <2>1, <2>2, <2>3, <3>1 DEF ProjectFits, CurrentIsLinked
    <3>2. CASE q \notin ws.here /\ q \in ws'.here
      <4>1. SUFFICES ASSUME q \in state.projects, ~state.filtered, mods.current[q] \in WsVersions PROVE Returned(q)'
        BY <1>1, <1>2, <2>2, <2>3, <3>2 DEF CurrentIsLinked
      <4>2. oneLockfile
        BY <3>2, <4>1, ConstantsAre DEF UpToDateInv, RestIsEmpty
      <4>3. q # WsRoot
        BY <3>2, <4>1 DEF UpToDateInv, StateIs
      <4> QED BY <1>1, <1>2, <2>1, <2>3, <3>2, <4>1, <4>2, <4>3 DEF Returned
    <3> QED BY <3>1, <3>2
  <2>6. LockIsPackaged(q)'
    BY <1>1, <1>2, <2>1, <2>2, <2>3 DEF ProjectFits, LockIsPackaged
  <2>7. LinkIsStored(q)'
    BY <1>1, <1>3, <2>1, <2>2, <2>3, ConstantsAre DEF ProjectFits, LinkIsStored
  <2>8. UnbuiltIsToBuild(q)'
    <3>1. calls[q].build = {}
      BY <1>4 DEF UpToDateInv, CallFits, CallWrites
    <3> QED BY <1>1, <1>3, <2>1, <2>2, <3>1 DEF ProjectFits, UnbuiltIsToBuild, Sound
  <2> QED BY <2>4, <2>5, <2>6, <2>7, <2>8 DEF ProjectFits
<1> QED BY <1>5, <1>6, <1>7 DEF UpToDateInv

LEMMA RemoveProjectUpToDate ==
  ASSUME Wsp!WorkspaceAssumption, WorkspaceInv, UpToDateInv, NEW p \in WsProjects, Wsp!RemoveProject(p)
  PROVE  UpToDateInv'
<1>1. /\ command.phase \in Wsp!Rest /\ command' = Wsp!NoCommand /\ calls' = [d \in WsProjects |-> Wsp!NoCall]
      /\ oneLockfile' = oneLockfile /\ WorkspaceTypes /\ p # WsRoot
      /\ state' = [state EXCEPT !.newer = @ \ {p}]
  BY DEF Wsp!RemoveProject, Wsp!Edited, WorkspaceInv
<1>2. /\ ws'.here = ws.here \ {p} /\ ws'.manifest = [ws.manifest EXCEPT ![p] = Wsp!Absent]
      /\ ws'.lock = (IF oneLockfile THEN ws.lock ELSE [ws.lock EXCEPT ![p] = Wsp!Absent])
      /\ mods'.link = [mods.link EXCEPT ![p] = Wsp!NoDep]
      /\ mods'.current = (IF oneLockfile THEN mods.current ELSE [mods.current EXCEPT ![p] = Wsp!Absent])
      /\ mods'.packages = (IF oneLockfile THEN mods.packages ELSE [mods.packages EXCEPT ![p] = {}])
      /\ mods'.store = (IF oneLockfile THEN mods.store ELSE [mods.store EXCEPT ![p] = [v \in WsVersions |-> "absent"]])
  BY DEF Wsp!RemoveProject
<1>3. /\ past'.strays = past.strays \ {p} /\ past'.harmed = past.harmed /\ past'.missed = past.missed \ {p}
      /\ past'.torn = past.torn
      /\ past'.broke = IF oneLockfile THEN past.broke ELSE [past.broke EXCEPT ![p] = {}]
  <2> DEFINE broke == IF oneLockfile THEN past.broke ELSE [past.broke EXCEPT ![p] = {}]
  <2>1. past' = [past EXCEPT !.settled = @ \ {p}, !.missed = @ \ {p}, !.strays = @ \ {p}, !.broke = broke]
    BY DEF Wsp!RemoveProject
  <2> HIDE DEF broke
  <2>2. /\ past'.missed = past.missed \ {p} /\ past'.strays = past.strays \ {p} /\ past'.harmed = past.harmed
        /\ past'.broke = broke /\ past'.torn = past.torn
    BY <1>1, <2>1 DEF WorkspaceTypes, WsPasts
  <2> QED BY <2>2 DEF broke
<1>4. ~Underway /\ ~Underway' /\ \A d \in WsProjects : calls'[d] = Wsp!NoCall
  BY <1>1 DEF Underway, Wsp!Rest, Wsp!NoCommand
<1>5. /\ state'.newer = state.newer \ {p} /\ state'.lockNewer = state.lockNewer
      /\ state'.projects = state.projects /\ state'.filtered = state.filtered
  BY <1>1 DEF WorkspaceTypes, WsStates
<1>6. ASSUME NEW d \in WsProjects PROVE CallFits(d)'
  BY <1>4, RestCallsFit DEF Wsp!NoCall, Begun
<1>7. CommandIs' /\ StateIs' /\ RestIsEmpty'
  <2>1. CommandIs' /\ StateIs'
    BY <1>1, <1>2, <1>3, <1>4, <1>5 DEF UpToDateInv, CommandIs, StateIs, Intact
  <2>2. RestIsEmpty'
    <3>1. CASE oneLockfile
      BY <1>1, <1>2, <3>1 DEF UpToDateInv, RestIsEmpty
    <3>2. CASE ~oneLockfile
      <4>1. past'.strays = {}
        BY <1>3, <3>2 DEF UpToDateInv, RestIsEmpty
      <4>2. ASSUME NEW q \in WsProjects \ ws'.here
            PROVE  /\ mods'.current[q] = Wsp!Absent /\ ws'.lock[q] = Wsp!Absent
                   /\ \A v \in WsVersions : mods'.store[q][v] = "absent"
        <5>1. CASE q = p
          BY <1>1, <1>2, <3>2, <5>1 DEF WorkspaceTypes, WsModules, WsLocks
        <5>2. CASE q # p
          BY <1>1, <1>2, <3>2, <4>2, <5>2 DEF UpToDateInv, RestIsEmpty, WorkspaceTypes, WsModules, WsLocks
        <5> QED BY <5>1, <5>2
      <4> QED BY <1>1, <3>2, <4>1, <4>2 DEF RestIsEmpty
    <3> QED BY <3>1, <3>2
  <2> QED BY <2>1, <2>2
<1>8. ASSUME NEW q \in WsProjects PROVE ProjectFits(q)'
  <2>1. /\ ProjectFits(q) /\ Wsp!Dir(q)' = Wsp!Dir(q) /\ Wsp!Dir(q) \in WsProjects /\ calls[Wsp!Dir(q)].write = {}
        /\ ~Unsaved(q) /\ ~Overlooked(q) /\ ~Relinks(q, Wsp!Dir(q)) /\ (oneLockfile => Wsp!Dir(q) = WsRoot)
        /\ calls[q].build = {} /\ calls'[q].build = {} /\ calls'[Wsp!Dir(q)].write = {}
    BY <1>1, <1>4, RestIsQuiet DEF UpToDateInv, Wsp!Dir, CallFits, CallWrites, Wsp!NoCall
  <2>2. CASE q = p
    <3>1. q \notin ws'.here
      BY <1>2, <2>2
    <3>2. CASE oneLockfile
      <4>1. LockIsInstalled(q)' /\ LockIsPackaged(q)'
        BY <1>1, <1>2, <1>3, <1>5, <2>1, <3>1, <3>2
        DEF ProjectFits, LockIsInstalled, LockIsPackaged, Passed, LockIsCurrent, Intact
      <4> QED BY <1>1, <3>1, <3>2, <4>1 DEF ProjectFits, ManifestIsLocked, CurrentIsLinked, LinkIsStored, UnbuiltIsToBuild
    <3>3. CASE ~oneLockfile
      <4>1. mods'.current[q] = Wsp!Absent /\ ws'.lock[q] = Wsp!Absent /\ \A v \in WsVersions : mods'.store[q][v] = "absent"
        BY <1>1, <1>2, <2>2, <3>3 DEF WorkspaceTypes, WsModules, WsLocks
      <4>2. LockIsInstalled(q)' /\ UnbuiltIsToBuild(q)'
        BY <4>1 DEF LockIsInstalled, LockIsCurrent, UnbuiltIsToBuild
      <4> QED BY <1>1, <3>1, <3>3, <4>2 DEF ProjectFits, ManifestIsLocked, CurrentIsLinked, LinkIsStored, LockIsPackaged
    <3> QED BY <3>2, <3>3
  <2>3. CASE q # p
    <3>1. /\ ws'.manifest[q] = ws.manifest[q] /\ ws'.lock[q] = ws.lock[q] /\ mods'.link[q] = mods.link[q]
          /\ mods'.current[q] = mods.current[q] /\ mods'.store[Wsp!Dir(q)] = mods.store[Wsp!Dir(q)]
          /\ mods'.packages[Wsp!Dir(q)] = mods.packages[Wsp!Dir(q)] /\ past'.broke[Wsp!Dir(q)] = past.broke[Wsp!Dir(q)]
          /\ (q \in ws'.here <=> q \in ws.here) /\ (q \in state'.newer <=> q \in state.newer)
          /\ (q \in past'.missed <=> q \in past.missed) /\ (q \in past'.strays <=> q \in past.strays)
      <4>1. CASE oneLockfile
        BY <1>1, <1>2, <1>3, <1>5, <2>3, <4>1 DEF WorkspaceTypes, WsModules, WsLocks
      <4>2. CASE ~oneLockfile
        <5>1. Wsp!Dir(q) = q
          BY <4>2 DEF Wsp!Dir
        <5> QED BY <1>1, <1>2, <1>3, <1>5, <2>3, <4>2, <5>1 DEF WorkspaceTypes, WsModules, WsLocks, WsPasts
      <4> QED BY <4>1, <4>2
    <3>2. /\ (Passed(q)' <=> Passed(q)) /\ (LockIsCurrent(q)' <=> LockIsCurrent(q)) /\ (Intact' <=> Intact)
          /\ (Sound(Wsp!Dir(q))' <=> Sound(Wsp!Dir(q))) /\ (Returned(q)' <=> Returned(q))
      BY <1>1, <1>3, <1>5, <2>1, <3>1 DEF Passed, LockIsCurrent, Intact, Sound, Returned
    <3>3. ManifestIsLocked(q)' /\ LockIsInstalled(q)'
      BY <1>5, <2>1, <3>1, <3>2 DEF ProjectFits, ManifestIsLocked, LockIsInstalled
    <3>4. CurrentIsLinked(q)' /\ LockIsPackaged(q)' /\ LinkIsStored(q)'
      BY <1>1, <1>5, <2>1, <3>1, <3>2 DEF ProjectFits, CurrentIsLinked, LockIsPackaged, LinkIsStored
    <3>5. UnbuiltIsToBuild(q)'
      <4>1. CASE ~oneLockfile
        <5>1. Wsp!Dir(q) = q
          BY <4>1 DEF Wsp!Dir
        <5>2. mods'.store[q] = mods.store[q] /\ mods'.packages[q] = mods.packages[q] /\ (Sound(q)' <=> Sound(q))
          BY <1>3, <3>1, <5>1 DEF Sound
        <5> QED BY <1>1, <2>1, <3>1, <3>2, <5>2 DEF ProjectFits, UnbuiltIsToBuild
      <4> QED BY <1>1, <4>1 DEF UnbuiltIsToBuild
    <3> QED BY <3>3, <3>4, <3>5 DEF ProjectFits
  <2> QED BY <2>2, <2>3
<1> QED BY <1>6, <1>7, <1>8 DEF UpToDateInv

\* A command ends.
LEMMA EndsAre ==
  ASSUME Wsp!WorkspaceAssumption, WorkspaceInv, UpToDateInv, command.phase = "rebuilding", NEW p \in WsProjects
  PROVE  LET d == Wsp!Dir(p)
         IN  /\ d \in Wsp!Dirs /\ d \in WsProjects /\ p \in Wsp!Of(d) /\ calls[d].phase \in {"idle", "done", "failed"}
             /\ (oneLockfile => d = WsRoot /\ calls[d].phase = "done")
             /\ (~oneLockfile => d = p)
             /\ ~Unsaved(p) /\ ~Relinks(p, d)
             /\ Intact => calls[d].write # {"wanted"}
<1> DEFINE d == Wsp!Dir(p)
<1>1. d \in Wsp!Dirs /\ d \in WsProjects /\ p \in Wsp!Of(d)
  BY WsDirsAre
<1>2. calls[d].phase \in {"idle", "done", "failed"}
  BY <1>1 DEF WorkspaceInv, CommandFits, Wsp!AllEnded
<1>3. ~oneLockfile => d = p
  BY DEF Wsp!Dir
<1>4. oneLockfile => d = WsRoot /\ calls[d].phase = "done"
  <2>1. SUFFICES ASSUME oneLockfile PROVE d = WsRoot /\ calls[d].phase \notin {"idle", "failed"}
    BY <1>2
  <2>2. d = WsRoot
    BY <2>1 DEF Wsp!Dir
  <2>3. command.hit # {} /\ calls[WsRoot].phase # "failed"
    BY <2>1 DEF UpToDateInv, CommandIs, Underway
  <2>4. \A q \in command.hit : Wsp!Dir(q) = WsRoot /\ calls[WsRoot].phase # "idle"
    BY <2>1 DEF Wsp!Dir, WorkspaceInv, CommandFits, Underway
  <2> QED BY <2>2, <2>3, <2>4
<1>5. ~Unsaved(p) /\ ~Relinks(p, d)
  BY <1>2 DEF Unsaved, Relinks, Wsp!Active
<1>6. Intact => calls[d].write # {"wanted"}
  BY <1>1, <1>2 DEF UpToDateInv, CallFits, CallWrites
<1> QED BY <1>1, <1>2, <1>3, <1>4, <1>5, <1>6

\* A call that is done has written the current lockfile of all its projects.
LEMMA DoneIsRecorded ==
  ASSUME Wsp!WorkspaceAssumption, WorkspaceInv, UpToDateInv, command.phase = "rebuilding",
         NEW d \in Wsp!Dirs, calls[d].phase = "done", ~command.only \/ calls[d].how = "filtered"
  PROVE  /\ d \in WsProjects /\ Finishing(d) /\ CallRecords(d) /\ (Sound(d) => Carried(d))
         /\ \A p \in Wsp!Of(d) \cap ws.here : /\ ws.lock[p] = ws.manifest[p] /\ calls[d].target[p] = ws.manifest[p]
                                              /\ LockIsCurrent(p) /\ (mods.current[p] \in WsVersions => mods.current[p] = ws.lock[p])
<1>1. d \in WsProjects /\ Begun(d) /\ Planned(d)
  BY WsDirsAre, DoneIsWritten
<1>2. calls[d].write = {}
  BY <1>1 DEF UpToDateInv, CallFits, CallWrites
<1>3. Finishing(d) /\ CallRecords(d)
  BY <1>1, <1>2 DEF Finishing, UpToDateInv, CallFits
<1>4. ASSUME NEW p \in Wsp!Of(d) \cap ws.here
      PROVE  /\ ws.lock[p] = ws.manifest[p] /\ calls[d].target[p] = ws.manifest[p] /\ LockIsCurrent(p)
             /\ (mods.current[p] \in WsVersions => mods.current[p] = ws.lock[p])
  <2>1. ws.lock[p] = ws.manifest[p] /\ calls[d].target[p] = ws.manifest[p]
    BY DoneIsWritten
  <2>2. RecordedAs(mods.current[p], calls[d].target[p])
    BY <1>3 DEF CallRecords
  <2> QED BY <2>1, <2>2, ConstantsAre DEF RecordedAs, LockIsCurrent
<1>5. Sound(d) => Carried(d)
  BY <1>1 DEF WorkspaceInv
<1> QED BY <1>1, <1>3, <1>4, <1>5

\* What a project has that was not installed when another was
LEMMA OverlookedHasNone ==
  ASSUME Wsp!WorkspaceAssumption, WorkspaceInv, UpToDateInv, command.phase = "rebuilding", oneLockfile,
         NEW p \in ws.here \ Wsp!Mutated(WsRoot), ~command.only \/ calls[WsRoot].how = "filtered",
         mods.link[p] \in WsVersions, p \notin past.strays
  PROVE  mods.link[p] = calls[WsRoot].target[p]
<1>1. p \in WsProjects /\ Wsp!Dir(p) = WsRoot /\ mods.link[p] # Wsp!NoDep
  BY ConstantsAre DEF WorkspaceInv, WorkspaceTypes, Wsp!Dir
<1>2. calls[WsRoot].phase = "done" /\ WsRoot \in Wsp!Dirs
  BY <1>1, EndsAre
<1>3. Finishing(WsRoot) /\ CallRecords(WsRoot)
  BY <1>2, DoneIsRecorded
<1> QED BY <1>1, <1>3 DEF CallRecords

\* Nothing is left to be built of a project with a lockfile of its own.
LEMMA NothingToBuild ==
  ASSUME Wsp!WorkspaceAssumption, WorkspaceInv, UpToDateInv, command.phase = "rebuilding", command.left = {},
         ~oneLockfile, NEW p \in WsProjects, Sound(p), Intact \/ (~command.only /\ calls[p].phase = "done"),
         NEW v \in WsVersions \cap WsNeedBuild, v \in mods.packages[p] \/ mods.link[p] = v
  PROVE  mods.store[p][v] # "fresh"
<1>1. /\ p \in Wsp!Dirs /\ calls[p].phase \in {"idle", "done", "failed"} /\ CallFits(p) /\ ProjectFits(p) /\ Underway
      /\ v # Wsp!NoDep
  BY EndsAre, ConstantsAre DEF UpToDateInv, Underway
<1>2. CASE calls[p].phase = "done" /\ ~command.only
  <2>1. Begun(p) /\ Through(p) /\ Carried(p)
    BY <1>1, <1>2 DEF Begun, Through, WorkspaceInv
  <2>2. p \in Wsp!Mutated(p)
    BY <1>1, <1>2, SeparateIs
  <2>3. mods.link[p] = v => v \in mods.packages[p]
    <3>1. SUFFICES ASSUME mods.link[p] = v PROVE v \in mods.packages[p]
      OBVIOUS
    <3>2. calls[p].target[p] # Wsp!NoDep
      BY <1>1, <2>1, <2>2, <3>1 DEF Carried, HasUnlinked, UpToDateInv, RestIsEmpty
    <3>3. calls[p].target[p] = v
      BY <2>1, <2>2, <3>1, <3>2 DEF Carried, HasLinked
    <3> QED BY <2>1, <2>2, <3>3 DEF Carried, HasRecorded, Wsp!PackagesOf
  <2> QED BY <2>1, <2>3 DEF Carried, HasRecorded
<1>3. CASE Intact /\ ~(calls[p].phase = "done" /\ ~command.only)
  <2>1. calls[p].build = {}
    <3>1. CASE calls[p].phase = "idle"
      BY <1>1, <3>1 DEF CallFits, CallBuilds
    <3>2. CASE calls[p].phase = "failed"
      BY <1>1, <1>3, <3>2 DEF CallFits, CallWrites
    <3>3. CASE calls[p].phase = "done"
      BY <1>1, <1>3, <3>3 DEF CallFits, CallWrites, Begun
    <3> QED BY <1>1, <3>1, <3>2, <3>3
  <2> QED BY <1>1, <1>3, <2>1 DEF ProjectFits, UnbuiltIsToBuild
<1> QED BY <1>2, <1>3

\* The state is not written after a failure, or with the lockfile only.
LEMMA UnwrittenUpToDate ==
  ASSUME Wsp!WorkspaceAssumption, WorkspaceInv, UpToDateInv, command.phase = "rebuilding", command.left = {},
         ~Underway', UNCHANGED <<oneLockfile, ws, mods, state>>, NEW installed,
         installed = UNION {Wsp!Mutated(d) : d \in {e \in Wsp!Dirs : calls[e].phase = "done"}},
         past'.missed = past.missed \cup
           ({p \in state.newer : ~command.only \/ calls[Wsp!Dir(p)].how = "filtered"} \ installed),
         past'.strays = past.strays, past'.harmed = past.harmed, past'.torn = past.torn, past'.broke = past.broke,
         \A d \in WsProjects : CallFits(d)' /\ calls'[d].build = {} /\ calls'[d].write = {}
  PROVE  UpToDateInv'
<1>1. WorkspaceTypes /\ WsRoot \in WsProjects /\ (Intact' <=> Intact) /\ state.newer \subseteq ws.here
  BY ConstantsAre DEF WorkspaceInv, Intact, UpToDateInv, StateIs
<1>2. ASSUME oneLockfile PROVE installed = Wsp!Mutated(WsRoot) /\ calls[WsRoot].phase = "done" /\ WsRoot \in Wsp!Dirs
  <2>1. calls[WsRoot].phase = "done" /\ Wsp!Dirs = {WsRoot}
    BY <1>1, <1>2, EndsAre, WsDirsAre
  <2> QED BY <2>1
<1>3. StateIs'
  <2>1. oneLockfile /\ WsRoot \in state.newer => WsRoot \in installed
    BY <1>1, <1>2, WsDirsAre DEF Wsp!Mutated
  <2> QED BY <1>1, <2>1 DEF UpToDateInv, StateIs
<1>4. CommandIs' /\ RestIsEmpty'
  BY DEF UpToDateInv, CommandIs, RestIsEmpty
<1>5. ASSUME NEW p \in WsProjects PROVE ProjectFits(p)'
  <2> DEFINE d == Wsp!Dir(p)
  <2>1. /\ ProjectFits(p) /\ Wsp!Dir(p)' = d /\ d \in WsProjects /\ (oneLockfile => d = WsRoot) /\ (~oneLockfile => d = p)
        /\ ~Unsaved(p) /\ ~Relinks(p, d) /\ (Intact => calls[d].write # {"wanted"})
        /\ (Passed(p) => Passed(p)') /\ (p \in past.missed => p \in past'.missed)
    BY EndsAre DEF UpToDateInv, Wsp!Dir, Passed
  <2>2. (LockIsCurrent(p)' <=> LockIsCurrent(p)) /\ (Returned(p)' <=> Returned(p)) /\ (Sound(d)' <=> Sound(d))
    BY <2>1 DEF LockIsCurrent, Returned, Sound
  <2>3. ASSUME Overlooked(p)
        PROVE  /\ oneLockfile /\ p \in past'.missed /\ p \in ws.here \ Wsp!Mutated(WsRoot)
               /\ (~command.only \/ calls[WsRoot].how = "filtered")
    BY <1>2, <2>1, <2>3 DEF Overlooked
  <2> HIDE DEF d
  <2>4. ManifestIsLocked(p)' /\ LockIsInstalled(p)'
    BY <1>1, <2>1, <2>2 DEF ProjectFits, ManifestIsLocked, LockIsInstalled, d
  <2>5. CurrentIsLinked(p)'
    BY <1>1, <2>1, <2>2, <2>3 DEF ProjectFits, CurrentIsLinked, d
  <2>6. LockIsPackaged(p)'
    BY <1>1, <2>1, <2>2 DEF ProjectFits, LockIsPackaged
  <2>7. LinkIsStored(p)'
    <3>1. SUFFICES ASSUME Intact, p \in ws.here, Sound(d), mods.link[p] \in WsVersions,
                          p \notin past.strays \/ (p \notin past'.missed /\ mods.current[p] = mods.link[p])
                   PROVE  mods.store[d][mods.link[p]] # "absent"
      BY <1>1, <2>1, <2>2 DEF LinkIsStored, d
    <3>2. SUFFICES ASSUME Overlooked(p), p \in past.strays \/ mods.link[p] # calls[WsRoot].target[p] PROVE FALSE
      BY <2>1, <3>1 DEF ProjectFits, LinkIsStored, d
    <3>3. p \notin past.strays /\ mods.link[p] # calls[WsRoot].target[p]
      BY <2>3, <3>1, <3>2
    <3> QED BY <2>3, <3>1, <3>2, <3>3, OverlookedHasNone
  <2>8. UnbuiltIsToBuild(p)'
    BY <1>1, NothingToBuild DEF UnbuiltIsToBuild, Sound
  <2> QED BY <2>4, <2>5, <2>6, <2>7, <2>8 DEF ProjectFits
<1> QED BY <1>3, <1>4, <1>5 DEF UpToDateInv

\* Of the projects that were installed all is known.
LEMMA InstalledFits ==
  ASSUME Wsp!WorkspaceAssumption, WorkspaceInv, UpToDateInv, command.phase = "rebuilding", command.left = {}, ~command.only,
         UNCHANGED <<oneLockfile, ws, mods>>, past'.strays = past.strays, past'.harmed = past.harmed,
         NEW d \in Wsp!Dirs, calls[d].phase = "done", NEW p \in Wsp!Mutated(d)
  PROVE  ProjectFits(p)'
<1>1. /\ WorkspaceTypes /\ p \in WsProjects /\ p \in Wsp!Of(d) \cap ws.here /\ Wsp!Dir(p) = d /\ Wsp!Dir(p)' = d
      /\ (~oneLockfile => d = p) /\ (oneLockfile => d = WsRoot) /\ (Sound(d)' <=> Sound(d))
  BY WsDirsAre DEF WorkspaceInv, CommandFits, Wsp!Mutated, Wsp!Dir, Sound
<1>2. /\ d \in WsProjects /\ Finishing(d) /\ CallRecords(d) /\ (Sound(d) => Carried(d)) /\ Through(d)
      /\ ws.lock[p] = ws.manifest[p] /\ calls[d].target[p] = ws.lock[p] /\ LockIsCurrent(p)
      /\ (mods.current[p] \in WsVersions => mods.current[p] = calls[d].target[p])
  BY <1>1, DoneIsRecorded DEF Through
<1>3. ManifestIsLocked(p)' /\ LockIsInstalled(p)'
  BY <1>1, <1>2 DEF ManifestIsLocked, LockIsInstalled, LockIsCurrent
<1>4. ASSUME Sound(d), calls[d].target[p] # Wsp!NoDep PROVE mods.link[p] = calls[d].target[p]
  BY <1>2, <1>4 DEF Carried, HasLinked
<1>5. CurrentIsLinked(p)'
  BY <1>1, <1>2, <1>4, ConstantsAre DEF CurrentIsLinked
<1>6. LockIsPackaged(p)'
  <2>1. SUFFICES ASSUME oneLockfile, ws.lock[p] \in WsVersions PROVE ws.lock[p] \in mods.packages[WsRoot]
    BY DEF LockIsPackaged
  <2> QED BY <1>1, <1>2, <2>1 DEF CallRecords
<1>7. LinkIsStored(p)'
  <2>1. SUFFICES ASSUME Sound(d), mods.link[p] \in WsVersions, p \notin past.strays \/ mods.current[p] = mods.link[p]
                 PROVE  mods.store[d][mods.link[p]] # "absent"
    BY <1>1 DEF LinkIsStored
  <2>2. calls[d].target[p] # Wsp!NoDep
    <3>1. SUFFICES ASSUME calls[d].target[p] = Wsp!NoDep PROVE FALSE
      OBVIOUS
    <3>2. mods.link[p] = Wsp!NoDep \/ p \in past.strays
      BY <1>2, <2>1, <3>1 DEF Carried, HasUnlinked
    <3> QED BY <1>2, <2>1, <3>1, <3>2, ConstantsAre
  <2>3. mods.link[p] \in Wsp!PackagesOf(calls[d].target, Wsp!Mutated(d))
    BY <1>4, <2>1, <2>2 DEF Wsp!PackagesOf
  <2> QED BY <1>2, <2>1, <2>3 DEF Carried, HasPackages, HasStored
<1>8. UnbuiltIsToBuild(p)'
  BY <1>1, NothingToBuild DEF UnbuiltIsToBuild, Sound
<1> QED BY <1>3, <1>5, <1>6, <1>7, <1>8 DEF ProjectFits

\* Of those that were not, what was known of them before
LEMMA OthersFitOne ==
  ASSUME Wsp!WorkspaceAssumption, WorkspaceInv, UpToDateInv, command.phase = "rebuilding", ~command.only, oneLockfile,
         ~Underway', UNCHANGED <<oneLockfile, ws, mods>>, past'.strays = past.strays, past'.harmed = past.harmed,
         state'.projects = ws.here, state'.filtered <=> Wsp!FilteredInstall, state'.newer = {},
         NEW p \in WsProjects \ Wsp!Mutated(WsRoot), p \in ws.here /\ Intact' => Intact,
         p \notin past'.missed => p \notin past.missed \cup state.newer
  PROVE  ProjectFits(p)'
<1> DEFINE d == WsRoot
<1>1. /\ ProjectFits(p) /\ Wsp!Dir(p) = d /\ Wsp!Dir(p)' = d /\ d \in Wsp!Dirs /\ d \in WsProjects /\ calls[d].phase = "done"
      /\ Wsp!Of(d) = WsProjects /\ ~Unsaved(p) /\ ~Relinks(p, d) /\ (Sound(d)' <=> Sound(d))
      /\ (p \in ws.here /\ p \notin state.newer => p \in state.projects)
  BY EndsAre, WsDirsAre, ConstantsAre DEF UpToDateInv, Wsp!Dir, Sound, StateIs
<1>2. CallRecords(d) /\ Finishing(d) /\ Planned(d)
  BY <1>1, DoneIsRecorded, DoneIsWritten
<1>3. ASSUME p \in ws.here
      PROVE  /\ ws.lock[p] = ws.manifest[p] /\ calls[d].target[p] = ws.lock[p] /\ LockIsCurrent(p)
             /\ (mods.current[p] \in WsVersions => mods.current[p] = calls[d].target[p])
  BY <1>1, <1>3, DoneIsRecorded
<1>4. ManifestIsLocked(p)' /\ LockIsInstalled(p)'
  BY <1>3 DEF ManifestIsLocked, LockIsInstalled, LockIsCurrent
<1>5. CurrentIsLinked(p)'
  <2>1. SUFFICES ASSUME p \in ws.here, Intact, Sound(d), p \notin past.missed, p \notin state.newer, mods.current[p] \in WsVersions
                 PROVE  mods.link[p] = mods.current[p]
    BY <1>1 DEF CurrentIsLinked
  <2>2. past.broke[d] \subseteq {calls[d].target}
    BY <1>2, <2>1 DEF Planned
  <2> QED BY <1>1, <1>3, <2>1, <2>2 DEF ProjectFits, CurrentIsLinked, Returned, Overlooked
<1>6. LockIsPackaged(p)'
  <2>1. SUFFICES ASSUME p \in ws.here, Intact, ~Wsp!FilteredInstall \/ p \notin past.missed \cup state.newer,
                        ws.lock[p] \in WsVersions
                 PROVE  ws.lock[p] \in mods.packages[d]
    BY <1>1 DEF LockIsPackaged
  <2>2. Wsp!FilteredInstall
    <3>1. p \notin command.hit
      BY <1>1 DEF Wsp!Mutated
    <3>2. p \in command.sel => ws.manifest[p] = Wsp!NoDep
      BY <3>1 DEF UpToDateInv, CommandIs, Underway
    <3> QED BY <1>3, <2>1, <3>2, ConstantsAre DEF Wsp!FilteredInstall
  <2> QED BY <1>2, <1>3, <2>1, <2>2 DEF CallRecords, Overlooks
<1>7. LinkIsStored(p)'
  <2>1. SUFFICES ASSUME p \in ws.here, Intact, Sound(d), mods.link[p] \in WsVersions,
                        \/ p \notin past.strays
                        \/ p \notin past.missed \cup state.newer /\ mods.current[p] = mods.link[p]
                 PROVE  mods.store[d][mods.link[p]] # "absent"
    BY <1>1 DEF LinkIsStored
  <2>2. p \notin past.strays => mods.link[p] = calls[d].target[p]
    BY <2>1, OverlookedHasNone
  <2> QED BY <1>1, <2>1, <2>2 DEF ProjectFits, LinkIsStored, Overlooked
<1>8. UnbuiltIsToBuild(p)'
  BY DEF UnbuiltIsToBuild
<1> QED BY <1>4, <1>5, <1>6, <1>7, <1>8 DEF ProjectFits

LEMMA OthersFitSeparate ==
  ASSUME Wsp!WorkspaceAssumption, WorkspaceInv, UpToDateInv, command.phase = "rebuilding", command.left = {},
         ~command.only, ~oneLockfile, Wsp!Failed = {},
         ~Underway', UNCHANGED <<oneLockfile, ws, mods>>, past'.strays = past.strays, past'.harmed = past.harmed,
         state'.projects = ws.here, state'.newer = {},
         NEW p \in WsProjects, calls[p].phase # "done", p \in ws.here /\ Intact' => Intact,
         p \notin past'.missed => p \notin past.missed \cup state.newer, past'.broke[p] = past.broke[p]
  PROVE  ProjectFits(p)'
<1>1. /\ ProjectFits(p) /\ Wsp!Dir(p) = p /\ Wsp!Dir(p)' = p /\ calls[p].phase = "idle" /\ p \in Wsp!Dirs
      /\ ~Unsaved(p) /\ ~Relinks(p, p) /\ (Sound(p)' <=> Sound(p)) /\ (Intact => calls[p].write # {"wanted"})
      /\ (p \in ws.here /\ p \notin state.newer => p \in state.projects) /\ p \notin past.strays
  <2>1. calls[p].phase # "failed"
    BY EndsAre DEF Wsp!Failed
  <2> QED BY <2>1, EndsAre DEF UpToDateInv, Wsp!Dir, Sound, StateIs, RestIsEmpty
<1>2. ASSUME p \in ws.here, Intact PROVE Passed(p)' \/ (ws.lock[p] = ws.manifest[p] /\ LockIsCurrent(p))
  BY <1>1, <1>2 DEF ProjectFits, ManifestIsLocked, Passed
<1>3. ManifestIsLocked(p)' /\ LockIsInstalled(p)'
  BY <1>2 DEF ManifestIsLocked, LockIsInstalled, LockIsCurrent
<1>4. CurrentIsLinked(p)'
  BY <1>1 DEF ProjectFits, CurrentIsLinked, Returned, Overlooked
<1>5. LockIsPackaged(p)'
  BY DEF LockIsPackaged
<1>6. LinkIsStored(p)'
  BY <1>1 DEF ProjectFits, LinkIsStored, Overlooked
<1>7. UnbuiltIsToBuild(p)'
  <2>1. SUFFICES ASSUME Intact', Sound(p), NEW v \in WsVersions \cap WsNeedBuild, v \in mods.packages[p] \/ mods.link[p] = v
                 PROVE  mods.store[p][v] # "fresh"
    BY <1>1 DEF UnbuiltIsToBuild
  <2>2. CASE p \in ws.here
    BY <2>1, <2>2, NothingToBuild
  <2>3. CASE p \notin ws.here
    BY <2>3 DEF UpToDateInv, RestIsEmpty
  <2> QED BY <2>2, <2>3
<1> QED BY <1>3, <1>4, <1>5, <1>6, <1>7 DEF ProjectFits

LEMMA ConcludeUpToDate ==
  ASSUME Wsp!WorkspaceAssumption, WorkspaceInv, UpToDateInv, Wsp!Conclude
  PROVE  UpToDateInv'
<1> DEFINE installed == UNION {Wsp!Mutated(d) : d \in {e \in Wsp!Dirs : calls[e].phase = "done"}}
           overlooked == {p \in state.newer : ~command.only \/ calls[Wsp!Dir(p)].how = "filtered"} \ installed
           written == Wsp!Failed = {} /\ ~command.only
<1>1. /\ WorkspaceTypes /\ command.phase = "rebuilding" /\ command.left = {} /\ Underway /\ Wsp!AllEnded
      /\ UNCHANGED <<oneLockfile, ws, mods, spent>>
      /\ command' = [command EXCEPT !.phase = IF Wsp!Failed = {} THEN "done" ELSE "reported"]
      /\ calls' = [d \in WsProjects |-> [Wsp!NoCall EXCEPT !.phase = calls[d].phase]]
      /\ state' = IF ~written THEN state
                  ELSE [exists |-> TRUE, filtered |-> Wsp!FilteredInstall, projects |-> ws.here,
                        newer |-> {}, lockNewer |-> {}]
  BY DEF WorkspaceInv, CommandFits, Wsp!Conclude, Underway
<1>2. past' = IF ~written THEN [past EXCEPT !.missed = @ \cup overlooked]
              ELSE [past EXCEPT
                 !.settled = @ \cup {p \in installed : Wsp!Dir(p) \notin past.harmed},
                 !.missed = (@ \cup overlooked) \ installed,
                 !.torn = @ /\ installed # ws.here,
                 !.broke = [d \in WsProjects |-> IF calls[d].phase = "done" THEN {} ELSE @[d]]]
  BY DEF Wsp!Conclude
<1>3. ~Underway'
  BY <1>1 DEF Underway, WorkspaceTypes, WsCommandsMade
<1>4. ASSUME NEW d \in WsProjects PROVE CallFits(d)' /\ calls'[d].build = {} /\ calls'[d].write = {}
  <2>1. /\ calls'[d].phase = calls[d].phase /\ calls'[d].how = "full" /\ calls'[d].write = {} /\ calls'[d].save = {}
        /\ calls'[d].build = {}
    BY <1>1 DEF Wsp!NoCall
  <2>2. calls[d].phase \in {"idle", "done", "failed"}
    <3>1. CASE d \in Wsp!Dirs
      BY <1>1, <3>1 DEF Wsp!AllEnded
    <3>2. CASE d \notin Wsp!Dirs
      <4>1. \A p \in command.hit : Wsp!Dir(p) \in Wsp!Dirs
        BY <1>1, WsDirsAre DEF WorkspaceTypes, WsCommandsMade
      <4> QED BY <1>1, <3>2, <4>1 DEF WorkspaceInv, CommandFits
    <3> QED BY <3>1, <3>2
  <2> QED BY <1>3, <2>1, <2>2, RestCallsFit DEF Begun
<1>5. state.newer \subseteq ws.here /\ past.missed \subseteq ws.here /\ ws.here \subseteq WsProjects
  BY <1>1 DEF UpToDateInv, StateIs, WorkspaceTypes
<1>6. installed \subseteq ws.here
  BY DEF Wsp!Mutated, WorkspaceInv, CommandFits
<1>7. CASE ~written
  <2> HIDE DEF written
  <2>1. /\ past'.missed = past.missed \cup overlooked /\ past'.strays = past.strays /\ past'.harmed = past.harmed
        /\ past'.torn = past.torn /\ past'.broke = past.broke
    <3> HIDE DEF overlooked
    <3> QED BY <1>1, <1>2, <1>7 DEF WorkspaceTypes, WsPasts
  <2>2. state' = state
    BY <1>1, <1>7
  <2> QED BY <1>1, <1>3, <1>4, <2>1, <2>2, UnwrittenUpToDate
<1>8. CASE written
  <2>1. /\ past'.missed = (past.missed \cup overlooked) \ installed /\ past'.strays = past.strays
        /\ past'.harmed = past.harmed /\ past'.torn = (past.torn /\ installed # ws.here)
        /\ past'.broke = [d \in WsProjects |-> IF calls[d].phase = "done" THEN {} ELSE past.broke[d]]
    <3> HIDE DEF overlooked, installed, written
    <3> QED BY <1>1, <1>2, <1>8 DEF WorkspaceTypes, WsPasts
  <2>2. overlooked = state.newer \ installed /\ ~command.only /\ Wsp!Failed = {}
    BY <1>8
  <2>3. state' = [exists |-> TRUE, filtered |-> Wsp!FilteredInstall, projects |-> ws.here, newer |-> {}, lockNewer |-> {}]
    BY <1>1, <1>8
  <2>4. ASSUME NEW p \in WsProjects
        PROVE  p \in installed <=> p \in Wsp!Mutated(Wsp!Dir(p)) /\ calls[Wsp!Dir(p)].phase = "done"
    <3>1. Wsp!Dir(p) \in Wsp!Dirs /\ \A d : p \in Wsp!Mutated(d) => d = Wsp!Dir(p)
      BY WsDirsAre DEF Wsp!Mutated
    <3> QED BY <3>1
  <2> HIDE DEF installed, overlooked, written
  <2>5. ASSUME NEW p \in ws.here, p \notin installed, Intact' PROVE Intact
    BY <2>1, <2>5 DEF Intact
  <2>6. ASSUME NEW p \in WsProjects PROVE ProjectFits(p)'
    <3>1. Wsp!Dir(p) \in Wsp!Dirs /\ (oneLockfile => Wsp!Dir(p) = WsRoot /\ calls[WsRoot].phase = "done")
      BY <1>1, EndsAre
    <3>2. CASE p \in installed
      BY <1>1, <2>1, <2>2, <2>4, <3>1, <3>2, InstalledFits
    <3>3. CASE p \notin installed
      <4>1. (p \in ws.here /\ Intact' => Intact) /\ (p \notin past'.missed => p \notin past.missed \cup state.newer)
        BY <2>1, <2>2, <2>5, <3>3
      <4>2. CASE oneLockfile
        <5>1. p \notin Wsp!Mutated(WsRoot)
          BY <2>4, <3>1, <3>3, <4>2
        <5>2. state'.projects = ws.here /\ (state'.filtered <=> Wsp!FilteredInstall) /\ state'.newer = {}
          BY <2>3
        <5> QED BY <1>1, <1>3, <2>1, <2>2, <4>1, <4>2, <5>1, <5>2, OthersFitOne
      <4>3. CASE ~oneLockfile
        <5>1. Wsp!Dir(p) = p
          BY <4>3 DEF Wsp!Dir
        <5>2. calls[p].phase # "done"
          <6>1. SUFFICES ASSUME calls[p].phase = "done" PROVE p \in Wsp!Mutated(p)
            BY <2>4, <3>3, <5>1
          <6> QED BY <1>1, <4>3, <6>1, SeparateIs
        <5>3. past'.broke[p] = past.broke[p] /\ state'.projects = ws.here /\ state'.newer = {}
          BY <2>1, <2>3, <5>2
        <5> QED BY <1>1, <1>3, <2>1, <2>2, <4>1, <4>3, <5>2, <5>3, OthersFitSeparate
      <4> QED BY <4>2, <4>3
    <3> QED BY <3>2, <3>3
  <2>7. StateIs'
    <3>1. past'.missed \subseteq ws.here
      BY <1>5, <2>1, <2>2
    <3>2. oneLockfile => WsRoot \notin past'.missed
      <4>1. SUFFICES ASSUME oneLockfile, WsRoot \in past'.missed PROVE WsRoot \in installed
        BY <2>1
      <4>2. WsRoot \in WsProjects /\ WsRoot \in ws.here /\ Wsp!Dir(WsRoot) = WsRoot
        BY <3>1, <4>1, ConstantsAre DEF Wsp!Dir
      <4>3. calls[WsRoot].phase = "done" /\ WsRoot \in Wsp!Mutated(WsRoot)
        BY <1>1, <4>1, <4>2, EndsAre, WsDirsAre DEF Wsp!Mutated
      <4> QED BY <2>4, <4>2, <4>3
    <3> QED BY <1>1, <2>3, <3>1, <3>2 DEF StateIs
  <2>8. CommandIs' /\ RestIsEmpty'
    BY <1>1, <1>3, <2>1 DEF UpToDateInv, CommandIs, RestIsEmpty
  <2> QED BY <1>4, <2>6, <2>7, <2>8 DEF UpToDateInv
<1> QED BY <1>7, <1>8

\* A workspace to start with
LEMMA UpToDateInit ==
  ASSUME Wsp!WorkspaceAssumption, Wsp!Init
  PROVE  UpToDateInv /\ CheckedIs
<1>1. WorkspaceInv
  BY WorkspaceInitHolds
<1>2. PICK w \in WsSetups, installed \in BOOLEAN :
        LET here == {p \in WsProjects : w.manifest[p] # Wsp!Absent}
            lock == [p \in WsProjects |-> IF installed THEN w.manifest[p] ELSE Wsp!Absent]
        IN  /\ oneLockfile = w.oneLockfile
            /\ ws = [here |-> here, manifest |-> w.manifest, lock |-> lock]
            /\ IF installed THEN Wsp!Installed(here) ELSE Wsp!Fresh(here)
            /\ past = [settled |-> IF installed THEN here ELSE {}, missed |-> {}, strays |-> {},
                       harmed |-> {}, torn |-> FALSE, broke |-> [d \in WsProjects |-> {}]]
  BY DEF Wsp!Init
<1>3. /\ command.phase = "idle" /\ \A d \in WsProjects : calls[d] = Wsp!NoCall
      /\ past.missed = {} /\ past.strays = {} /\ WorkspaceTypes
      /\ IF installed THEN Wsp!Installed(ws.here) ELSE Wsp!Fresh(ws.here)
      /\ \A p \in WsProjects : ws.lock[p] = IF installed THEN ws.manifest[p] ELSE Wsp!Absent
      /\ \A p \in WsProjects : p \in ws.here <=> ws.manifest[p] # Wsp!Absent
      /\ ws.here \subseteq WsProjects
  BY <1>1, <1>2 DEF Wsp!Init, Wsp!NoCommand, WorkspaceInv
<1>4. ~Underway
  BY <1>3 DEF Underway
<1>5. ASSUME NEW d \in WsProjects PROVE CallFits(d) /\ calls[d].write = {} /\ calls[d].build = {}
  BY <1>3, <1>4 DEF Wsp!NoCall, Begun, CallFits, CallWrites, CallBuilds, CallRecords, Finishing
<1>6. CommandIs /\ CheckedIs
  BY <1>3, <1>4 DEF CommandIs, CheckedIs
<1>7. CASE ~installed
  <2>1. /\ \A p \in WsProjects : ws.lock[p] = Wsp!Absent /\ mods.link[p] = Wsp!NoDep
        /\ mods.current = ws.lock
        /\ \A p \in WsProjects : \A v \in WsVersions : mods.store[p][v] = "absent"
        /\ state.projects = {} /\ state.newer = ws.here
    BY <1>3, <1>7 DEF Wsp!Fresh
  <2>2. StateIs /\ RestIsEmpty
    BY <1>3, <2>1 DEF StateIs, RestIsEmpty
  <2>3. ASSUME NEW p \in WsProjects PROVE ProjectFits(p)
    BY <2>1, ConstantsAre
    DEF ProjectFits, ManifestIsLocked, LockIsInstalled, CurrentIsLinked, LockIsPackaged, LinkIsStored, UnbuiltIsToBuild
  <2> QED BY <1>5, <1>6, <2>2, <2>3 DEF UpToDateInv
<1>8. CASE installed
  <2> DEFINE packages == [d \in WsProjects |-> IF d \in Wsp!Dirs THEN Wsp!PackagesOf(ws.lock, Wsp!Of(d)) ELSE {}]
             recorded == [p \in WsProjects |-> IF packages[Wsp!Dir(p)] = {} THEN Wsp!Absent ELSE ws.lock[p]]
             store == [d \in WsProjects |-> [v \in WsVersions |->
                 IF v \notin packages[d] THEN "absent" ELSE IF v \in WsNeedBuild THEN "built" ELSE "fresh"]]
             linking == [p \in WsProjects |-> IF p \in ws.here THEN ws.lock[p] ELSE Wsp!NoDep]
  <2>1. /\ mods = [current |-> recorded, packages |-> packages, store |-> store, link |-> linking]
        /\ state = [exists |-> TRUE, filtered |-> FALSE, projects |-> ws.here, newer |-> {}, lockNewer |-> {}]
    <3>1. Wsp!Installed(ws.here)
      BY <1>3, <1>8
    <3> QED BY <3>1 DEF Wsp!Installed
  <2>2. \A d \in WsProjects : packages[d] = IF d \in Wsp!Dirs THEN Wsp!PackagesOf(ws.lock, Wsp!Of(d)) ELSE {}
    OBVIOUS
  <2> HIDE DEF packages
  <2>3. /\ \A p \in WsProjects : recorded[p] = IF packages[Wsp!Dir(p)] = {} THEN Wsp!Absent ELSE ws.lock[p]
        /\ \A d \in WsProjects : \A v \in WsVersions : store[d][v] =
             IF v \notin packages[d] THEN "absent" ELSE IF v \in WsNeedBuild THEN "built" ELSE "fresh"
        /\ \A p \in WsProjects : linking[p] = IF p \in ws.here THEN ws.lock[p] ELSE Wsp!NoDep
    OBVIOUS
  <2> HIDE DEF recorded, store, linking
  <2>4. /\ \A p \in WsProjects : mods.current[p] = IF packages[Wsp!Dir(p)] = {} THEN Wsp!Absent ELSE ws.lock[p]
        /\ mods.packages = packages
        /\ \A d \in WsProjects : \A v \in WsVersions : mods.store[d][v] =
             IF v \notin packages[d] THEN "absent" ELSE IF v \in WsNeedBuild THEN "built" ELSE "fresh"
        /\ \A p \in WsProjects : mods.link[p] = IF p \in ws.here THEN ws.lock[p] ELSE Wsp!NoDep
        /\ state.projects = ws.here /\ state.newer = {}
    BY <2>1, <2>3
  <2>5. ASSUME NEW p \in WsProjects
        PROVE  /\ Wsp!Dir(p) \in WsProjects /\ ws.lock[p] = ws.manifest[p]
               /\ ws.lock[p] \in (WsVersions \cup {Wsp!NoDep}) \cup {Wsp!Absent}
               /\ ws.lock[p] \in WsVersions => ws.lock[p] \in packages[Wsp!Dir(p)]
               /\ (p \in ws.here <=> ws.lock[p] # Wsp!Absent)
    <3>1. Wsp!Dir(p) \in Wsp!Dirs /\ Wsp!Dir(p) \in WsProjects /\ p \in Wsp!Of(Wsp!Dir(p))
      BY WsDirsAre
    <3>2. ws.lock[p] = ws.manifest[p] /\ ws.lock[p] \in (WsVersions \cup {Wsp!NoDep}) \cup {Wsp!Absent}
      BY <1>3, <1>8, ConstantsAre DEF WorkspaceTypes, WsLocks
    <3>3. ws.lock[p] \in WsVersions => ws.lock[p] \in packages[Wsp!Dir(p)]
      BY <2>2, <3>1 DEF Wsp!PackagesOf
    <3> QED BY <1>3, <3>1, <3>2, <3>3
  <2>6. StateIs
    BY <1>3, <2>4 DEF StateIs
  <2>7. RestIsEmpty
    <3>1. ASSUME oneLockfile, NEW d \in WsProjects \ {WsRoot} PROVE packages[d] = {}
      BY <2>2, <3>1, WsDirsAre
    <3>2. ASSUME ~oneLockfile, NEW p \in WsProjects \ ws.here
          PROVE  packages[p] = {} /\ Wsp!Dir(p) = p /\ ws.lock[p] = Wsp!Absent
      <4>1. Wsp!Of(p) = {p} /\ Wsp!Dir(p) = p /\ ws.lock[p] = Wsp!Absent
        BY <2>5, <3>2, WsDirsAre DEF Wsp!Dir
      <4>2. packages[p] = {} \/ packages[p] = Wsp!PackagesOf(ws.lock, {p})
        BY <2>2, <3>2, <4>1
      <4>3. Wsp!PackagesOf(ws.lock, {p}) = {}
        BY <4>1, ConstantsAre DEF Wsp!PackagesOf
      <4> QED BY <4>1, <4>2, <4>3
    <3> QED BY <1>3, <2>4, <3>1, <3>2 DEF RestIsEmpty
  <2>8. ASSUME NEW p \in WsProjects PROVE ProjectFits(p)
    <3>1. LockIsCurrent(p)
      BY <2>4, <2>5 DEF LockIsCurrent
    <3>2. ManifestIsLocked(p) /\ LockIsInstalled(p)
      BY <2>5, <3>1 DEF ManifestIsLocked, LockIsInstalled
    <3>3. CurrentIsLinked(p)
      BY <2>4, ConstantsAre DEF CurrentIsLinked
    <3>4. LockIsPackaged(p)
      BY <2>4, <2>5 DEF LockIsPackaged, Wsp!Dir
    <3>5. LinkIsStored(p)
      BY <2>4, <2>5 DEF LinkIsStored
    <3>6. UnbuiltIsToBuild(p)
      <4>1. SUFFICES ASSUME ~oneLockfile, NEW v \in WsVersions \cap WsNeedBuild, mods.store[p][v] = "fresh" PROVE FALSE
        BY DEF UnbuiltIsToBuild
      <4> QED BY <2>4, <4>1
    <3> QED BY <3>2, <3>3, <3>4, <3>5, <3>6 DEF ProjectFits
  <2> QED BY <1>5, <1>6, <2>6, <2>7, <2>8 DEF UpToDateInv
<1> QED BY <1>7, <1>8

LEMMA UpToDateStays ==
  ASSUME Wsp!WorkspaceAssumption, UpToDateInv, CheckedIs, UNCHANGED Wsp!workspaceVars
  PROVE  UpToDateInv' /\ CheckedIs'
<1>1. UNCHANGED <<oneLockfile, ws, mods, state, command, calls, past, spent>>
  BY DEF Wsp!workspaceVars
<1>2. /\ \A p : Wsp!Dir(p)' = Wsp!Dir(p)
      /\ \A d : Wsp!Of(d)' = Wsp!Of(d) /\ Wsp!Mutated(d)' = Wsp!Mutated(d)
      /\ Wsp!Dirs' = Wsp!Dirs
  BY <1>1, SetsStay
<1>3. \A d \in WsProjects : CallFits(d)'
  BY <1>1, <1>2 DEF UpToDateInv, CallFits, CallWrites, CallBuilds, CallRecords, Finishing, Begun, Underway, Wsp!PackagesOf,
     Intact, Overlooks
<1>4. CommandIs' /\ StateIs' /\ RestIsEmpty' /\ CheckedIs'
  BY <1>1 DEF UpToDateInv, CommandIs, StateIs, RestIsEmpty, CheckedIs, Underway, Intact, Wsp!HasModulesDir
<1>5. ASSUME NEW p \in WsProjects PROVE ProjectFits(p)'
  <2>1. /\ ProjectFits(p) /\ Wsp!Dir(p) \in WsProjects /\ (Unsaved(p)' <=> Unsaved(p)) /\ (Passed(p)' <=> Passed(p))
        /\ (LockIsCurrent(p)' <=> LockIsCurrent(p)) /\ (Returned(p)' <=> Returned(p))
        /\ (Overlooked(p)' <=> Overlooked(p)) /\ (Relinks(p, Wsp!Dir(p))' <=> Relinks(p, Wsp!Dir(p)))
    BY <1>1, <1>2, WsDirsAre DEF UpToDateInv, Unsaved, Passed, LockIsCurrent, Returned, Overlooked, Relinks, Underway
  <2>2. ManifestIsLocked(p)' /\ LockIsInstalled(p)'
    BY <1>1, <1>2, <2>1 DEF ProjectFits, ManifestIsLocked, LockIsInstalled, Intact
  <2>3. CurrentIsLinked(p)' /\ LockIsPackaged(p)'
    BY <1>1, <1>2, <2>1 DEF ProjectFits, CurrentIsLinked, LockIsPackaged, Intact, Sound
  <2>4. LinkIsStored(p)' /\ UnbuiltIsToBuild(p)'
    BY <1>1, <1>2, <2>1 DEF ProjectFits, LinkIsStored, UnbuiltIsToBuild, Intact, Sound
  <2> QED BY <2>2, <2>3, <2>4 DEF ProjectFits
<1> QED BY <1>3, <1>4, <1>5 DEF UpToDateInv

\* A step that is no check leaves none behind.
LEMMA NotChecked ==
  ASSUME command'.phase \notin {"skipped", "verified"}
  PROVE  CheckedIs'
BY DEF CheckedIs

LEMMA CallsUpToDate ==
  ASSUME Wsp!WorkspaceAssumption, WorkspaceInv, UpToDateInv, NEW d \in Wsp!Dirs,
         \/ Wsp!Start(d) \/ Wsp!WriteLockfileFirst(d) \/ Wsp!Import(d) \/ Wsp!LinkDirect(d) \/ Wsp!Build(d) \/ Wsp!Fail(d)
         \/ \E b \in BOOLEAN : Wsp!PruneModules(d, b)
         \/ \E file \in {"wanted", "current"} : Wsp!WriteLockfile(d, file)
         \/ \E p \in Wsp!Of(d) : Wsp!SaveManifest(d, p)
  PROVE  UpToDateInv' /\ CheckedIs'
<1>1. CASE Wsp!Start(d)
  <2>1. command'.phase \notin {"skipped", "verified"}
    BY <1>1 DEF Wsp!Start
  <2> QED BY <1>1, <2>1, StartUpToDate, NotChecked
<1>2. CASE Wsp!Fail(d)
  <2>1. command'.phase \notin {"skipped", "verified"}
    BY <1>2 DEF Wsp!Fail, WorkspaceInv, WorkspaceTypes, WsCommandsMade
  <2> QED BY <1>2, <2>1, FailUpToDate, NotChecked
<1>3. ASSUME calls[d].phase \in Wsp!Active, command' = command PROVE CheckedIs'
  <2>1. command.phase \in {"running", "bailing"}
    BY <1>3, CallIs
  <2> QED BY <1>3, <2>1, NotChecked
<1>4. CASE Wsp!WriteLockfileFirst(d)
  BY <1>3, <1>4, WriteLockfileFirstUpToDate DEF Wsp!WriteLockfileFirst, Wsp!Active
<1>5. CASE Wsp!Import(d)
  BY <1>3, <1>5, ImportUpToDate DEF Wsp!Import, Wsp!Active
<1>6. CASE Wsp!LinkDirect(d)
  BY <1>3, <1>6, LinkDirectUpToDate DEF Wsp!LinkDirect, Wsp!Active
<1>7. CASE Wsp!Build(d)
  BY <1>3, <1>7, BuildUpToDate DEF Wsp!Build, Wsp!Active
<1>8. CASE \E b \in BOOLEAN : Wsp!PruneModules(d, b)
  BY <1>3, <1>8, PruneModulesUpToDate DEF Wsp!PruneModules, Wsp!Active
<1>9. CASE \E file \in {"wanted", "current"} : Wsp!WriteLockfile(d, file)
  <2>1. calls[d].phase \in Wsp!Active /\ command' = command
    BY <1>9 DEF Wsp!WriteLockfile, Wsp!Active
  <2>2. Wsp!WriteLockfile(d, "wanted") \/ Wsp!WriteLockfile(d, "current")
    BY <1>9
  <2> QED BY <1>3, <2>1, <2>2, WriteWantedUpToDate, WriteCurrentUpToDate
<1>10. CASE \E p \in Wsp!Of(d) : Wsp!SaveManifest(d, p)
  BY <1>3, <1>10, SaveManifestUpToDate DEF Wsp!SaveManifest, Wsp!Active
<1> QED BY <1>1, <1>2, <1>4, <1>5, <1>6, <1>7, <1>8, <1>9, <1>10

LEMMA UpToDateStepHolds ==
  ASSUME Wsp!WorkspaceAssumption, WorkspaceInv, UpToDateInv, CheckedIs, [Wsp!Next]_Wsp!workspaceVars
  PROVE  UpToDateInv' /\ CheckedIs'
<1>1. CASE UNCHANGED Wsp!workspaceVars
  BY <1>1, UpToDateStays
<1>2. CASE Wsp!Skip \/ Wsp!Verify
  BY <1>2, CheckUpToDate
<1>3. CASE Wsp!StartRebuild
  <2>1. command'.phase \notin {"skipped", "verified"}
    BY <1>3 DEF Wsp!StartRebuild, WorkspaceInv, WorkspaceTypes, WsCommandsMade
  <2> QED BY <1>3, <2>1, RebuildUpToDate, NotChecked
<1>4. CASE Wsp!Conclude
  <2>1. command'.phase \notin {"skipped", "verified"}
    BY <1>4 DEF Wsp!Conclude, WorkspaceInv, WorkspaceTypes, WsCommandsMade
  <2> QED BY <1>4, <2>1, ConcludeUpToDate, NotChecked
<1>5. CASE Wsp!Exit \/ Wsp!Kill
  <2>1. command'.phase \notin {"skipped", "verified"}
    BY <1>5 DEF Wsp!Exit, Wsp!Kill, Wsp!Stop, WorkspaceInv, WorkspaceTypes, WsCommandsMade
  <2> QED BY <1>5, <2>1, StopUpToDate, NotChecked
<1>6. ASSUME NEW sel, NEW c \in WsCommands[oneLockfile], Wsp!Begin(c.name, sel, c.version, c.only, c.bail)
      PROVE  UpToDateInv' /\ CheckedIs'
  <2>1. command'.phase \notin {"skipped", "verified"}
    BY <1>6 DEF Wsp!Begin, Wsp!NoCommand
  <2> QED BY <1>6, <2>1, BeginUpToDate, NotChecked
<1>7. ASSUME NEW p \in WsProjects, Wsp!RebuildProject(p) PROVE UpToDateInv' /\ CheckedIs'
  <2>1. command'.phase \notin {"skipped", "verified"}
    BY <1>7 DEF Wsp!RebuildProject, WorkspaceInv, WorkspaceTypes, WsCommandsMade
  <2> QED BY <1>7, <2>1, RebuildUpToDate, NotChecked
<1>8. ASSUME NEW p \in WsProjects, Wsp!RemoveProject(p) PROVE UpToDateInv' /\ CheckedIs'
  <2>1. command'.phase \notin {"skipped", "verified"}
    BY <1>8 DEF Wsp!RemoveProject, Wsp!Edited, Wsp!NoCommand
  <2> QED BY <1>8, <2>1, RemoveProjectUpToDate, NotChecked
<1>9. ASSUME NEW p \in WsProjects, NEW v \in WsVersions \cup {Wsp!NoDep}, Wsp!EditManifest(p, v)
      PROVE  UpToDateInv' /\ CheckedIs'
  <2>1. command'.phase \notin {"skipped", "verified"}
    BY <1>9 DEF Wsp!EditManifest, Wsp!Edited, Wsp!NoCommand
  <2> QED BY <1>9, <2>1, EditManifestUpToDate, NotChecked
<1> QED BY <1>1, <1>2, <1>3, <1>4, <1>5, <1>6, <1>7, <1>8, <1>9, CallsUpToDate DEF Wsp!Next

LEMMA UpToDateHolds ==
  ASSUME Wsp!WorkspaceAssumption
  PROVE  Wsp!Spec => [](WorkspaceInv /\ UpToDateInv /\ CheckedIs)
<1>1. Wsp!Init => UpToDateInv /\ CheckedIs
  BY UpToDateInit
<1>2. WorkspaceInv /\ UpToDateInv /\ CheckedIs /\ [Wsp!Next]_Wsp!workspaceVars => UpToDateInv' /\ CheckedIs'
  BY UpToDateStepHolds
<1> QED BY <1>1, <1>2, WorkspaceInvHolds, PTL DEF Wsp!Spec

\* "Already up to date" is true of all projects of a workspace, whatever was
\* installed, filtered, edited or broken off before (checkDepsStatus.ts), but
\* for what the property names.
THEOREM WorkspaceIsRightUpToDate ==
  ASSUME Wsp!WorkspaceAssumption PROVE Wsp!Spec => []Wsp!WorkspaceIsUpToDate
<1>1. WorkspaceInv /\ UpToDateInv /\ CheckedIs => Wsp!WorkspaceIsUpToDate
  BY UpToDateIsTrueOfIt
<1> QED BY <1>1, UpToDateHolds, PTL

\* What verifyDepsBeforeRun finds up to date can be used (checkDepsStatus.ts).
THEOREM VerifiedOnesAreUsable ==
  ASSUME Wsp!WorkspaceAssumption PROVE Wsp!Spec => []Wsp!VerifiedIsUsable
<1>1. WorkspaceInv /\ UpToDateInv /\ CheckedIs => Wsp!VerifiedIsUsable
  BY UpToDateIsTrueOfIt
<1> QED BY <1>1, UpToDateHolds, PTL
=============================================================================
