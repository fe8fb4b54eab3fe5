--------------------------- MODULE PackageRequester ---------------------------
(***************************************************************************)
(* The package requester of                                                *)
(* pkg-manager/package-requester/src/packageRequester.ts: many concurrent  *)
(* calls of requestPackage() and fetchPackageToStore() that share one      *)
(* fetchingLocker (package id -> promise) and one requestsQueue.           *)
(*                                                                         *)
(* A call that finds no locker entry creates one and runs doFetchToStore;  *)
(* the fetch is named after the call that created it.  A JavaScript        *)
(* promise is a reference:                                                 *)
(*   [k |-> "R1", by |-> g]  removeKeyOnFail(fetching.promise) of fetch g  *)
(*   [k |-> "S",  by |-> g]  the value that replaces it, marked "store"    *)
(*   [k |-> "R2", by |-> c]  the manifest reader that call c wrapped over  *)
(*                           the entry it found                            *)
(* Reactions to a settled promise are microtasks.  They run one by one, in *)
(* the order the code registered them, and no I/O completes before the     *)
(* microtask queue is empty (Drained); new calls may arrive between two    *)
(* microtasks, since they are themselves made by other continuations.      *)
(***************************************************************************)
EXTENDS Naturals, FiniteSets

CONSTANTS
  Calls,         \* the calls made to the requester
  Pkgs,          \* package ids
  Kind,          \* [Pkgs -> "registry", "hosted", "tarball", "dir", "link"]
  HasManifest,   \* the packages that contain a package.json
  Incompatible,  \* the packages packageIsInstallable refuses
  EngineStrict,  \* opts.engineStrict
  Menu,          \* the requests a caller may make
  Slots,         \* networkConcurrency
  MaxVer,        \* bound: integrities a local tarball goes through
  MaxFaults,     \* bound: failures of the network, the disk and the store
  NoEntry, NoReq, NoRef

Vers == 1..MaxVer
FileKinds == {"tarball", "dir"}          \* ids that start with "file:"

\* A request: ver is the integrity of currentPkg (requestPackage) or of the
\* lockfile's resolution (fetchPackageToStore); 0 when there is none.
Requests == [p : Pkgs, via : {"requestPackage", "fetchPackageToStore"},
             raw : BOOLEAN, named : BOOLEAN, expected : BOOLEAN, force : BOOLEAN,
             ver : 0..MaxVer, update : BOOLEAN, skipFetch : BOOLEAN,
             optional : BOOLEAN]

ASSUME RequesterConstants ==
  /\ Kind \in [Pkgs -> {"registry", "hosted", "tarball", "dir", "link"}]
  /\ HasManifest \subseteq Pkgs /\ Incompatible \subseteq Pkgs
  /\ EngineStrict \in BOOLEAN /\ Menu \subseteq Requests
  /\ Slots \in Nat \ {0} /\ MaxVer \in Nat \ {0} /\ MaxFaults \in Nat

\* A direct fetch names the resolution it wants, and a version other than 1
\* exists only for local tarballs.
ASSUME MenuIsLegal ==
  \A o \in Menu :
    /\ o.via = "fetchPackageToStore" => o.ver # 0 /\ Kind[o.p] # "link"
    /\ Kind[o.p] # "tarball" => o.ver \in {0, 1}

ASSUME Sentinels ==
  /\ NoEntry \notin [gen : Calls, ref : [k : {"R1", "S", "R2"}, by : Calls], raw : BOOLEAN]
  /\ NoReq \notin Requests
  /\ NoRef \notin [k : {"R1", "S", "R2"}, by : Calls]

VARIABLES
  phase,    \* where each call is
  req,      \* what it asked
  want,     \* the integrity it resolved to
  forced,   \* forceFetch / opts.force of the call
  ref,      \* the promise its fetching() returns
  late,     \* history: the call joined a fetch whose reactions had all run
  locker,   \* ctx.fetchingLocker
  fetch,    \* doFetchToStore of each creating call
  react,    \* reactions of its promise that ran: 1 = R1, 2 = S or its catch
  wrap,     \* the manifest reader a call wrapped over the entry it found
  stored,   \* content of the store per package and integrity
  disk,     \* the integrity of the local tarball on disk
  intFile,  \* the integrity file beside it in the store, 0 = none
  seen,     \* history: tarball integrities on disk while fetch g ran
  faults    \* failures so far

callVars == <<phase, req, want, forced, ref, late>>
vars == <<phase, req, want, forced, ref, late, locker, fetch, react, wrap,
          stored, disk, intFile, seen, faults>>

Refs == [k : {"R1", "S", "R2"}, by : Calls]
GenRefs == [k : {"R1", "S"}, by : Calls]
Entries == [gen : Calls, ref : Refs, raw : BOOLEAN]
Settled == {"ok", "failed"}
Phases == {"idle", "resolveQueued", "resolving", "fetching", "returned", "failed"}
Fetches == [st : {"none", "checkTarball", "readStore", "queued", "running",
                  "recording", "ok", "failed"},
            from : {"store", "remote", "local-dir"}, man : BOOLEAN]
Wraps == [on : GenRefs \cup {NoRef},
          st : {"none", "pending", "reading", "rejected", "ok", "failed"}]

TypeOK ==
  /\ phase \in [Calls -> Phases]
  /\ req \in [Calls -> Requests \cup {NoReq}]
  /\ want \in [Calls -> 0..MaxVer]
  /\ forced \in [Calls -> BOOLEAN]
  /\ ref \in [Calls -> Refs \cup {NoRef}]
  /\ late \in [Calls -> BOOLEAN]
  /\ locker \in [Pkgs -> Entries \cup {NoEntry}]
  /\ fetch \in [Calls -> Fetches]
  /\ react \in [Calls -> 0..2]
  /\ wrap \in [Calls -> Wraps]
  /\ stored \in [Pkgs -> [Vers -> {"none", "good", "modified", "foreign"}]]
  /\ disk \in [Pkgs -> Vers]
  /\ intFile \in [Pkgs -> 0..MaxVer]
  /\ seen \in [Calls -> SUBSET Vers]
  /\ faults \in 0..MaxFaults

Init ==
  /\ phase = [c \in Calls |-> "idle"]
  /\ req = [c \in Calls |-> NoReq]
  /\ want = [c \in Calls |-> 0]
  /\ forced = [c \in Calls |-> FALSE]
  /\ ref = [c \in Calls |-> NoRef]
  /\ late = [c \in Calls |-> FALSE]
  /\ locker = [p \in Pkgs |-> NoEntry]
  /\ fetch = [c \in Calls |-> [st |-> "none", from |-> "store", man |-> FALSE]]
  /\ react = [c \in Calls |-> 0]
  /\ wrap = [c \in Calls |-> [on |-> NoRef, st |-> "none"]]
  \* the store may hold anything an earlier run left
  /\ stored \in [Pkgs -> [Vers -> {"none", "good", "modified", "foreign"}]]
  /\ \A p \in Pkgs, v \in Vers : v > 1 \/ Kind[p] \in {"dir", "link"} => stored[p][v] = "none"
  /\ disk = [p \in Pkgs |-> 1]
  /\ intFile \in [Pkgs -> 0..1]
  /\ \A p \in Pkgs : Kind[p] # "tarball" => intFile[p] = 0
  /\ seen = [c \in Calls |-> {}]
  /\ faults = 0

-----------------------------------------------------------------------------
\* Promises.  A wrap's parent is never itself a wrap: an entry is wrapped once.

Pkg(c) == req[c].p
FetchSettled(g) == fetch[g].st \in Settled
GenOf(r) == IF r.k = "R2" THEN wrap[r.by].on.by ELSE r.by

\* The promise behind r rejected or resolved.
RefFailed(r) == \/ r.k = "R1" /\ fetch[r.by].st = "failed" /\ react[r.by] >= 1
                \/ r.k = "R2" /\ wrap[r.by].st = "failed"
RefOk(r) == \/ r.k = "S"
            \/ r.k = "R1" /\ fetch[r.by].st = "ok" /\ react[r.by] >= 1
            \/ r.k = "R2" /\ wrap[r.by].st = "ok"

\* files.resolvedFrom and whether bundledManifest is there, once r resolved.
RefFrom(r) == LET base == IF r.k = "R2" THEN wrap[r.by].on ELSE r
              IN  IF base.k = "S" THEN "store" ELSE fetch[base.by].from
RefManifest(r) == IF r.k = "R2" THEN Pkg(r.by) \in HasManifest ELSE fetch[r.by].man

WrapParentSettled(c) ==
  wrap[c].st = "pending" /\ (RefOk(wrap[c].on) \/ RefFailed(wrap[c].on))

\* No microtask is waiting: every settled promise has had its reactions.
Drained ==
  /\ \A g \in Calls : FetchSettled(g) => react[g] = 2
  /\ \A c \in Calls : ~WrapParentSettled(c) /\ wrap[c].st # "rejected"

\* Mutant of SlotsInUse: a failed fetch keeps its slot.
LeakedSlots == Cardinality({c \in Calls : phase[c] = "resolving"})
               + Cardinality({c \in Calls : fetch[c].st \in {"running", "failed"}})

\* p-queue: jobs that hold one of the networkConcurrency slots.
SlotsInUse == Cardinality({c \in Calls : phase[c] = "resolving"})
              + Cardinality({c \in Calls : fetch[c].st = "running"})

-----------------------------------------------------------------------------
\* fetchToStore

\* A caller that does not know the name gets the manifest (lines 353-355).
WantsManifest(o) == o.via = "requestPackage" \/ o.raw \/ ~o.named

\* The branch of doFetchToStore that looks into the store (463-470).
FirstStep(p, force) ==
  IF force \/ Kind[p] = "dir" THEN "queued"
  ELSE IF Kind[p] = "tarball" THEN "checkTarball" ELSE "readStore"

\* No entry: create one and start doFetchToStore.  An entry: share it
\* whatever it was created for, wrapping a manifest reader over it if this
\* call is the first to need the raw manifest.
FetchToStore(c, o, v, force) ==
  LET p == o.p
      e == locker[p]
      raw == WantsManifest(o)
      mine == [k |-> "R1", by |-> c]
      reader == [k |-> "R2", by |-> c]
  IN
  /\ phase' = [phase EXCEPT ![c] = "fetching"]
  /\ want' = [want EXCEPT ![c] = v]
  /\ forced' = [forced EXCEPT ![c] = force]
  /\ \/ /\ e = NoEntry
        /\ fetch' = [fetch EXCEPT ![c].st = FirstStep(p, force)]
        /\ locker' = [locker EXCEPT ![p] = [gen |-> c, ref |-> mine, raw |-> raw]]
        /\ ref' = [ref EXCEPT ![c] = mine]
        /\ seen' = [seen EXCEPT ![c] = {disk[p]}]
        /\ UNCHANGED <<wrap, late>>
     \/ /\ e # NoEntry
        /\ late' = [late EXCEPT ![c] = react[GenOf(e.ref)] = 2]
        /\ \/ /\ raw /\ ~e.raw
              /\ wrap' = [wrap EXCEPT ![c] = [on |-> e.ref, st |-> "pending"]]
              /\ locker' = [locker EXCEPT ![p] = [e EXCEPT !.ref = reader, !.raw = TRUE]]
              /\ ref' = [ref EXCEPT ![c] = reader]
           \/ /\ ~(raw /\ ~e.raw)
              /\ ref' = [ref EXCEPT ![c] = e.ref]
              /\ UNCHANGED <<wrap, locker>>
        /\ UNCHANGED <<fetch, seen>>

-----------------------------------------------------------------------------
\* resolveAndFetch

\* Lines 167-177: resolution is skipped for a known package that is not
\* updated, unless its manifest is needed or it is local.
NeedsResolution(o) ==
  \/ o.ver = 0 \/ o.update \/ o.skipFetch \/ o.optional
  \/ Kind[o.p] \in FileKinds

\* Resolvers that return the manifest along with the id.
ResolverKnowsManifest(p) == Kind[p] \in {"registry", "dir", "link"}

\* packageIsInstallable, asked only with a manifest: FALSE skips an optional
\* package, engine-strict throws for another one.
NotInstallable(o) == o.p \in Incompatible /\ ResolverKnowsManifest(o.p)

\* A caller makes a request.  Everything up to the first await is synchronous.
Request(c, o) ==
  /\ phase[c] = "idle"
  /\ req' = [req EXCEPT ![c] = o]
  /\ \/ /\ o.via = "requestPackage" /\ NeedsResolution(o)
        /\ phase' = [phase EXCEPT ![c] = "resolveQueued"]
        /\ UNCHANGED <<want, forced, ref, late, locker, fetch, wrap, seen>>
     \/ \* a linked directory without a manifest: the call throws
        /\ o.via = "requestPackage" /\ ~NeedsResolution(o) /\ Kind[o.p] = "link"
        /\ phase' = [phase EXCEPT ![c] = "failed"]
        /\ UNCHANGED <<want, forced, ref, late, locker, fetch, wrap, seen>>
     \/ /\ o.via = "requestPackage" => ~NeedsResolution(o) /\ Kind[o.p] # "link"
        /\ FetchToStore(c, o, o.ver, o.via = "fetchPackageToStore" /\ o.force)
  /\ UNCHANGED <<react, stored, disk, intFile, faults>>

StartResolve(c) ==
  /\ phase[c] = "resolveQueued"
  /\ SlotsInUse < Slots
  /\ phase' = [phase EXCEPT ![c] = "resolving"]
  /\ UNCHANGED <<req, want, forced, ref, late, locker, fetch, react, wrap,
                 stored, disk, intFile, seen, faults>>

\* The integrity the resolver reports: of the tarball as it is on disk now.
ResolvedVer(p) == IF Kind[p] = "tarball" THEN disk[p] ELSE 1

\* Lines 199-205: only a local tarball whose integrity changed is forced.
ForceFetch(o) == o.ver # 0 /\ Kind[o.p] = "tarball" /\ o.ver # ResolvedVer(o.p)

\* ctx.resolve() answered (from memory, or from disk or network) and the
\* call goes on: it returns without a fetch, or it calls fetchPackageToStore.
Resolved(c) ==
  LET o == req[c]
      returns == \/ Kind[o.p] = "link"
                 \/ ResolverKnowsManifest(o.p) /\ o.skipFetch
                 \/ NotInstallable(o) /\ o.optional
      throws == Kind[o.p] # "link" /\ NotInstallable(o) /\ ~o.optional /\ EngineStrict
  IN
  /\ phase[c] = "resolving"
  /\ \/ /\ returns \/ throws
        /\ phase' = [phase EXCEPT ![c] = IF throws THEN "failed" ELSE "returned"]
        /\ UNCHANGED <<want, forced, ref, late, locker, fetch, wrap, seen>>
     \/ /\ ~returns /\ ~throws
        /\ FetchToStore(c, o, ResolvedVer(o.p), ForceFetch(o))
  /\ UNCHANGED <<req, react, stored, disk, intFile, faults>>

ResolveFailed(c) ==
  /\ phase[c] = "resolving"
  /\ faults < MaxFaults
  /\ faults' = faults + 1
  /\ phase' = [phase EXCEPT ![c] = "failed"]
  /\ UNCHANGED <<req, want, forced, ref, late, locker, fetch, react, wrap,
                 stored, disk, intFile, seen>>

-----------------------------------------------------------------------------
\* doFetchToStore

\* Mutant of TarballIsUpToDate: the tarball on disk is not looked at.
RecordIsUpToDate(g) == intFile[Pkg(g)] = want[g]

\* tarballIsUpToDate: the recorded integrity is the wanted one and the
\* tarball on disk still has it.
TarballIsUpToDate(g) ==
  intFile[Pkg(g)] = want[g] /\ disk[Pkg(g)] = want[g]

CheckTarball(g) ==
  /\ fetch[g].st = "checkTarball" /\ Drained
  /\ fetch' = [fetch EXCEPT ![g].st = IF TarballIsUpToDate(g) THEN "readStore" ELSE "queued"]
  /\ UNCHANGED <<callVars, locker, react, wrap, stored, disk, intFile, seen, faults>>

\* The package's name is compared with the index only when one is expected.
ChecksName(o) ==
  o.expected \/ (o.via = "requestPackage" /\ NeedsResolution(o) /\ ResolverKnowsManifest(o.p))

\* readPkgFromCafs: a verified index is served from the store, one of another
\* package is refused, anything else is fetched again.
ReadStore(g) ==
  LET o == req[g]
      content == stored[o.p][want[g]]
  IN
  /\ fetch[g].st = "readStore" /\ Drained
  /\ fetch' = [fetch EXCEPT ![g] =
       IF content \notin {"good", "foreign"} THEN [@ EXCEPT !.st = "queued"]
       ELSE IF content = "foreign" /\ ChecksName(o) THEN [@ EXCEPT !.st = "failed"]
       ELSE [st |-> "ok", from |-> "store",
             man |-> WantsManifest(o) /\ o.p \in HasManifest]]
  /\ UNCHANGED <<callVars, locker, react, wrap, stored, disk, intFile, seen, faults>>

StartFetch(g) ==
  /\ fetch[g].st = "queued"
  /\ SlotsInUse < Slots
  /\ fetch' = [fetch EXCEPT ![g].st = "running"]
  /\ UNCHANGED <<callVars, locker, react, wrap, stored, disk, intFile, seen, faults>>

\* Mutants: the manifest is read for those who ask only, or for files only;
\* the kind of the package is reported as the origin of its files.
ManifestOnDemand(g) == WantsManifest(req[g]) /\ Pkg(g) \in HasManifest
NoManifestOfDirs(g) == Kind[Pkg(g)] # "dir" /\ Pkg(g) \in HasManifest
KindAsOrigin(p) == Kind[p]

\* Fetchers read the manifest whether it was asked for or not.
FetcherManifest(g) == Pkg(g) \in HasManifest
FetchedFrom(p) == IF Kind[p] = "dir" THEN "local-dir" ELSE "remote"

\* The fetcher stored the files.  The slot is free; for a local tarball the
\* integrity file is still to be written.
FetchOk(g) ==
  LET p == Pkg(g) IN
  /\ fetch[g].st = "running" /\ Drained
  /\ Kind[p] = "tarball" => disk[p] = want[g]
  /\ fetch' = [fetch EXCEPT ![g] =
       [st |-> IF Kind[p] = "tarball" THEN "recording" ELSE "ok",
        from |-> FetchedFrom(p), man |-> FetcherManifest(g)]]
  /\ stored' = IF Kind[p] = "dir" THEN stored
               ELSE [stored EXCEPT ![p][want[g]] = "good"]
  /\ UNCHANGED <<callVars, locker, react, wrap, disk, intFile, seen, faults>>

\* Lines 559-562: write the integrity file, then resolve.
RecordIntegrity(g) ==
  /\ fetch[g].st = "recording" /\ Drained
  /\ intFile' = [intFile EXCEPT ![Pkg(g)] = want[g]]
  /\ fetch' = [fetch EXCEPT ![g].st = "ok"]
  /\ UNCHANGED <<callVars, locker, react, wrap, stored, disk, seen, faults>>

\* The tarball on disk is not the wanted one: the worker rejects it.
IntegrityMismatch(g) ==
  /\ fetch[g].st = "running" /\ Drained
  /\ Kind[Pkg(g)] = "tarball" /\ disk[Pkg(g)] # want[g]
  /\ fetch' = [fetch EXCEPT ![g].st = "failed"]
  /\ UNCHANGED <<callVars, locker, react, wrap, stored, disk, intFile, seen, faults>>

\* The network or the disk failed.
FetchFailed(g) ==
  /\ fetch[g].st \in {"running", "recording"} /\ Drained
  /\ faults < MaxFaults
  /\ faults' = faults + 1
  /\ fetch' = [fetch EXCEPT ![g].st = "failed"]
  /\ UNCHANGED <<callVars, locker, react, wrap, stored, disk, intFile, seen>>

-----------------------------------------------------------------------------
\* Reactions (microtasks)

\* Mutants of ReactR1: the key is kept on a failure, or always deleted
\* (finally in the place of catch).
ReactR1Keeps(g) ==
  /\ FetchSettled(g) /\ react[g] = 0
  /\ react' = [react EXCEPT ![g] = 1]
  /\ UNCHANGED <<callVars, locker, fetch, wrap, stored, disk, intFile, seen, faults>>
ReactR1Finally(g) ==
  /\ FetchSettled(g) /\ react[g] = 0
  /\ react' = [react EXCEPT ![g] = 1]
  /\ locker' = [locker EXCEPT ![Pkg(g)] = NoEntry]
  /\ UNCHANGED <<callVars, fetch, wrap, stored, disk, intFile, seen, faults>>

\* removeKeyOnFail over fetching.promise, the first reaction registered: on a
\* rejection it deletes the key, whoever's entry is there.
ReactR1(g) ==
  /\ FetchSettled(g) /\ react[g] = 0
  /\ react' = [react EXCEPT ![g] = 1]
  /\ locker' = IF fetch[g].st = "failed" THEN [locker EXCEPT ![Pkg(g)] = NoEntry] ELSE locker
  /\ UNCHANGED <<callVars, fetch, wrap, stored, disk, intFile, seen, faults>>

\* Mutant of ReactS: only the entry's first promise is replaced.
ReactSFirst(g) ==
  LET p == Pkg(g) IN
  /\ fetch[g].st = "ok" /\ react[g] = 1
  /\ react' = [react EXCEPT ![g] = 2]
  /\ locker' = IF fetch[g].from = "remote" /\ locker[p] # NoEntry
                  /\ locker[p].ref = [k |-> "R1", by |-> g]
               THEN [locker EXCEPT ![p] = [@ EXCEPT !.ref = [k |-> "S", by |-> g]]]
               ELSE locker
  /\ UNCHANGED <<callVars, fetch, wrap, stored, disk, intFile, seen, faults>>

\* The then() of lines 375-405: a remote result is replaced by one that says
\* "store"; the rest of the entry that is there is kept.
ReactS(g) ==
  LET p == Pkg(g) IN
  /\ fetch[g].st = "ok" /\ react[g] = 1
  /\ react' = [react EXCEPT ![g] = 2]
  /\ locker' = IF fetch[g].from = "remote" /\ locker[p] # NoEntry
               THEN [locker EXCEPT ![p] = [@ EXCEPT !.ref = [k |-> "S", by |-> g]]]
               ELSE locker
  /\ UNCHANGED <<callVars, fetch, wrap, stored, disk, intFile, seen, faults>>

\* Its catch() (406-408): the key is deleted a second time.
ReactC(g) ==
  /\ fetch[g].st = "failed" /\ react[g] = 1
  /\ react' = [react EXCEPT ![g] = 2]
  /\ locker' = [locker EXCEPT ![Pkg(g)] = NoEntry]
  /\ UNCHANGED <<callVars, fetch, wrap, stored, disk, intFile, seen, faults>>

\* The then() a raw call wrapped over the entry (414-432): it starts to read
\* the manifest, or passes the rejection on to its own removeKeyOnFail.
ReactWrap(c) ==
  /\ WrapParentSettled(c) /\ react[wrap[c].on.by] = 2
  /\ wrap' = [wrap EXCEPT ![c].st = IF RefOk(wrap[c].on) THEN "reading" ELSE "rejected"]
  /\ UNCHANGED <<callVars, locker, fetch, react, stored, disk, intFile, seen, faults>>

ReadManifest(c) ==
  /\ wrap[c].st = "reading" /\ Drained
  /\ \/ /\ wrap' = [wrap EXCEPT ![c].st = "ok"]
        /\ UNCHANGED faults
     \/ /\ faults < MaxFaults
        /\ faults' = faults + 1
        /\ wrap' = [wrap EXCEPT ![c].st = "rejected"]
  /\ UNCHANGED <<callVars, locker, fetch, react, stored, disk, intFile, seen>>

\* removeKeyOnFail over the wrapped reader.
ReactR2(c) ==
  /\ wrap[c].st = "rejected"
  /\ wrap' = [wrap EXCEPT ![c].st = "failed"]
  /\ locker' = [locker EXCEPT ![Pkg(c)] = NoEntry]
  /\ UNCHANGED <<callVars, fetch, react, stored, disk, intFile, seen, faults>>

-----------------------------------------------------------------------------
\* The environment

\* Somebody repacks the local tarball.
TarballEdited(p) ==
  /\ Kind[p] = "tarball" /\ disk[p] < MaxVer
  /\ disk' = [disk EXCEPT ![p] = @ + 1]
  /\ seen' = [g \in Calls |->
       IF fetch[g].st # "none" /\ ~FetchSettled(g) /\ Pkg(g) = p
       THEN seen[g] \cup {disk[p] + 1} ELSE seen[g]]
  /\ UNCHANGED <<callVars, locker, fetch, react, wrap, stored, intFile, faults>>

\* A file of a stored package is edited through a hard link.
StoreModified(p, v) ==
  /\ stored[p][v] \in {"good", "foreign"}
  /\ faults < MaxFaults
  /\ faults' = faults + 1
  /\ stored' = [stored EXCEPT ![p][v] = "modified"]
  /\ UNCHANGED <<callVars, locker, fetch, react, wrap, disk, intFile, seen>>

\* Every call came to its end: the process may exit.
CallDone(c) ==
  \/ phase[c] \in {"returned", "failed"}
  \/ phase[c] = "fetching" /\ (RefOk(ref[c]) \/ RefFailed(ref[c]))

AllDone ==
  /\ \A c \in Calls : CallDone(c)
  /\ Drained
  /\ UNCHANGED vars

Reactions(c) == ReactR1(c) \/ ReactS(c) \/ ReactC(c) \/ ReactWrap(c) \/ ReactR2(c)
FetchIO(c) == CheckTarball(c) \/ ReadStore(c) \/ FetchOk(c) \/ RecordIntegrity(c)
              \/ IntegrityMismatch(c) \/ FetchFailed(c)
Resolving(c) == Resolved(c) \/ ResolveFailed(c)

Next ==
  \/ \E c \in Calls :
       \/ \E o \in Menu : Request(c, o)
       \/ StartResolve(c) \/ Resolving(c)
       \/ FetchIO(c) \/ StartFetch(c) \/ ReadManifest(c)
       \/ Reactions(c)
  \/ \E p \in Pkgs : TarballEdited(p) \/ \E v \in Vers : StoreModified(p, v)
  \/ AllDone

\* The event loop runs every microtask and every completed operation, and
\* p-queue starts a waiting job whenever a slot is free.  Callers need not call.
Fairness ==
  \A c \in Calls :
    /\ WF_vars(StartResolve(c)) /\ WF_vars(Resolving(c))
    /\ WF_vars(StartFetch(c)) /\ WF_vars(FetchIO(c))
    /\ WF_vars(ReadManifest(c)) /\ WF_vars(Reactions(c))

Spec == Init /\ [][Next]_vars
FairSpec == Spec /\ Fairness

-----------------------------------------------------------------------------
\* Properties

\* r rejected, or wraps a promise that rejected.
Doomed(r) == RefFailed(r) \/ (r.k = "R2" /\ RefFailed(wrap[r.by].on))

\* fetchPackageToStore() does not cache errors: once removeKeyOnFail saw the
\* rejection, no caller can find a promise in the locker that is bound to
\* fail, although the key is deleted up to three times and entries of later
\* fetches come and go in between.
NoDoomedEntry ==
  \A p \in Pkgs : locker[p] # NoEntry => ~Doomed(locker[p].ref)

Fetched(p) == {g \in Calls : fetch[g].st # "none" /\ Pkg(g) = p}
FailureOf(p) ==
  \/ \E g \in Fetched(p) : fetch[g].st = "failed"
  \/ \E c \in Calls : wrap[c].st \in {"rejected", "failed"} /\ Pkg(c) = p

\* The requester reads or downloads a package once, however many calls ask for
\* it and whenever they come, unless something of that package failed.
FetchedOnce ==
  \A p \in Pkgs : ~FailureOf(p) => \A g, h \in Fetched(p) : g = h

Succeeded(c) == phase[c] = "fetching" /\ RefOk(ref[c])

\* A call that needs the raw manifest gets it, also when it joined a fetch
\* that was started without it, or found the entry after the then() of lines
\* 375-405 replaced the promise with the manifest by one cached before it.
RawCallsGetManifest ==
  \A c \in Calls :
    Succeeded(c) /\ WantsManifest(req[c]) /\ Pkg(c) \in HasManifest
      => RefManifest(ref[c])

\* A call that comes after a fetch has settled and reacted is told that the
\* package was reused: it never sees "remote" (comment at lines 370-374).
LateJoinersReuse ==
  \A c \in Calls : Succeeded(c) /\ late[c] => RefFrom(ref[c]) # "remote"

\* A fetch of a local tarball succeeds only if the tarball on disk had the
\* wanted integrity at some moment while the fetch ran: stale content of the
\* store is never served for a tarball that was repacked before.
FetchReadsTheTarball ==
  \A g \in Calls :
    fetch[g].st = "ok" /\ Kind[Pkg(g)] = "tarball" => want[g] \in seen[g]

\* A forced call gets the files of the integrity it resolved to: "the local
\* tarball should be unpacked, so a fetch to the store should be forced".
\* The code looks up the locker by id alone, and breaks this.
ForcedCallGetsItsTarball ==
  \A c \in Calls :
    Succeeded(c) /\ forced[c] => want[GenOf(ref[c])] = want[c]

\* Every call comes to an end, whatever fails: no slot of the queue is lost
\* and no promise is left unsettled.
CallsSettle == \A c \in Calls : phase[c] # "idle" ~> CallDone(c)
=============================================================================
