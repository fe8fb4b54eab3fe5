------------------------ MODULE PackageRequesterProofs ------------------------
(***************************************************************************)
(* Proofs about PackageRequester, for every set of calls and packages,     *)
(* every menu of requests, any number of slots and faults.                 *)
(***************************************************************************)
EXTENDS PackageRequester, TLAPS

\* A call owns no fetch and no manifest reader before it reached fetchToStore.
CallsInOrder ==
  \A c \in Calls :
    /\ phase[c] # "idle" => req[c] \in Requests
    /\ fetch[c].st # "none" => phase[c] = "fetching"
    /\ wrap[c].st # "none" => phase[c] = "fetching"
    /\ react[c] # 0 => FetchSettled(c)

\* What a promise over a fetch of p may be.
FetchRef(r, p) ==
  /\ fetch[r.by].st # "none" /\ Pkg(r.by) = p
  /\ r.k = "S" => fetch[r.by].st = "ok"

\* A wrapped promise is over a fetch of the same package.
WrapsOnFetches ==
  \A c \in Calls :
    wrap[c].st # "none" => wrap[c].on \in GenRefs /\ FetchRef(wrap[c].on, Pkg(c))

\* So is a locker entry's; it is wrapped only if it was asked for raw.
EntriesOnFetches ==
  \A p \in Pkgs :
    locker[p] # NoEntry =>
      LET r == locker[p].ref IN
      /\ r.k # "R2" => FetchRef(r, p)
      /\ r.k = "R2" => locker[p].raw /\ wrap[r.by].st # "none" /\ Pkg(r.by) = p

\* Without a failure, the entry of a package that was fetched stays.
EntryStays ==
  \A p \in Pkgs : ~FailureOf(p) /\ Fetched(p) # {} => locker[p] # NoEntry

LockInv == CallsInOrder /\ WrapsOnFetches /\ EntriesOnFetches

-----------------------------------------------------------------------------
\* Type correctness

\* The initial states are well typed.
LEMMA InitTyped == Init => TypeOK
BY RequesterConstants DEF Init, TypeOK, Phases, Fetches, Wraps, Vers

\* fetchToStore keeps every variable it writes in its type.
LEMMA FetchToStoreTyped ==
  ASSUME TypeOK, NEW c \in Calls, NEW o \in Requests, NEW v \in 0..MaxVer,
         NEW force \in BOOLEAN, FetchToStore(c, o, v, force),
         locker[o.p] # NoEntry /\ ~locker[o.p].raw => locker[o.p].ref.k # "R2"
  PROVE  /\ phase' \in [Calls -> Phases] /\ want' \in [Calls -> 0..MaxVer]
         /\ forced' \in [Calls -> BOOLEAN] /\ ref' \in [Calls -> Refs \cup {NoRef}]
         /\ late' \in [Calls -> BOOLEAN]
         /\ locker' \in [Pkgs -> Entries \cup {NoEntry}]
         /\ fetch' \in [Calls -> Fetches] /\ wrap' \in [Calls -> Wraps]
         /\ seen' \in [Calls -> SUBSET Vers]
<1>1. o.p \in Pkgs /\ WantsManifest(o) \in BOOLEAN
  BY DEF Requests, WantsManifest
<1>2. FirstStep(o.p, force) \in {"checkTarball", "readStore", "queued"}
  BY DEF FirstStep
<1>3. phase' \in [Calls -> Phases] /\ want' \in [Calls -> 0..MaxVer]
      /\ forced' \in [Calls -> BOOLEAN]
  BY DEF FetchToStore, TypeOK, Phases
<1>4. CASE locker[o.p] = NoEntry
  <2>1. fetch' \in [Calls -> Fetches]
    <3>1. fetch' = [fetch EXCEPT ![c].st = FirstStep(o.p, force)]
      BY <1>4 DEF FetchToStore
    <3>2. fetch \in [Calls -> Fetches]
      BY DEF TypeOK
    <3>3. [fetch[c] EXCEPT !.st = FirstStep(o.p, force)] \in Fetches
      BY <1>2, <3>2 DEF Fetches
    <3> QED BY <3>1, <3>2, <3>3
  <2>2. locker' \in [Pkgs -> Entries \cup {NoEntry}] /\ ref' \in [Calls -> Refs \cup {NoRef}]
    <3> DEFINE mine == [k |-> "R1", by |-> c]
               entry == [gen |-> c, ref |-> mine, raw |-> WantsManifest(o)]
    <3>1. mine \in Refs /\ entry \in Entries
      BY <1>1 DEF Refs, Entries
    <3>2. locker' = [locker EXCEPT ![o.p] = entry] /\ ref' = [ref EXCEPT ![c] = mine]
      BY <1>4 DEF FetchToStore
    <3> QED BY <3>1, <3>2 DEF TypeOK
  <2>3. seen' \in [Calls -> SUBSET Vers] /\ UNCHANGED <<wrap, late>>
    BY <1>1, <1>4 DEF FetchToStore, TypeOK
  <2> QED BY <1>3, <2>1, <2>2, <2>3 DEF TypeOK
<1>5. CASE locker[o.p] # NoEntry
  <2>1. locker[o.p] \in Entries
    BY <1>1, <1>5 DEF TypeOK
  <2>2. UNCHANGED <<fetch, seen>> /\ late' \in [Calls -> BOOLEAN]
    BY <1>5 DEF FetchToStore, TypeOK
  <2>3. CASE WantsManifest(o) /\ ~locker[o.p].raw
    <3>1. locker[o.p].ref \in GenRefs
      BY <2>1, <2>3, <1>5 DEF Entries, Refs, GenRefs
    <3>2. wrap' \in [Calls -> Wraps]
      BY <1>5, <2>3, <3>1 DEF FetchToStore, TypeOK, Wraps
    <3>3. locker' \in [Pkgs -> Entries \cup {NoEntry}]
      <4> DEFINE entry == [locker[o.p] EXCEPT !.ref = [k |-> "R2", by |-> c], !.raw = TRUE]
      <4>1. entry \in Entries
        BY <2>1 DEF Entries, Refs
      <4>2. locker' = [locker EXCEPT ![o.p] = entry]
        BY <1>5, <2>3 DEF FetchToStore
      <4> QED BY <4>1, <4>2 DEF TypeOK
    <3>4. ref' \in [Calls -> Refs \cup {NoRef}]
      BY <1>5, <2>3 DEF FetchToStore, TypeOK, Refs
    <3> QED BY <1>3, <2>2, <3>2, <3>3, <3>4 DEF TypeOK
  <2>4. CASE ~(WantsManifest(o) /\ ~locker[o.p].raw)
    BY <1>3, <1>5, <2>1, <2>2, <2>4 DEF FetchToStore, TypeOK, Entries
  <2> QED BY <2>3, <2>4
<1> QED BY <1>4, <1>5

\* A call with a fetch or a reader has a request, for a known package.
LEMMA FetchHasRequest ==
  ASSUME TypeOK, CallsInOrder, NEW c \in Calls,
         fetch[c].st # "none" \/ wrap[c].st # "none" \/ phase[c] # "idle"
  PROVE  req[c] \in Requests /\ Pkg(c) \in Pkgs /\ want[c] \in 0..MaxVer
BY DEF CallsInOrder, TypeOK, Pkg, Requests

\* An entry that is not raw holds an unwrapped promise.
LEMMA UnwrappedEntry ==
  ASSUME EntriesOnFetches, NEW p \in Pkgs, locker[p] # NoEntry, ~locker[p].raw
  PROVE  locker[p].ref.k # "R2"
BY DEF EntriesOnFetches

\* Changing the status of a fetch keeps the fetches typed.
LEMMA FetchStatusTyped ==
  ASSUME TypeOK, NEW g \in Calls,
         NEW s \in {"none", "checkTarball", "readStore", "queued", "running",
                    "recording", "ok", "failed"}
  PROVE  [fetch EXCEPT ![g].st = s] \in [Calls -> Fetches]
<1>1. fetch \in [Calls -> Fetches]
  BY DEF TypeOK
<1>2. [fetch[g] EXCEPT !.st = s] \in Fetches
  BY <1>1 DEF Fetches
<1> QED BY <1>1, <1>2

\* Changing the status of a manifest reader keeps the readers typed.
LEMMA WrapStatusTyped ==
  ASSUME TypeOK, NEW c \in Calls,
         NEW s \in {"none", "pending", "reading", "rejected", "ok", "failed"}
  PROVE  [wrap EXCEPT ![c].st = s] \in [Calls -> Wraps]
<1>1. wrap \in [Calls -> Wraps]
  BY DEF TypeOK
<1>2. [wrap[c] EXCEPT !.st = s] \in Wraps
  BY <1>1 DEF Wraps
<1> QED BY <1>1, <1>2

\* Deleting a key keeps the locker typed.
LEMMA DeleteTyped ==
  ASSUME TypeOK, NEW p \in Pkgs
  PROVE  [locker EXCEPT ![p] = NoEntry] \in [Pkgs -> Entries \cup {NoEntry}]
BY DEF TypeOK

\* The resolver reports an integrity.
LEMMA ResolvedVerTyped ==
  ASSUME TypeOK, NEW p \in Pkgs
  PROVE  ResolvedVer(p) \in 0..MaxVer
BY RequesterConstants DEF ResolvedVer, TypeOK, Vers

\* What a call does keeps the types.
LEMMA CallTyped ==
  ASSUME TypeOK, CallsInOrder, EntriesOnFetches, NEW c \in Calls,
         (\E o \in Menu : Request(c, o)) \/ StartResolve(c) \/ Resolving(c)
  PROVE  TypeOK'
<1>1. ASSUME NEW o \in Menu, Request(c, o) PROVE TypeOK'
  <2>1. o \in Requests /\ o.p \in Pkgs /\ o.ver \in 0..MaxVer
    BY RequesterConstants DEF Requests
  <2>2. req' \in [Calls -> Requests \cup {NoReq}]
        /\ UNCHANGED <<react, stored, disk, intFile, faults>>
    BY <1>1, <2>1 DEF Request, TypeOK
  <2>3. CASE FetchToStore(c, o, o.ver, o.via = "fetchPackageToStore" /\ o.force)
    <3>1. (o.via = "fetchPackageToStore" /\ o.force) \in BOOLEAN
      OBVIOUS
    <3> QED BY <2>1, <2>2, <2>3, <3>1, FetchToStoreTyped, UnwrappedEntry DEF TypeOK
  <2>4. CASE UNCHANGED <<want, forced, ref, late, locker, fetch, wrap, seen>>
             /\ \E s \in {"resolveQueued", "failed"} : phase' = [phase EXCEPT ![c] = s]
    BY <2>2, <2>4 DEF TypeOK, Phases
  <2> QED BY <1>1, <2>3, <2>4 DEF Request
<1>2. ASSUME StartResolve(c) PROVE TypeOK'
  BY <1>2 DEF StartResolve, TypeOK, Phases
<1>3. ASSUME Resolved(c) PROVE TypeOK'
  <2>1. req[c] \in Requests /\ req[c].p \in Pkgs
    BY <1>3, FetchHasRequest DEF Resolved, Pkg
  <2>2. UNCHANGED <<req, react, stored, disk, intFile, faults>>
    BY <1>3 DEF Resolved
  <2>3. CASE FetchToStore(c, req[c], ResolvedVer(req[c].p), ForceFetch(req[c]))
    <3>1. ForceFetch(req[c]) \in BOOLEAN /\ ResolvedVer(req[c].p) \in 0..MaxVer
      BY <2>1, ResolvedVerTyped DEF ForceFetch
    <3>2. locker[req[c].p] # NoEntry /\ ~locker[req[c].p].raw => locker[req[c].p].ref.k # "R2"
      BY <2>1, UnwrappedEntry
    <3>3. /\ phase' \in [Calls -> Phases] /\ want' \in [Calls -> 0..MaxVer]
          /\ forced' \in [Calls -> BOOLEAN] /\ ref' \in [Calls -> Refs \cup {NoRef}]
          /\ late' \in [Calls -> BOOLEAN]
          /\ locker' \in [Pkgs -> Entries \cup {NoEntry}]
          /\ fetch' \in [Calls -> Fetches] /\ wrap' \in [Calls -> Wraps]
          /\ seen' \in [Calls -> SUBSET Vers]
      BY <2>1, <2>3, <3>1, <3>2, FetchToStoreTyped
    <3> QED BY <2>2, <3>3 DEF TypeOK
  <2>4. CASE UNCHANGED <<want, forced, ref, late, locker, fetch, wrap, seen>>
             /\ \E s \in {"returned", "failed"} : phase' = [phase EXCEPT ![c] = s]
    BY <2>2, <2>4 DEF TypeOK, Phases
  <2> QED BY <1>3, <2>3, <2>4 DEF Resolved
<1>4. ASSUME ResolveFailed(c) PROVE TypeOK'
  BY <1>4, RequesterConstants DEF ResolveFailed, TypeOK, Phases
<1> QED BY <1>1, <1>2, <1>3, <1>4 DEF Resolving

\* What a fetch does keeps the types.
LEMMA FetchTyped ==
  ASSUME TypeOK, CallsInOrder, NEW g \in Calls, FetchIO(g) \/ StartFetch(g)
  PROVE  TypeOK'
<1>1. ASSUME UNCHANGED <<callVars, locker, react, wrap, seen>>,
             fetch' \in [Calls -> Fetches], faults' \in 0..MaxFaults,
             stored' \in [Pkgs -> [Vers -> {"none", "good", "modified", "foreign"}]],
             intFile' \in [Pkgs -> 0..MaxVer], disk' = disk
      PROVE  TypeOK'
  BY <1>1 DEF TypeOK, callVars
<1>2. fetch[g].st # "none" => Pkg(g) \in Pkgs /\ want[g] \in 0..MaxVer /\ req[g] \in Requests
  BY FetchHasRequest
<1>3. ASSUME CheckTarball(g) PROVE TypeOK'
  <2>1. fetch' \in [Calls -> Fetches]
    BY <1>3, FetchStatusTyped DEF CheckTarball
  <2> QED BY <1>1, <1>3, <2>1 DEF CheckTarball, TypeOK
<1>4. ASSUME ReadStore(g) PROVE TypeOK'
  <2>1. fetch \in [Calls -> Fetches]
    BY DEF TypeOK
  <2> DEFINE found == [st |-> "ok", from |-> "store",
                       man |-> WantsManifest(req[g]) /\ req[g].p \in HasManifest]
             queued == [fetch[g] EXCEPT !.st = "queued"]
             refused == [fetch[g] EXCEPT !.st = "failed"]
  <2>2. found \in Fetches /\ queued \in Fetches /\ refused \in Fetches
    BY <2>1 DEF Fetches
  <2>3. \E f \in {found, queued, refused} : fetch' = [fetch EXCEPT ![g] = f]
    BY <1>4 DEF ReadStore
  <2> HIDE DEF found, queued, refused
  <2>4. fetch' \in [Calls -> Fetches]
    BY <2>1, <2>2, <2>3
  <2> QED BY <1>1, <1>4, <2>4 DEF ReadStore, TypeOK
<1>5. ASSUME StartFetch(g) PROVE TypeOK'
  <2>1. fetch' \in [Calls -> Fetches]
    BY <1>5, FetchStatusTyped DEF StartFetch
  <2> QED BY <1>1, <1>5, <2>1 DEF StartFetch, TypeOK
<1>6. ASSUME FetchOk(g) PROVE TypeOK'
  <2> DEFINE got == [st |-> IF Kind[Pkg(g)] = "tarball" THEN "recording" ELSE "ok",
                     from |-> FetchedFrom(Pkg(g)), man |-> FetcherManifest(g)]
  <2>1. got \in Fetches /\ fetch' = [fetch EXCEPT ![g] = got]
    BY <1>6 DEF FetchOk, Fetches, FetchedFrom, FetcherManifest
  <2>2. fetch' \in [Calls -> Fetches]
    BY <2>1 DEF TypeOK
  <2>3. stored' \in [Pkgs -> [Vers -> {"none", "good", "modified", "foreign"}]]
    BY <1>6 DEF FetchOk, TypeOK
  <2> QED BY <1>1, <1>6, <2>2, <2>3 DEF FetchOk, TypeOK
<1>7. ASSUME RecordIntegrity(g) PROVE TypeOK'
  <2>1. fetch' \in [Calls -> Fetches]
    BY <1>7, FetchStatusTyped DEF RecordIntegrity
  <2>2. intFile' \in [Pkgs -> 0..MaxVer]
    BY <1>2, <1>7 DEF RecordIntegrity, TypeOK
  <2> QED BY <1>1, <1>7, <2>1, <2>2 DEF RecordIntegrity, TypeOK
<1>8. ASSUME IntegrityMismatch(g) PROVE TypeOK'
  <2>1. fetch' \in [Calls -> Fetches]
    BY <1>8, FetchStatusTyped DEF IntegrityMismatch
  <2> QED BY <1>1, <1>8, <2>1 DEF IntegrityMismatch, TypeOK
<1>9. ASSUME FetchFailed(g) PROVE TypeOK'
  <2>1. fetch' \in [Calls -> Fetches]
    BY <1>9, FetchStatusTyped DEF FetchFailed
  <2>2. faults' \in 0..MaxFaults
    BY <1>9, RequesterConstants DEF FetchFailed, TypeOK
  <2> QED BY <1>1, <1>9, <2>1, <2>2 DEF FetchFailed, TypeOK
<1> QED BY <1>3, <1>4, <1>5, <1>6, <1>7, <1>8, <1>9 DEF FetchIO

\* Reactions and the manifest read keep the types.
LEMMA ReactionTyped ==
  ASSUME TypeOK, CallsInOrder, NEW c \in Calls, Reactions(c) \/ ReadManifest(c)
  PROVE  TypeOK'
<1>1. fetch[c].st # "none" \/ wrap[c].st # "none" => Pkg(c) \in Pkgs
  BY FetchHasRequest
<1>2. ASSUME ReactR1(c) PROVE TypeOK'
  <2>1. locker' \in [Pkgs -> Entries \cup {NoEntry}]
    BY <1>1, <1>2, DeleteTyped DEF ReactR1, FetchSettled, Settled, TypeOK
  <2>2. react' \in [Calls -> 0..2]
    BY <1>2 DEF ReactR1, TypeOK
  <2> QED BY <1>2, <2>1, <2>2 DEF ReactR1, TypeOK, callVars
<1>3. ASSUME ReactS(c) PROVE TypeOK'
  <2> DEFINE cached == [locker[Pkg(c)] EXCEPT !.ref = [k |-> "S", by |-> c]]
  <2>1. Pkg(c) \in Pkgs
    BY <1>1, <1>3 DEF ReactS
  <2>2. locker[Pkg(c)] # NoEntry => cached \in Entries
    BY <2>1 DEF TypeOK, Entries, Refs
  <2>3. locker' = locker \/ (locker[Pkg(c)] # NoEntry /\ locker' = [locker EXCEPT ![Pkg(c)] = cached])
    BY <1>3 DEF ReactS
  <2> HIDE DEF cached
  <2>4. locker' \in [Pkgs -> Entries \cup {NoEntry}]
    BY <2>1, <2>2, <2>3 DEF TypeOK
  <2>5. react' \in [Calls -> 0..2]
    BY <1>3 DEF ReactS, TypeOK
  <2> QED BY <1>3, <2>4, <2>5 DEF ReactS, TypeOK, callVars
<1>4. ASSUME ReactC(c) PROVE TypeOK'
  <2>1. locker' \in [Pkgs -> Entries \cup {NoEntry}]
    BY <1>1, <1>4, DeleteTyped DEF ReactC
  <2>2. react' \in [Calls -> 0..2]
    BY <1>4 DEF ReactC, TypeOK
  <2> QED BY <1>4, <2>1, <2>2 DEF ReactC, TypeOK, callVars
<1>5. ASSUME ReactWrap(c) PROVE TypeOK'
  <2>1. wrap' \in [Calls -> Wraps]
    BY <1>5, WrapStatusTyped DEF ReactWrap
  <2> QED BY <1>5, <2>1 DEF ReactWrap, TypeOK, callVars
<1>6. ASSUME ReactR2(c) PROVE TypeOK'
  <2>1. wrap' \in [Calls -> Wraps]
    BY <1>6, WrapStatusTyped DEF ReactR2
  <2>2. locker' \in [Pkgs -> Entries \cup {NoEntry}]
    BY <1>1, <1>6, DeleteTyped DEF ReactR2
  <2> QED BY <1>6, <2>1, <2>2 DEF ReactR2, TypeOK, callVars
<1>7. ASSUME ReadManifest(c) PROVE TypeOK'
  <2>1. wrap' \in [Calls -> Wraps]
    BY <1>7, WrapStatusTyped DEF ReadManifest
  <2>2. faults' \in 0..MaxFaults
    BY <1>7, RequesterConstants DEF ReadManifest, TypeOK
  <2> QED BY <1>7, <2>1, <2>2 DEF ReadManifest, TypeOK, callVars
<1> QED BY <1>2, <1>3, <1>4, <1>5, <1>6, <1>7 DEF Reactions

\* So do the people who edit tarballs and stored files.
LEMMA EnvironmentTyped ==
  ASSUME TypeOK, NEW p \in Pkgs,
         TarballEdited(p) \/ \E v \in Vers : StoreModified(p, v)
  PROVE  TypeOK'
<1>1. ASSUME TarballEdited(p) PROVE TypeOK'
  <2>1. disk[p] + 1 \in Vers /\ disk' \in [Pkgs -> Vers]
    BY <1>1, RequesterConstants DEF TarballEdited, TypeOK, Vers
  <2>2. seen' \in [Calls -> SUBSET Vers]
    BY <1>1, <2>1 DEF TarballEdited, TypeOK
  <2> QED BY <1>1, <2>1, <2>2 DEF TarballEdited, TypeOK, callVars
<1>2. ASSUME NEW v \in Vers, StoreModified(p, v) PROVE TypeOK'
  <2>1. stored' \in [Pkgs -> [Vers -> {"none", "good", "modified", "foreign"}]]
    BY <1>2 DEF StoreModified, TypeOK
  <2>2. faults' \in 0..MaxFaults
    BY <1>2, RequesterConstants DEF StoreModified, TypeOK
  <2> QED BY <1>2, <2>1, <2>2 DEF StoreModified, TypeOK, callVars
<1> QED BY <1>1, <1>2

-----------------------------------------------------------------------------
\* The locker

\* What every step that does not go through fetchToStore does: calls, fetches
\* and readers go on, none is created, and what failed stays failed.
GoesOn ==
  \A c \in Calls :
    /\ phase[c] # "idle" => req'[c] = req[c]
    /\ phase'[c] # "idle" => req'[c] \in Requests
    /\ phase[c] = "fetching" => phase'[c] = "fetching"
    /\ phase[c] # "idle" => phase'[c] # "idle"
    /\ fetch'[c].st = "none" <=> fetch[c].st = "none"
    /\ wrap'[c].st = "none" <=> wrap[c].st = "none"
    /\ wrap'[c].on = wrap[c].on
    /\ react'[c] # 0 => fetch'[c].st \in Settled
    /\ fetch[c].st \in Settled => fetch'[c].st = fetch[c].st
    /\ wrap[c].st \in {"rejected", "failed"} => wrap'[c].st \in {"rejected", "failed"}

\* An entry is kept, dropped, or its promise replaced by a settled value.
LockerGoesOn ==
  \A p \in Pkgs :
    \/ locker'[p] = locker[p]
    \/ locker'[p] = NoEntry /\ FailureOf(p)'
    \/ /\ locker[p] # NoEntry /\ locker'[p] # NoEntry
       /\ locker'[p].raw = locker[p].raw
       /\ locker'[p].ref.k = "S"
       /\ locker'[p].ref.by \in Calls
       /\ fetch[locker'[p].ref.by].st = "ok" /\ Pkg(locker'[p].ref.by) = p

\* A rejection that removeKeyOnFail sees leaves no entry for the package.
DropsOnRejection ==
  \A c \in Calls :
    \/ locker'[Pkg(c)] = NoEntry
    \/ /\ fetch'[c].st = "failed" /\ react'[c] >= 1 => fetch[c].st = "failed" /\ react[c] >= 1
       /\ wrap'[c].st = "failed" => wrap[c].st = "failed"

LockerSafe == LockInv /\ NoDoomedEntry /\ EntryStays /\ FetchedOnce

\* Such a step keeps the calls, readers and entries in order.
LEMMA GoingOnKeepsOrder ==
  ASSUME TypeOK, LockInv, GoesOn, LockerGoesOn
  PROVE  LockInv'
<1>1. CallsInOrder'
  BY DEF LockInv, CallsInOrder, GoesOn, FetchSettled
<1>2. \A r \in GenRefs, p \in Pkgs :
        FetchRef(r, p) => /\ fetch'[r.by].st # "none" /\ req'[r.by].p = p
                          /\ r.k = "S" => fetch'[r.by].st = "ok"
  BY DEF GenRefs, FetchRef, GoesOn, LockInv, CallsInOrder, Pkg, Settled
<1>3. WrapsOnFetches'
  <2> SUFFICES ASSUME NEW c \in Calls, wrap'[c].st # "none"
               PROVE  wrap'[c].on \in GenRefs /\ FetchRef(wrap[c].on, Pkg(c))'
    BY DEF WrapsOnFetches
  <2>1. wrap[c].st # "none" /\ wrap'[c].on = wrap[c].on /\ req'[c] = req[c]
    BY DEF GoesOn, LockInv, CallsInOrder
  <2>2. wrap[c].on \in GenRefs /\ FetchRef(wrap[c].on, req[c].p) /\ req[c].p \in Pkgs
    BY <2>1, FetchHasRequest DEF LockInv, WrapsOnFetches, Pkg
  <2> QED BY <2>1, <2>2, <1>2 DEF FetchRef, Pkg
<1>4. EntriesOnFetches'
  <2> SUFFICES ASSUME NEW p \in Pkgs, locker'[p] # NoEntry
               PROVE  LET r == locker'[p].ref IN
                      /\ r.k # "R2" => /\ fetch'[r.by].st # "none" /\ req'[r.by].p = p
                                       /\ r.k = "S" => fetch'[r.by].st = "ok"
                      /\ r.k = "R2" => /\ locker'[p].raw /\ wrap'[r.by].st # "none"
                                       /\ req'[r.by].p = p
    BY DEF EntriesOnFetches, FetchRef, Pkg
  <2>1. CASE locker'[p] = locker[p]
    <3> DEFINE r == locker[p].ref
    <3>1. r \in Refs
      BY <2>1 DEF TypeOK, Entries
    <3>2. CASE r.k # "R2"
      <4>1. r \in GenRefs /\ FetchRef(r, p)
        BY <2>1, <3>1, <3>2 DEF Refs, GenRefs, LockInv, EntriesOnFetches
      <4> QED BY <2>1, <3>2, <4>1, <1>2
    <3>3. CASE r.k = "R2"
      <4>1. locker[p].raw /\ wrap[r.by].st # "none" /\ req[r.by].p = p /\ r.by \in Calls
        BY <2>1, <3>1, <3>3 DEF Refs, LockInv, EntriesOnFetches, Pkg
      <4>2. wrap'[r.by].st # "none" /\ req'[r.by] = req[r.by]
        BY <4>1 DEF GoesOn, LockInv, CallsInOrder
      <4> QED BY <2>1, <3>3, <4>1, <4>2
    <3> QED BY <3>2, <3>3
  <2>2. CASE locker'[p] # locker[p]
    <3>1. /\ locker'[p].ref.k = "S" /\ locker'[p].ref.by \in Calls
          /\ fetch[locker'[p].ref.by].st = "ok" /\ req[locker'[p].ref.by].p = p
      BY <2>2 DEF LockerGoesOn, Pkg
    <3>2. fetch'[locker'[p].ref.by].st = "ok" /\ req'[locker'[p].ref.by].p = p
      BY <3>1 DEF GoesOn, LockInv, CallsInOrder, Settled
    <3> QED BY <3>1, <3>2
  <2> QED BY <2>1, <2>2
<1> QED BY <1>1, <1>3, <1>4 DEF LockInv

\* Nor does it leave a doomed promise in the locker.
LEMMA GoingOnEvictsFailures ==
  ASSUME TypeOK, LockerSafe, GoesOn, LockerGoesOn, DropsOnRejection
  PROVE  NoDoomedEntry'
<1> USE DEF LockerSafe, LockInv
<1> SUFFICES ASSUME NEW p \in Pkgs, locker'[p] # NoEntry
             PROVE  LET r == locker'[p].ref IN
                    /\ ~(r.k = "R1" /\ fetch'[r.by].st = "failed" /\ react'[r.by] >= 1)
                    /\ ~(r.k = "R2" /\ wrap'[r.by].st = "failed")
                    /\ ~(/\ r.k = "R2" /\ wrap'[r.by].on.k = "R1"
                         /\ fetch'[wrap'[r.by].on.by].st = "failed"
                         /\ react'[wrap'[r.by].on.by] >= 1)
                    /\ ~(/\ r.k = "R2" /\ wrap'[r.by].on.k = "R2")
  BY DEF NoDoomedEntry, Doomed, RefFailed
<1>1. CASE locker'[p] = locker[p]
  <2> DEFINE r == locker[p].ref
  <2>1. r \in Refs /\ r.by \in Calls
    BY <1>1 DEF TypeOK, Entries, Refs
  <2>2. CASE r.k = "R1"
    <3>1. Pkg(r.by) = p
      BY <1>1, <2>2 DEF EntriesOnFetches, FetchRef
    <3>2. ~(fetch[r.by].st = "failed" /\ react[r.by] >= 1)
      BY <1>1, <2>2 DEF NoDoomedEntry, Doomed, RefFailed
    <3>3. fetch'[r.by].st = "failed" /\ react'[r.by] >= 1
            => fetch[r.by].st = "failed" /\ react[r.by] >= 1
      BY <2>1, <3>1 DEF DropsOnRejection
    <3> QED BY <1>1, <2>2, <3>2, <3>3
  <2>3. CASE r.k = "R2"
    <3> DEFINE on == wrap[r.by].on
    <3>1. Pkg(r.by) = p /\ wrap[r.by].st # "none"
      BY <1>1, <2>3 DEF EntriesOnFetches
    <3>2. on \in GenRefs /\ Pkg(on.by) = p
      BY <2>1, <3>1 DEF WrapsOnFetches, FetchRef
    <3>3. wrap[r.by].st # "failed"
          /\ ~(on.k = "R1" /\ fetch[on.by].st = "failed" /\ react[on.by] >= 1)
      BY <1>1, <2>3 DEF NoDoomedEntry, Doomed, RefFailed
    <3>4. wrap'[r.by].st = "failed" => wrap[r.by].st = "failed"
      BY <2>1, <3>1 DEF DropsOnRejection
    <3>5. fetch'[on.by].st = "failed" /\ react'[on.by] >= 1
            => fetch[on.by].st = "failed" /\ react[on.by] >= 1
      BY <3>2 DEF DropsOnRejection, GenRefs
    <3>6. wrap'[r.by].on = on
      BY <2>1 DEF GoesOn
    <3> QED BY <1>1, <2>3, <3>2, <3>3, <3>4, <3>5, <3>6 DEF GenRefs
  <2>4. CASE r.k = "S"
    BY <1>1, <2>4
  <2> QED BY <2>1, <2>2, <2>3, <2>4 DEF Refs
<1>2. CASE locker'[p] # locker[p]
  BY <1>2 DEF LockerGoesOn
<1> QED BY <1>1, <1>2

\* Nor does it fetch a package twice, or forget one without a failure.
LEMMA GoingOnFetchesOnce ==
  ASSUME TypeOK, LockerSafe, GoesOn, LockerGoesOn
  PROVE  (EntryStays /\ FetchedOnce)'
<1> USE DEF LockerSafe, LockInv
<1>1. \A c \in Calls : fetch'[c].st # "none" \/ wrap'[c].st # "none" => req'[c] = req[c]
  BY DEF GoesOn, CallsInOrder
<1>2. \A p \in Pkgs : {g \in Calls : fetch'[g].st # "none" /\ req'[g].p = p} = Fetched(p)
  BY <1>1 DEF Fetched, GoesOn, Pkg
<1>3. \A p \in Pkgs : FailureOf(p) => FailureOf(p)'
  BY <1>1 DEF FailureOf, Fetched, GoesOn, CallsInOrder, Pkg, Settled
<1>4. EntryStays'
  BY <1>2, <1>3 DEF EntryStays, LockerGoesOn, Fetched, Pkg
<1>5. FetchedOnce'
  BY <1>2, <1>3 DEF FetchedOnce, Fetched, Pkg
<1> QED BY <1>4, <1>5

\* The call is about to enter fetchToStore with request o.
Enters(c, o) ==
  /\ phase[c] \in {"idle", "resolving"}
  /\ o \in Requests /\ req' = [req EXCEPT ![c] = o]
  /\ UNCHANGED react

\* A call that creates an entry: the fetch and the entry are its own.
LEMMA CreatingIsSafe ==
  ASSUME TypeOK, LockerSafe, NEW c \in Calls, NEW o, NEW v, NEW force \in BOOLEAN,
         Enters(c, o), FetchToStore(c, o, v, force), locker[o.p] = NoEntry
  PROVE  LockerSafe'
<1> USE DEF LockerSafe, LockInv
<1> DEFINE mine == [k |-> "R1", by |-> c]
           s == FirstStep(o.p, force)
<1>1. fetch[c].st = "none" /\ wrap[c].st = "none" /\ react[c] = 0
  BY DEF Enters, CallsInOrder, FetchSettled, Settled
<1>2. s \in {"queued", "checkTarball", "readStore"}
  BY DEF FirstStep
<1>3. /\ phase' = [phase EXCEPT ![c] = "fetching"] /\ UNCHANGED <<wrap, react>>
      /\ fetch' = [fetch EXCEPT ![c].st = s]
      /\ locker' = [locker EXCEPT ![o.p] = [gen |-> c, ref |-> mine, raw |-> WantsManifest(o)]]
  BY DEF FetchToStore, Enters
<1>4. req'[c] = o /\ o \in Requests /\ o.p \in Pkgs /\ \A d \in Calls \ {c} : req'[d] = req[d]
  BY DEF Enters, TypeOK, Requests
<1> HIDE DEF s
<1>5. fetch'[c].st = s /\ \A d \in Calls \ {c} : fetch'[d] = fetch[d]
  BY <1>3 DEF TypeOK, Fetches
<1>6. locker'[o.p] # NoEntry /\ locker'[o.p].ref = mine /\ \A p \in Pkgs \ {o.p} : locker'[p] = locker[p]
  <2> DEFINE entry == [gen |-> c, ref |-> mine, raw |-> WantsManifest(o)]
  <2>1. entry \in Entries /\ NoEntry \notin Entries
    BY Sentinels DEF Entries, Refs, WantsManifest, Enters, Requests
  <2>2. entry # NoEntry /\ entry.ref = mine
    BY <2>1
  <2> QED BY <1>3, <1>4, <2>2 DEF TypeOK
<1>7. phase'[c] = "fetching" /\ \A d \in Calls \ {c} : phase'[d] = phase[d]
  BY <1>3 DEF TypeOK
<1>8. CallsInOrder'
  BY <1>1, <1>3, <1>4, <1>5, <1>7 DEF CallsInOrder, FetchSettled
<1>9. \A r \in GenRefs, p \in Pkgs :
        FetchRef(r, p) => /\ fetch'[r.by].st # "none" /\ req'[r.by].p = p
                          /\ r.k = "S" => fetch'[r.by].st = "ok"
  BY <1>1, <1>4, <1>5 DEF GenRefs, FetchRef, Pkg
<1>10. WrapsOnFetches'
  <2> SUFFICES ASSUME NEW d \in Calls, wrap[d].st # "none"
               PROVE  wrap[d].on \in GenRefs
                      /\ fetch'[wrap[d].on.by].st # "none" /\ req'[wrap[d].on.by].p = req'[d].p
                      /\ (wrap[d].on.k = "S" => fetch'[wrap[d].on.by].st = "ok")
    BY <1>3 DEF WrapsOnFetches, FetchRef, Pkg
  <2>1. d # c /\ req'[d] = req[d] /\ req[d].p \in Pkgs
    BY <1>1, <1>4, FetchHasRequest DEF Pkg
  <2> QED BY <2>1, <1>9 DEF WrapsOnFetches, Pkg
<1>11. EntriesOnFetches' /\ NoDoomedEntry'
  <2> SUFFICES ASSUME NEW p \in Pkgs, locker'[p] # NoEntry
               PROVE  LET r == locker'[p].ref IN
                      /\ r.k # "R2" => /\ fetch'[r.by].st # "none" /\ req'[r.by].p = p
                                       /\ r.k = "S" => fetch'[r.by].st = "ok"
                      /\ r.k = "R2" => /\ locker'[p].raw /\ wrap'[r.by].st # "none"
                                       /\ req'[r.by].p = p
                      /\ ~(r.k = "R1" /\ fetch'[r.by].st = "failed" /\ react'[r.by] >= 1)
                      /\ ~(r.k = "R2" /\ wrap'[r.by].st = "failed")
                      /\ ~(/\ r.k = "R2" /\ wrap'[r.by].on.k = "R1"
                           /\ fetch'[wrap'[r.by].on.by].st = "failed"
                           /\ react'[wrap'[r.by].on.by] >= 1)
                      /\ ~(/\ r.k = "R2" /\ wrap'[r.by].on.k = "R2")
    BY DEF EntriesOnFetches, NoDoomedEntry, Doomed, RefFailed, FetchRef, Pkg
  <2>1. CASE p = o.p
    BY <2>1, <1>2, <1>4, <1>5, <1>6
  <2>2. CASE p # o.p
    <3> DEFINE r == locker[p].ref
    <3>1. locker'[p] = locker[p] /\ r \in Refs /\ r.by \in Calls
      BY <1>6, <2>2 DEF TypeOK, Entries, Refs
    <3>2. CASE r.k # "R2"
      <4>1. r \in GenRefs /\ FetchRef(r, p) /\ r.by # c
        BY <1>1, <3>1, <3>2 DEF EntriesOnFetches, Refs, GenRefs, FetchRef
      <4>2. ~(r.k = "R1" /\ fetch[r.by].st = "failed" /\ react[r.by] >= 1)
        BY <3>1 DEF NoDoomedEntry, Doomed, RefFailed
      <4>3. locker'[p].ref = r /\ react'[r.by] = react[r.by]
        BY <1>3, <3>1
      <4>4. fetch'[r.by] = fetch[r.by]
        BY <1>5, <3>1, <4>1
      <4>5. fetch'[r.by].st # "none" /\ req'[r.by].p = p /\ (r.k = "S" => fetch'[r.by].st = "ok")
        BY <1>9, <4>1
      <4>6. ~(r.k = "R1" /\ fetch'[r.by].st = "failed" /\ react'[r.by] >= 1)
        BY <4>2, <4>3, <4>4
      <4> HIDE DEF r
      <4> QED BY <3>2, <4>3, <4>5, <4>6
    <3>3. CASE r.k = "R2"
      <4> DEFINE on == wrap[r.by].on
      <4>1. locker[p].raw /\ wrap[r.by].st # "none" /\ Pkg(r.by) = p /\ r.by # c
        BY <1>1, <3>1, <3>3 DEF EntriesOnFetches
      <4>2. on \in GenRefs /\ fetch[on.by].st # "none" /\ on.by # c
        BY <1>1, <3>1, <4>1 DEF WrapsOnFetches, FetchRef
      <4>3. wrap[r.by].st # "failed"
            /\ ~(on.k = "R1" /\ fetch[on.by].st = "failed" /\ react[on.by] >= 1)
        BY <3>1, <3>3 DEF NoDoomedEntry, Doomed, RefFailed
      <4>4. fetch'[on.by] = fetch[on.by] /\ react'[on.by] = react[on.by]
        BY <1>3, <1>5, <4>2 DEF GenRefs
      <4>5. locker'[p].ref = r /\ locker'[p].raw
        BY <3>1, <4>1
      <4>6. wrap'[r.by].st = wrap[r.by].st /\ wrap'[r.by].on = on
        BY <1>3
      <4>7. req'[r.by].p = p
        BY <1>4, <3>1, <4>1 DEF Pkg
      <4>8. on.k # "R2"
        BY <4>2 DEF GenRefs
      <4>9. ~(on.k = "R1" /\ fetch'[on.by].st = "failed" /\ react'[on.by] >= 1)
        BY <4>3, <4>4
      <4> HIDE DEF on, r
      <4> QED BY <3>3, <4>1, <4>3, <4>5, <4>6, <4>7, <4>8, <4>9
    <3> QED BY <3>2, <3>3
  <2> QED BY <2>1, <2>2
<1>12. \A p \in Pkgs : FailureOf(p) => FailureOf(p)'
  BY <1>1, <1>3, <1>4, <1>5 DEF FailureOf, Fetched, Pkg
<1>13. \A p \in Pkgs \ {o.p}, g \in Calls :
         fetch'[g].st # "none" /\ req'[g].p = p <=> g \in Fetched(p)
  BY <1>1, <1>4, <1>5 DEF Fetched, Pkg
<1>14. EntryStays'
  BY <1>6, <1>12, <1>13 DEF EntryStays, Fetched, Pkg
<1>15. FetchedOnce'
  <2> SUFFICES ASSUME NEW p \in Pkgs, ~FailureOf(p)', NEW g \in Calls, NEW h \in Calls,
                      fetch'[g].st # "none", req'[g].p = p,
                      fetch'[h].st # "none", req'[h].p = p
               PROVE  g = h
    BY DEF FetchedOnce, Fetched, Pkg
  <2>1. CASE p # o.p
    BY <2>1, <1>12, <1>13 DEF FetchedOnce
  <2>2. CASE p = o.p
    <3>1. Fetched(o.p) = {}
      BY <1>4, <1>12, <2>2 DEF EntryStays
    <3> QED BY <3>1, <1>4, <1>5, <2>2 DEF Fetched, Pkg
  <2> QED BY <2>1, <2>2
<1> QED BY <1>8, <1>10, <1>11, <1>14, <1>15

\* A call that joins an entry, and wraps it if it is the first to want the
\* manifest: it joins no promise that is bound to fail.
LEMMA JoiningIsSafe ==
  ASSUME TypeOK, LockerSafe, NEW c \in Calls, NEW o, NEW v, NEW force \in BOOLEAN,
         Enters(c, o), FetchToStore(c, o, v, force), locker[o.p] # NoEntry
  PROVE  LockerSafe'
<1> USE DEF LockerSafe, LockInv
<1> DEFINE e == locker[o.p]
           reader == [k |-> "R2", by |-> c]
           wraps == WantsManifest(o) /\ ~e.raw
<1>1. fetch[c].st = "none" /\ wrap[c].st = "none" /\ react[c] = 0
  BY DEF Enters, CallsInOrder, FetchSettled, Settled
<1>2. phase' = [phase EXCEPT ![c] = "fetching"] /\ UNCHANGED <<fetch, react>>
  BY DEF FetchToStore, Enters
<1>3. req'[c] = o /\ o \in Requests /\ o.p \in Pkgs /\ \A d \in Calls \ {c} : req'[d] = req[d]
  BY DEF Enters, TypeOK, Requests
<1>4. e \in Entries /\ NoEntry \notin Entries
  BY <1>3, Sentinels DEF TypeOK, Entries, Refs
<1>5. \/ UNCHANGED <<wrap, locker>>
      \/ /\ wraps
         /\ wrap' = [wrap EXCEPT ![c] = [on |-> e.ref, st |-> "pending"]]
         /\ locker' = [locker EXCEPT ![o.p] = [e EXCEPT !.ref = reader, !.raw = TRUE]]
  BY DEF FetchToStore
<1>6. \A d \in Calls \ {c} : wrap'[d] = wrap[d]
  BY <1>5 DEF TypeOK
<1>7. \/ UNCHANGED <<wrap, locker>>
      \/ /\ ~e.raw /\ wrap'[c] = [on |-> e.ref, st |-> "pending"]
         /\ locker'[o.p] # NoEntry /\ locker'[o.p].ref = reader /\ locker'[o.p].raw
         /\ \A p \in Pkgs \ {o.p} : locker'[p] = locker[p]
  <2> DEFINE entry == [e EXCEPT !.ref = reader, !.raw = TRUE]
  <2>1. entry \in Entries /\ entry.ref = reader /\ entry.raw
    BY <1>4 DEF Entries, Refs
  <2>2. CASE wrap' = [wrap EXCEPT ![c] = [on |-> e.ref, st |-> "pending"]]
             /\ locker' = [locker EXCEPT ![o.p] = entry] /\ ~e.raw
    <3>1. wrap'[c] = [on |-> e.ref, st |-> "pending"]
      BY <2>2 DEF TypeOK
    <3> HIDE DEF entry
    <3>2. locker'[o.p] = entry /\ \A p \in Pkgs \ {o.p} : locker'[p] = locker[p]
      BY <1>3, <2>2 DEF TypeOK
    <3> QED BY <1>4, <2>1, <2>2, <3>1, <3>2
  <2> QED BY <1>5, <2>2
<1>8. phase'[c] = "fetching" /\ \A d \in Calls \ {c} : phase'[d] = phase[d]
  BY <1>2 DEF TypeOK
<1>9. CallsInOrder'
  BY <1>1, <1>2, <1>3, <1>6, <1>8 DEF CallsInOrder, FetchSettled
<1>10. \A r \in GenRefs, p \in Pkgs :
        FetchRef(r, p) => /\ fetch'[r.by].st # "none" /\ req'[r.by].p = p
                          /\ r.k = "S" => fetch'[r.by].st = "ok"
  BY <1>1, <1>2, <1>3 DEF GenRefs, FetchRef, Pkg
<1>11. ~e.raw => e.ref \in GenRefs /\ FetchRef(e.ref, o.p)
  BY <1>3, <1>4 DEF EntriesOnFetches, Entries, Refs, GenRefs
<1>12. WrapsOnFetches'
  <2> SUFFICES ASSUME NEW d \in Calls, wrap'[d].st # "none"
               PROVE  wrap'[d].on \in GenRefs
                      /\ fetch'[wrap'[d].on.by].st # "none" /\ req'[wrap'[d].on.by].p = req'[d].p
                      /\ (wrap'[d].on.k = "S" => fetch'[wrap'[d].on.by].st = "ok")
    BY DEF WrapsOnFetches, FetchRef, Pkg
  <2>1. CASE d = c
    BY <2>1, <1>1, <1>3, <1>7, <1>10, <1>11
  <2>2. CASE d # c
    <3>1. wrap'[d] = wrap[d] /\ req'[d] = req[d] /\ wrap[d].st # "none" /\ req[d].p \in Pkgs
      BY <1>3, <1>6, <2>2, FetchHasRequest DEF Pkg
    <3> QED BY <3>1, <1>10 DEF WrapsOnFetches, Pkg
  <2> QED BY <2>1, <2>2
<1>13. EntriesOnFetches' /\ NoDoomedEntry'
  <2> SUFFICES ASSUME NEW p \in Pkgs, locker'[p] # NoEntry
               PROVE  LET r == locker'[p].ref IN
                      /\ r.k # "R2" => /\ fetch'[r.by].st # "none" /\ req'[r.by].p = p
                                       /\ r.k = "S" => fetch'[r.by].st = "ok"
                      /\ r.k = "R2" => /\ locker'[p].raw /\ wrap'[r.by].st # "none"
                                       /\ req'[r.by].p = p
                      /\ ~(r.k = "R1" /\ fetch'[r.by].st = "failed" /\ react'[r.by] >= 1)
                      /\ ~(r.k = "R2" /\ wrap'[r.by].st = "failed")
                      /\ ~(/\ r.k = "R2" /\ wrap'[r.by].on.k = "R1"
                           /\ fetch'[wrap'[r.by].on.by].st = "failed"
                           /\ react'[wrap'[r.by].on.by] >= 1)
                      /\ ~(/\ r.k = "R2" /\ wrap'[r.by].on.k = "R2")
    BY DEF EntriesOnFetches, NoDoomedEntry, Doomed, RefFailed, FetchRef, Pkg
  <2>1. CASE p = o.p /\ locker' # locker
    <3>1. e.ref \in GenRefs /\ ~Doomed(e.ref)
      BY <1>3, <1>7, <1>11, <2>1 DEF NoDoomedEntry
    <3>2. locker'[p].ref = reader /\ locker'[p].raw /\ wrap'[c] = [on |-> e.ref, st |-> "pending"]
      BY <1>7, <2>1
    <3>3. ~(e.ref.k = "R1" /\ fetch'[e.ref.by].st = "failed" /\ react'[e.ref.by] >= 1)
      BY <3>1, <1>2 DEF Doomed, RefFailed
    <3> QED BY <1>3, <2>1, <3>1, <3>2, <3>3 DEF GenRefs
  <2>2. CASE ~(p = o.p /\ locker' # locker)
    <3> DEFINE r == locker[p].ref
    <3>1. locker'[p] = locker[p] /\ r \in Refs /\ r.by \in Calls
      BY <1>7, <2>2 DEF TypeOK, Entries, Refs
    <3>2. CASE r.k # "R2"
      <4>1. r \in GenRefs /\ FetchRef(r, p)
        BY <3>1, <3>2 DEF EntriesOnFetches, Refs, GenRefs
      <4>2. ~(r.k = "R1" /\ fetch[r.by].st = "failed" /\ react[r.by] >= 1)
        BY <3>1 DEF NoDoomedEntry, Doomed, RefFailed
      <4> QED BY <1>2, <1>10, <3>1, <3>2, <4>1, <4>2
    <3>3. CASE r.k = "R2"
      <4> DEFINE on == wrap[r.by].on
      <4>1. locker[p].raw /\ wrap[r.by].st # "none" /\ Pkg(r.by) = p /\ r.by # c
        BY <1>1, <3>1, <3>3 DEF EntriesOnFetches
      <4>2. on \in GenRefs
        BY <3>1, <4>1 DEF WrapsOnFetches
      <4>3. wrap[r.by].st # "failed"
            /\ ~(on.k = "R1" /\ fetch[on.by].st = "failed" /\ react[on.by] >= 1)
        BY <3>1, <3>3 DEF NoDoomedEntry, Doomed, RefFailed
      <4>4. wrap'[r.by] = wrap[r.by] /\ req'[r.by] = req[r.by]
        BY <1>3, <1>6, <3>1, <4>1
      <4> QED BY <1>2, <3>1, <3>3, <4>1, <4>2, <4>3, <4>4 DEF Pkg, GenRefs
    <3> QED BY <3>2, <3>3
  <2> QED BY <2>1, <2>2
<1>14. \A p \in Pkgs : FailureOf(p) => FailureOf(p)'
  BY <1>1, <1>2, <1>3, <1>6 DEF FailureOf, Fetched, Pkg
<1>15. \A p \in Pkgs, g \in Calls :
         fetch'[g].st # "none" /\ req'[g].p = p <=> g \in Fetched(p)
  BY <1>1, <1>2, <1>3 DEF Fetched, Pkg
<1>16. EntryStays'
  BY <1>7, <1>14, <1>15 DEF EntryStays, Fetched, Pkg
<1>17. FetchedOnce'
  BY <1>14, <1>15 DEF FetchedOnce, Fetched, Pkg
<1> QED BY <1>9, <1>12, <1>13, <1>16, <1>17

\* The three lemmas about steps that go on, in one.
LEMMA GoingOnIsSafe ==
  ASSUME TypeOK, LockerSafe, GoesOn, LockerGoesOn, DropsOnRejection
  PROVE  LockerSafe'
BY GoingOnKeepsOrder, GoingOnEvictsFailures, GoingOnFetchesOnce DEF LockerSafe

\* A step that leaves fetches, readers and the locker alone is safe.
LEMMA IdleLockerIsSafe ==
  ASSUME TypeOK, LockerSafe, UNCHANGED <<locker, fetch, react, wrap>>,
         \A c \in Calls : /\ phase[c] # "idle" => req'[c] = req[c]
                          /\ phase'[c] # "idle" => req'[c] \in Requests
                          /\ phase[c] = "fetching" => phase'[c] = "fetching"
                          /\ phase[c] # "idle" => phase'[c] # "idle"
  PROVE  LockerSafe'
<1>1. GoesOn
  BY DEF GoesOn, LockerSafe, LockInv, CallsInOrder, FetchSettled
<1>2. LockerGoesOn /\ DropsOnRejection
  BY DEF LockerGoesOn, DropsOnRejection
<1> QED BY <1>1, <1>2, GoingOnIsSafe

\* What a call does is safe.
LEMMA CallSafe ==
  ASSUME TypeOK, LockerSafe, NEW c \in Calls,
         (\E o \in Menu : Request(c, o)) \/ StartResolve(c) \/ Resolving(c)
  PROVE  LockerSafe'
<1>1. \A d \in Calls : phase[d] # "idle" => req[d] \in Requests
  BY DEF LockerSafe, LockInv, CallsInOrder
<1>2. ASSUME NEW o \in Menu, Request(c, o) PROVE LockerSafe'
  <2>1. Enters(c, o)
    BY <1>2, RequesterConstants DEF Request, Enters
  <2>2. CASE FetchToStore(c, o, o.ver, o.via = "fetchPackageToStore" /\ o.force)
    <3>1. (o.via = "fetchPackageToStore" /\ o.force) \in BOOLEAN
      OBVIOUS
    <3> QED BY <2>1, <2>2, <3>1, CreatingIsSafe, JoiningIsSafe
  <2>3. CASE UNCHANGED <<locker, fetch, wrap>>
             /\ \E s \in {"resolveQueued", "failed"} : phase' = [phase EXCEPT ![c] = s]
    BY <1>1, <1>2, <2>1, <2>3, IdleLockerIsSafe DEF Request, Enters, TypeOK
  <2> QED BY <1>2, <2>2, <2>3 DEF Request
<1>3. ASSUME Resolved(c) PROVE LockerSafe'
  <2>1. CASE FetchToStore(c, req[c], ResolvedVer(req[c].p), ForceFetch(req[c]))
    <3>1. Enters(c, req[c])
      BY <1>1, <1>3 DEF Resolved, Enters, TypeOK
    <3>2. ForceFetch(req[c]) \in BOOLEAN
      BY DEF ForceFetch
    <3> QED BY <2>1, <3>1, <3>2, CreatingIsSafe, JoiningIsSafe
  <2>2. CASE UNCHANGED <<locker, fetch, wrap>>
             /\ \E s \in {"returned", "failed"} : phase' = [phase EXCEPT ![c] = s]
    BY <1>1, <1>3, <2>2, IdleLockerIsSafe DEF Resolved, TypeOK
  <2> QED BY <1>3, <2>1, <2>2 DEF Resolved
<1>4. ASSUME StartResolve(c) \/ ResolveFailed(c) PROVE LockerSafe'
  BY <1>1, <1>4, IdleLockerIsSafe DEF StartResolve, ResolveFailed, TypeOK
<1> QED BY <1>2, <1>3, <1>4 DEF Resolving

\* A fetch that is not settled moves on; the locker is not touched.
LEMMA FetchSafe ==
  ASSUME TypeOK, LockerSafe, NEW g \in Calls, FetchIO(g) \/ StartFetch(g)
  PROVE  LockerSafe'
<1>1. /\ UNCHANGED <<phase, req, locker, react, wrap>>
      /\ fetch[g].st \notin {"none", "ok", "failed"}
  BY DEF FetchIO, CheckTarball, ReadStore, FetchOk, RecordIntegrity, IntegrityMismatch,
         FetchFailed, StartFetch, callVars
<1>2. fetch \in [Calls -> Fetches]
  BY DEF TypeOK
<1>3. \A d \in Calls \ {g} : fetch'[d] = fetch[d]
  BY <1>2 DEF FetchIO, CheckTarball, ReadStore, FetchOk, RecordIntegrity,
         IntegrityMismatch, FetchFailed, StartFetch
<1>4. fetch'[g].st # "none"
  <2>1. CASE CheckTarball(g)
    BY <2>1, <1>2 DEF CheckTarball, Fetches
  <2>2. CASE ReadStore(g)
    BY <2>2, <1>2 DEF ReadStore, Fetches
  <2>3. CASE FetchOk(g)
    BY <2>3, <1>2 DEF FetchOk, Fetches
  <2>4. CASE RecordIntegrity(g) \/ IntegrityMismatch(g) \/ FetchFailed(g) \/ StartFetch(g)
    BY <2>4, <1>2 DEF RecordIntegrity, IntegrityMismatch, FetchFailed, StartFetch, Fetches
  <2> QED BY <2>1, <2>2, <2>3, <2>4 DEF FetchIO
<1>5. react[g] = 0
  BY <1>1 DEF LockerSafe, LockInv, CallsInOrder, FetchSettled, Settled
<1>6. GoesOn
  BY <1>1, <1>3, <1>4, <1>5 DEF GoesOn, LockerSafe, LockInv, CallsInOrder, FetchSettled, Settled
<1>7. LockerGoesOn /\ DropsOnRejection
  BY <1>1, <1>3, <1>5 DEF LockerGoesOn, DropsOnRejection
<1> QED BY <1>6, <1>7, GoingOnIsSafe

\* removeKeyOnFail over the fetch, and the catch of lines 406-408: a failed
\* fetch takes the key with it.
LEMMA FetchReactionSafe ==
  ASSUME TypeOK, LockerSafe, NEW g \in Calls, ReactR1(g) \/ ReactC(g)
  PROVE  LockerSafe'
<1>1. UNCHANGED <<phase, req, fetch, wrap>> /\ fetch[g].st \in Settled
  BY DEF ReactR1, ReactC, callVars, FetchSettled, Settled
<1>2. /\ \A d \in Calls \ {g} : react'[d] = react[d]
      /\ locker' = IF fetch[g].st = "failed" THEN [locker EXCEPT ![Pkg(g)] = NoEntry] ELSE locker
  BY DEF ReactR1, ReactC, TypeOK
<1>3. Pkg(g) \in Pkgs
  BY <1>1, FetchHasRequest DEF Settled, LockerSafe, LockInv
<1>4. GoesOn
  BY <1>1, <1>2 DEF GoesOn, LockerSafe, LockInv, CallsInOrder, FetchSettled
<1>5. fetch[g].st = "failed" => FailureOf(Pkg(g))'
  BY <1>1 DEF FailureOf, Fetched, Pkg
<1>6. fetch[g].st = "failed" => locker'[Pkg(g)] = NoEntry
  BY <1>2, <1>3 DEF TypeOK
<1>7. LockerGoesOn
  <2> SUFFICES ASSUME NEW p \in Pkgs, locker'[p] # locker[p]
               PROVE  locker'[p] = NoEntry /\ FailureOf(p)'
    BY DEF LockerGoesOn
  <2>1. fetch[g].st = "failed" /\ p = req[g].p
    BY <1>2 DEF TypeOK, Pkg
  <2>2. \E h \in Calls : fetch'[h].st = "failed" /\ req'[h].p = p
    BY <1>1, <2>1
  <2>3. FailureOf(p)'
    BY <2>2 DEF FailureOf, Fetched, Pkg
  <2> QED BY <1>6, <2>1, <2>3 DEF Pkg
<1>8. DropsOnRejection
  BY <1>1, <1>2, <1>6 DEF DropsOnRejection
<1> QED BY <1>4, <1>7, <1>8, GoingOnIsSafe

\* The then() that replaces a remote result keeps the entry, of its package.
LEMMA StoreReactionSafe ==
  ASSUME TypeOK, LockerSafe, NEW g \in Calls, ReactS(g)
  PROVE  LockerSafe'
<1> DEFINE cached == [locker[Pkg(g)] EXCEPT !.ref = [k |-> "S", by |-> g]]
<1>1. UNCHANGED <<phase, req, fetch, wrap>> /\ fetch[g].st = "ok"
  BY DEF ReactS, callVars
<1>2. \A d \in Calls \ {g} : react'[d] = react[d]
  BY DEF ReactS, TypeOK
<1>3. Pkg(g) \in Pkgs
  BY <1>1, FetchHasRequest DEF LockerSafe, LockInv
<1>4. GoesOn
  BY <1>1, <1>2 DEF GoesOn, LockerSafe, LockInv, CallsInOrder, FetchSettled, Settled
<1>5. locker[Pkg(g)] # NoEntry => /\ cached # NoEntry /\ cached.raw = locker[Pkg(g)].raw
                                  /\ cached.ref.k = "S" /\ cached.ref.by = g
  <2>1. NoEntry \notin Entries
    BY Sentinels DEF Entries, Refs
  <2>2. locker[Pkg(g)] # NoEntry => locker[Pkg(g)] \in Entries
    BY <1>3 DEF TypeOK
  <2>3. locker[Pkg(g)] # NoEntry => cached \in Entries
    BY <2>2 DEF Entries, Refs
  <2> QED BY <2>1, <2>2, <2>3 DEF Entries
<1>6. LockerGoesOn
  <2> SUFFICES ASSUME NEW p \in Pkgs, locker'[p] # locker[p]
               PROVE  /\ locker[p] # NoEntry /\ locker'[p] # NoEntry
                      /\ locker'[p].raw = locker[p].raw
                      /\ locker'[p].ref.k = "S"
                      /\ locker'[p].ref.by \in Calls
                      /\ fetch[locker'[p].ref.by].st = "ok" /\ req[locker'[p].ref.by].p = p
    BY DEF LockerGoesOn, Pkg
  <2>1. locker[Pkg(g)] # NoEntry /\ locker' = [locker EXCEPT ![Pkg(g)] = cached]
    BY DEF ReactS
  <2> HIDE DEF cached
  <2>2. p = Pkg(g) /\ locker'[p] = cached
    BY <1>3, <2>1 DEF TypeOK
  <2> QED BY <1>1, <1>5, <2>1, <2>2 DEF Pkg
<1>7. DropsOnRejection
  BY <1>1, <1>2 DEF DropsOnRejection
<1> QED BY <1>4, <1>6, <1>7, GoingOnIsSafe

\* A manifest reader moves on, and takes the key with it when it fails.
LEMMA ReaderSafe ==
  ASSUME TypeOK, LockerSafe, NEW c \in Calls,
         ReactWrap(c) \/ ReadManifest(c) \/ ReactR2(c)
  PROVE  LockerSafe'
<1>1. UNCHANGED <<phase, req, fetch, react>> /\ wrap[c].st \in {"pending", "reading", "rejected"}
  BY DEF ReactWrap, ReadManifest, ReactR2, callVars, WrapParentSettled
<1>2. \E s \in {"reading", "rejected", "ok", "failed"} :
        /\ wrap' = [wrap EXCEPT ![c].st = s]
        /\ wrap[c].st = "rejected" => s = "failed"
        /\ s = "failed" => ReactR2(c)
  BY DEF ReactWrap, ReadManifest, ReactR2, WrapParentSettled
<1>3. /\ \A d \in Calls \ {c} : wrap'[d] = wrap[d]
      /\ wrap'[c].st \in {"reading", "rejected", "ok", "failed"} /\ wrap'[c].on = wrap[c].on
      /\ wrap[c].st = "rejected" => wrap'[c].st = "failed"
      /\ wrap'[c].st = "failed" => ReactR2(c)
  BY <1>2 DEF TypeOK, Wraps
<1>4. Pkg(c) \in Pkgs
  BY <1>1, FetchHasRequest DEF LockerSafe, LockInv
<1>5. GoesOn
  BY <1>1, <1>3 DEF GoesOn, LockerSafe, LockInv, CallsInOrder, FetchSettled
<1>6. ReactR2(c) => wrap'[c].st = "failed" /\ locker'[req[c].p] = NoEntry
                    /\ \A p \in Pkgs \ {req[c].p} : locker'[p] = locker[p]
  BY <1>3, <1>4 DEF ReactR2, TypeOK, Pkg
<1>7. ~ReactR2(c) => UNCHANGED locker
  BY DEF ReactWrap, ReadManifest
<1>8. LockerGoesOn
  <2> SUFFICES ASSUME NEW p \in Pkgs, locker'[p] # locker[p]
               PROVE  locker'[p] = NoEntry /\ FailureOf(p)'
    BY DEF LockerGoesOn
  <2>1. p = req[c].p /\ locker'[p] = NoEntry /\ wrap'[c].st = "failed"
    BY <1>6, <1>7
  <2>2. \E d \in Calls : wrap'[d].st = "failed" /\ req'[d].p = p
    BY <1>1, <2>1
  <2> QED BY <2>1, <2>2 DEF FailureOf, Pkg
<1>9. DropsOnRejection
  BY <1>1, <1>3, <1>6 DEF DropsOnRejection, Pkg
<1> QED BY <1>5, <1>8, <1>9, GoingOnIsSafe

-----------------------------------------------------------------------------
\* What a promise resolves to

\* The promise behind r: what its manifest reader was wrapped over.
Base(r) == IF r.k = "R2" THEN wrap[r.by].on ELSE r

\* r is a promise over a fetch of p; its value says "store" in the place of
\* "remote" only.
Held(r, p) ==
  /\ r \in Refs
  /\ r.k # "R2" => FetchRef(r, p)
  /\ r.k = "R2" => wrap[r.by].st # "none" /\ Pkg(r.by) = p
  /\ Base(r).k = "S" => fetch[Base(r).by].from = "remote"

\* The promise comes with the manifest.
HasRaw(r) == r.k = "R1" => WantsManifest(req[r.by])

\* After the reactions, it does not say "remote".
Reused(r) ==
  LET b == Base(r) IN
  b.k = "R1" /\ react[b.by] = 2 /\ fetch[b.by].st = "ok" => fetch[b.by].from # "remote"

CallsHold ==
  \A c \in Calls :
    /\ late[c] => phase[c] = "fetching"
    /\ phase[c] = "fetching" =>
         /\ Held(ref[c], Pkg(c))
         /\ WantsManifest(req[c]) => HasRaw(ref[c])
         /\ late[c] => react[Base(ref[c]).by] = 2 /\ Reused(ref[c])

LockerHolds ==
  \A p \in Pkgs : locker[p] # NoEntry =>
    /\ Held(locker[p].ref, p)
    /\ locker[p].raw => HasRaw(locker[p].ref)
    /\ Reused(locker[p].ref)

\* The manifest is read when there is a fetch to read it of.
ReadersRead == \A c \in Calls : wrap[c].st \in {"reading", "ok"} => fetch[wrap[c].on.by].st = "ok"

\* A fetch that was asked for the manifest, or that ran the fetcher, has it.
ManifestsRead ==
  \A g \in Calls :
    /\ fetch[g].st \in {"recording", "ok"} /\ Pkg(g) \in HasManifest
    /\ WantsManifest(req[g]) \/ fetch[g].from # "store"
    => fetch[g].man

\* The tarball on disk is among those seen, and so is the wanted one once the
\* fetch has compared them.
TarballsSeen ==
  \A g \in Calls : Kind[Pkg(g)] = "tarball" =>
    /\ fetch[g].st \notin {"none"} \cup Settled => disk[Pkg(g)] \in seen[g]
    /\ fetch[g].st \in {"readStore", "recording", "ok"} => want[g] \in seen[g]

ResultInv == CallsHold /\ LockerHolds /\ ReadersRead /\ ManifestsRead /\ TarballsSeen

\* What every step does: a fetch and a reader stay what they are, a result is
\* never changed.
Persists ==
  \A c \in Calls :
    /\ fetch[c].st # "none" => fetch'[c].st # "none" /\ req'[c] = req[c]
    /\ fetch[c].st \in Settled => fetch'[c] = fetch[c]
    /\ wrap[c].st # "none" => wrap'[c].st # "none" /\ wrap'[c].on = wrap[c].on /\ req'[c] = req[c]

\* What every step does in which no call enters fetchToStore.
HoldersGoOn ==
  /\ \A c \in Calls :
       /\ late'[c] = late[c] /\ (phase[c] = "fetching" => phase'[c] = "fetching")
       /\ phase'[c] = "fetching" => phase[c] = "fetching" /\ ref'[c] = ref[c] /\ req'[c] = req[c]
  /\ \A p \in Pkgs :
       \/ locker'[p] = locker[p]
       \/ locker'[p] = NoEntry
       \/ /\ locker[p] # NoEntry /\ locker'[p].ref \in Refs /\ locker'[p].ref.k = "S"
          /\ fetch[locker'[p].ref.by].st = "ok" /\ fetch[locker'[p].ref.by].from = "remote"
          /\ Pkg(locker'[p].ref.by) = p
  /\ \A g \in Calls : react[g] = 2 => react'[g] = 2
  /\ \A g \in Calls : react'[g] = 2 =>
       \/ react[g] = 2 \/ fetch'[g].st # "ok" \/ fetch'[g].from # "remote"
       \/ locker'[Pkg(g)] = NoEntry \/ locker'[Pkg(g)].ref.k = "S"

\* A promise that is held stands over the same fetch, with the same result.
LEMMA PromisesPersist ==
  ASSUME TypeOK, LockInv, Persists, NEW r, NEW p, Held(r, p)
  PROVE  /\ r.k # "R2" => /\ fetch'[r.by].st # "none" /\ req'[r.by].p = p
                          /\ r.k = "S" => fetch'[r.by].st = "ok"
                          /\ WantsManifest(req[r.by]) => WantsManifest(req'[r.by])
         /\ r.k = "R2" => wrap'[r.by].st # "none" /\ req'[r.by].p = p /\ wrap'[r.by].on = wrap[r.by].on
         /\ Base(r) \in GenRefs /\ fetch[Base(r).by].st # "none" /\ Pkg(Base(r).by) = p
         /\ Base(r).k = "S" => fetch'[Base(r).by].from = "remote"
         /\ fetch[Base(r).by].st \in Settled => fetch'[Base(r).by] = fetch[Base(r).by]
<1>1. r.by \in Calls
  BY DEF Held, Refs
<1>2. CASE r.k # "R2"
  <2>1. r \in GenRefs /\ FetchRef(r, p) /\ Base(r) = r
    BY <1>2 DEF Held, Refs, GenRefs, Base
  <2>2. r.k = "S" => fetch[r.by].st = "ok" /\ fetch[r.by].from = "remote" /\ fetch'[r.by] = fetch[r.by]
    BY <1>1, <2>1 DEF FetchRef, Held, Persists, Settled
  <2> QED BY <1>1, <1>2, <2>1, <2>2 DEF Persists, FetchRef, Pkg
<1>3. CASE r.k = "R2"
  <2>1. wrap[r.by].st # "none" /\ Pkg(r.by) = p /\ Base(r) = wrap[r.by].on
    BY <1>3 DEF Held, Base
  <2>2. Base(r) \in GenRefs /\ FetchRef(Base(r), p)
    BY <1>1, <2>1 DEF LockInv, WrapsOnFetches
  <2>3. Base(r).by \in Calls
    BY <2>2 DEF GenRefs
  <2>4. Base(r).k = "S" => fetch[Base(r).by].st = "ok" /\ fetch[Base(r).by].from = "remote"
                           /\ fetch'[Base(r).by] = fetch[Base(r).by]
    BY <2>2, <2>3 DEF FetchRef, Held, Persists, Settled
  <2> QED BY <1>1, <1>3, <2>1, <2>2, <2>3, <2>4 DEF Persists, FetchRef, Pkg
<1> QED BY <1>2, <1>3

\* So those who held a promise hold a good one.
LEMMA HoldersKeep ==
  ASSUME TypeOK, LockInv, CallsHold, LockerHolds, Persists, HoldersGoOn
  PROVE  (CallsHold /\ LockerHolds)'
<1>1. ASSUME NEW c \in Calls, phase'[c] = "fetching"
      PROVE  /\ Held(ref[c], Pkg(c))'
             /\ (WantsManifest(req[c]) => HasRaw(ref[c]))'
             /\ (late[c] => react[Base(ref[c]).by] = 2 /\ Reused(ref[c]))'
  <2> DEFINE r == ref[c]
  <2>1. phase[c] = "fetching" /\ ref'[c] = r /\ late'[c] = late[c] /\ req'[c] = req[c]
    BY <1>1 DEF HoldersGoOn
  <2>2. /\ Held(r, Pkg(c)) /\ (WantsManifest(req[c]) => HasRaw(r))
        /\ late[c] => react[Base(r).by] = 2 /\ Reused(r)
    BY <2>1 DEF CallsHold
  <2> HIDE DEF r
  <2>3. /\ r.k # "R2" => /\ fetch'[r.by].st # "none" /\ req'[r.by].p = Pkg(c)
                         /\ r.k = "S" => fetch'[r.by].st = "ok"
                         /\ WantsManifest(req[r.by]) => WantsManifest(req'[r.by])
        /\ r.k = "R2" => /\ wrap'[r.by].st # "none" /\ req'[r.by].p = Pkg(c)
                         /\ wrap'[r.by].on = wrap[r.by].on
        /\ Base(r) \in GenRefs /\ fetch[Base(r).by].st # "none"
        /\ Base(r).k = "S" => fetch'[Base(r).by].from = "remote"
        /\ fetch[Base(r).by].st \in Settled => fetch'[Base(r).by] = fetch[Base(r).by]
    BY <2>2, PromisesPersist
  <2> DEFINE b == Base(r)
  <2>4. b = IF r.k = "R2" THEN wrap'[r.by].on ELSE r
    BY <2>3 DEF Base
  <2>5. b.by \in Calls
    BY <2>3 DEF GenRefs
  <2>6. late[c] => react'[b.by] = 2 /\ fetch[b.by].st \in Settled
    BY <2>2, <2>5 DEF HoldersGoOn, LockInv, CallsInOrder, FetchSettled
  <2> HIDE DEF b
  <2>7. Held(ref[c], Pkg(c))'
    BY <2>1, <2>2, <2>3, <2>4 DEF Held, Base, FetchRef, Pkg, b
  <2>8. (WantsManifest(req[c]) => HasRaw(ref[c]))'
    BY <2>1, <2>2, <2>3 DEF HasRaw, WantsManifest
  <2>9. (late[c] => react[Base(ref[c]).by] = 2 /\ Reused(ref[c]))'
    BY <2>1, <2>2, <2>3, <2>4, <2>6 DEF Reused, Base, b
  <2> QED BY <2>7, <2>8, <2>9
<1>2. ASSUME NEW p \in Pkgs, locker'[p] # NoEntry
      PROVE  /\ Held(locker[p].ref, p)' /\ (locker[p].raw => HasRaw(locker[p].ref))'
             /\ Reused(locker[p].ref)'
  <2>1. CASE locker'[p] = locker[p]
    <3> DEFINE r == locker[p].ref
    <3>1. /\ Held(r, p) /\ (locker[p].raw => HasRaw(r)) /\ Reused(r)
      BY <1>2, <2>1 DEF LockerHolds
    <3>2. locker'[p].ref = r /\ locker'[p].raw = locker[p].raw
      BY <2>1
    <3> HIDE DEF r
    <3>3. /\ r.k # "R2" => /\ fetch'[r.by].st # "none" /\ req'[r.by].p = p
                           /\ r.k = "S" => fetch'[r.by].st = "ok"
                           /\ WantsManifest(req[r.by]) => WantsManifest(req'[r.by])
          /\ r.k = "R2" => /\ wrap'[r.by].st # "none" /\ req'[r.by].p = p
                           /\ wrap'[r.by].on = wrap[r.by].on
          /\ Base(r) \in GenRefs /\ fetch[Base(r).by].st # "none" /\ Pkg(Base(r).by) = p
          /\ Base(r).k = "S" => fetch'[Base(r).by].from = "remote"
          /\ fetch[Base(r).by].st \in Settled => fetch'[Base(r).by] = fetch[Base(r).by]
      BY <3>1, PromisesPersist
    <3> DEFINE b == Base(r)
    <3>4. b = IF r.k = "R2" THEN wrap'[r.by].on ELSE r
      BY <3>3 DEF Base
    <3>5. b.by \in Calls
      BY <3>3 DEF GenRefs
    <3> HIDE DEF b
    <3>6. Held(locker[p].ref, p)'
      BY <3>1, <3>2, <3>3, <3>4 DEF Held, Base, FetchRef, Pkg, b
    <3>7. (locker[p].raw => HasRaw(locker[p].ref))'
      BY <3>1, <3>2, <3>3 DEF HasRaw, WantsManifest
    <3>8. ASSUME b.k = "R1", react'[b.by] = 2, fetch'[b.by].st = "ok" PROVE fetch'[b.by].from # "remote"
      <4>1. CASE react[b.by] = 2
        <5>1. fetch[b.by].st \in Settled
          BY <3>5, <4>1 DEF LockInv, CallsInOrder, FetchSettled
        <5> QED BY <3>1, <3>3, <3>8, <4>1, <5>1 DEF Reused, b
      <4>2. CASE react[b.by] # 2
        <5>1. locker'[Pkg(b.by)] # NoEntry /\ locker'[Pkg(b.by)].ref.k # "S"
          <6>1. Pkg(b.by) = p
            BY <3>3 DEF b
          <6>2. r.k # "S"
            BY <3>4, <3>8
          <6> QED BY <1>2, <3>2, <6>1, <6>2
        <5> QED BY <3>5, <3>8, <4>2, <5>1 DEF HoldersGoOn
      <4> QED BY <4>1, <4>2
    <3>9. Reused(locker[p].ref)'
      BY <3>2, <3>4, <3>8 DEF Reused, Base
    <3> QED BY <3>6, <3>7, <3>9
  <2>2. CASE locker'[p] # locker[p]
    <3> DEFINE r == locker'[p].ref
    <3>1. /\ r \in Refs /\ r.k = "S" /\ fetch[r.by].st = "ok" /\ fetch[r.by].from = "remote"
          /\ Pkg(r.by) = p
      BY <1>2, <2>2 DEF HoldersGoOn
    <3>2. r.by \in Calls
      BY <3>1 DEF Refs
    <3>3. fetch'[r.by] = fetch[r.by] /\ req'[r.by] = req[r.by]
      BY <3>1, <3>2 DEF Persists, Settled
    <3> QED BY <3>1, <3>3 DEF Held, HasRaw, Reused, Base, FetchRef, Pkg
  <2> QED BY <2>1, <2>2
<1>3. \A c \in Calls : late'[c] => phase'[c] = "fetching"
  BY DEF CallsHold, HoldersGoOn
<1> QED BY <1>1, <1>2, <1>3 DEF CallsHold, LockerHolds

\* A call that enters leaves the promises of the others, and the fetches, alone.
LEMMA EnteringPersists ==
  ASSUME TypeOK, LockInv, NEW c \in Calls, NEW o, NEW v, NEW force \in BOOLEAN,
         Enters(c, o), FetchToStore(c, o, v, force)
  PROVE  /\ Persists /\ fetch[c].st = "none" /\ wrap[c].st = "none"
         /\ req'[c] = o /\ o.p \in Pkgs /\ \A d \in Calls \ {c} : req'[d] = req[d]
         /\ \A d \in Calls \ {c} : fetch'[d] = fetch[d] /\ wrap'[d] = wrap[d] /\ ref'[d] = ref[d]
                                   /\ late'[d] = late[d] /\ phase'[d] = phase[d]
<1>1. fetch[c].st = "none" /\ wrap[c].st = "none"
  BY DEF Enters, LockInv, CallsInOrder
<1>2. req'[c] = o /\ o.p \in Pkgs /\ \A d \in Calls \ {c} : req'[d] = req[d]
  BY DEF Enters, TypeOK, Requests
<1>3. \A d \in Calls \ {c} : fetch'[d] = fetch[d] /\ wrap'[d] = wrap[d] /\ ref'[d] = ref[d]
                             /\ late'[d] = late[d] /\ phase'[d] = phase[d]
  <2>1. \A d \in Calls \ {c} : phase'[d] = phase[d]
    BY DEF FetchToStore, TypeOK
  <2>2. \A d \in Calls \ {c} : fetch'[d] = fetch[d]
    BY DEF FetchToStore, TypeOK
  <2>3. \A d \in Calls \ {c} : wrap'[d] = wrap[d]
    BY DEF FetchToStore, TypeOK
  <2>4. \A d \in Calls \ {c} : ref'[d] = ref[d] /\ late'[d] = late[d]
    BY DEF FetchToStore, TypeOK
  <2> QED BY <2>1, <2>2, <2>3, <2>4
<1>4. Persists
  BY <1>1, <1>2, <1>3 DEF Persists, Settled
<1> QED BY <1>1, <1>2, <1>3, <1>4

\* The promise that a call finds, or makes: a good one, with the manifest if
\* it is asked for, and not "remote" if the call is late.
LEMMA EnteringHolds ==
  ASSUME TypeOK, LockerSafe, CallsHold, LockerHolds, NEW c \in Calls, NEW o, NEW v,
         NEW force \in BOOLEAN, Enters(c, o), FetchToStore(c, o, v, force)
  PROVE  (CallsHold /\ LockerHolds)'
<1> DEFINE e == locker[o.p]
           mine == [k |-> "R1", by |-> c]
           reader == [k |-> "R2", by |-> c]
<1>0. LockInv
  BY DEF LockerSafe
<1>1. /\ Persists /\ fetch[c].st = "none" /\ wrap[c].st = "none"
      /\ req'[c] = o /\ o.p \in Pkgs /\ \A d \in Calls \ {c} : req'[d] = req[d]
      /\ \A d \in Calls \ {c} : fetch'[d] = fetch[d] /\ wrap'[d] = wrap[d] /\ ref'[d] = ref[d]
                                /\ late'[d] = late[d] /\ phase'[d] = phase[d]
  BY <1>0, EnteringPersists
<1>2. react' = react /\ phase'[c] = "fetching" /\ o \in Requests
  BY DEF Enters, FetchToStore, TypeOK
<1>3. react[c] = 0
  BY <1>0, <1>1 DEF LockInv, CallsInOrder, FetchSettled, Settled
<1>4. WantsManifest(req[c])' <=> WantsManifest(o)
  BY <1>1 DEF WantsManifest
\* Whatever is held before the step is held after it.
<1>5. ASSUME NEW r, NEW p, Held(r, p)
      PROVE  /\ r \in Refs
             /\ r.k # "R2" => /\ fetch'[r.by].st # "none" /\ req'[r.by].p = p
                              /\ r.k = "S" => fetch'[r.by].st = "ok"
                              /\ WantsManifest(req[r.by]) => WantsManifest(req'[r.by])
             /\ r.k = "R2" => /\ wrap'[r.by].st # "none" /\ req'[r.by].p = p
                              /\ wrap'[r.by].on = wrap[r.by].on
             /\ Base(r) = IF r.k = "R2" THEN wrap'[r.by].on ELSE r
             /\ Base(r).k = "S" => fetch'[Base(r).by].from = "remote"
             /\ fetch'[Base(r).by] = fetch[Base(r).by]
             /\ Base(r) \in GenRefs
  <2>1. /\ r.k # "R2" => /\ fetch'[r.by].st # "none" /\ req'[r.by].p = p
                         /\ r.k = "S" => fetch'[r.by].st = "ok"
                         /\ WantsManifest(req[r.by]) => WantsManifest(req'[r.by])
        /\ r.k = "R2" => wrap'[r.by].st # "none" /\ req'[r.by].p = p /\ wrap'[r.by].on = wrap[r.by].on
        /\ Base(r) \in GenRefs /\ fetch[Base(r).by].st # "none" /\ Pkg(Base(r).by) = p
        /\ Base(r).k = "S" => fetch'[Base(r).by].from = "remote"
    BY <1>0, <1>1, <1>5, PromisesPersist
  <2>2. fetch'[Base(r).by] = fetch[Base(r).by]
    BY <1>1, <2>1 DEF GenRefs
  <2>3. r \in Refs
    BY <1>5 DEF Held
  <2>4. Base(r) = IF r.k = "R2" THEN wrap'[r.by].on ELSE r
    BY <2>1 DEF Base
  <2> QED BY <2>1, <2>2, <2>3, <2>4
\* The others hold what they held.
<1>6. ASSUME NEW d \in Calls \ {c}, phase'[d] = "fetching"
      PROVE  /\ Held(ref[d], Pkg(d))'
             /\ (WantsManifest(req[d]) => HasRaw(ref[d]))'
             /\ (late[d] => react[Base(ref[d]).by] = 2 /\ Reused(ref[d]))'
  <2> DEFINE r == ref[d]
  <2>1. phase[d] = "fetching" /\ ref'[d] = r /\ late'[d] = late[d] /\ req'[d] = req[d]
    BY <1>1, <1>6
  <2>2. /\ Held(r, Pkg(d)) /\ (WantsManifest(req[d]) => HasRaw(r))
        /\ late[d] => react[Base(r).by] = 2 /\ Reused(r)
    BY <2>1 DEF CallsHold
  <2> HIDE DEF r
  <2>3. Held(ref[d], Pkg(d))'
    BY <1>5, <2>1, <2>2 DEF Held, Base, FetchRef, Pkg
  <2>4. (WantsManifest(req[d]) => HasRaw(ref[d]))'
    BY <1>5, <2>1, <2>2 DEF HasRaw, WantsManifest
  <2>5. (late[d] => react[Base(ref[d]).by] = 2 /\ Reused(ref[d]))'
    <3>1. Base(r) = IF r.k = "R2" THEN wrap'[r.by].on ELSE r
      BY <1>5, <2>2
    <3>2. fetch'[Base(r).by] = fetch[Base(r).by]
      BY <1>5, <2>2
    <3> DEFINE b == Base(r)
    <3>3. late[d] => react[b.by] = 2
                     /\ (b.k = "R1" /\ fetch[b.by].st = "ok" => fetch[b.by].from # "remote")
      BY <2>2 DEF Reused
    <3> HIDE DEF b
    <3> QED BY <1>2, <2>1, <3>1, <3>2, <3>3 DEF Reused, Base, b
  <2> QED BY <2>3, <2>4, <2>5
\* An entry that is not the call's keeps its promise.
<1>7. ASSUME NEW p \in Pkgs, locker'[p] = locker[p], locker[p] # NoEntry
      PROVE  /\ Held(locker[p].ref, p)' /\ (locker[p].raw => HasRaw(locker[p].ref))'
             /\ Reused(locker[p].ref)'
  <2> DEFINE r == locker[p].ref
  <2>1. Held(r, p) /\ (locker[p].raw => HasRaw(r)) /\ Reused(r)
    BY <1>7 DEF LockerHolds
  <2>2. locker'[p].ref = r /\ locker'[p].raw = locker[p].raw
    BY <1>7
  <2> HIDE DEF r
  <2>3. Held(locker[p].ref, p)'
    BY <1>5, <2>1, <2>2 DEF Held, Base, FetchRef, Pkg
  <2>4. (locker[p].raw => HasRaw(locker[p].ref))'
    BY <1>5, <2>1, <2>2 DEF HasRaw, WantsManifest
  <2>5. Reused(locker[p].ref)'
    <3>1. Base(r) = IF r.k = "R2" THEN wrap'[r.by].on ELSE r
      BY <1>5, <2>1
    <3>2. fetch'[Base(r).by] = fetch[Base(r).by]
      BY <1>5, <2>1
    <3> QED BY <1>2, <2>1, <2>2, <3>1, <3>2 DEF Reused, Base
  <2> QED BY <2>3, <2>4, <2>5
\* The call itself, and its entry.
<1>8. ASSUME NEW r, ref'[c] = r,
             r \in Refs,
             r.k # "R2" => fetch'[r.by].st # "none" /\ req'[r.by].p = o.p /\ (r.k = "S" => fetch'[r.by].st = "ok"),
             r.k = "R2" => wrap'[r.by].st # "none" /\ req'[r.by].p = o.p,
             NEW b, b = IF r.k = "R2" THEN wrap'[r.by].on ELSE r,
             b.k = "S" => fetch'[b.by].from = "remote",
             WantsManifest(o) => (r.k = "R1" => WantsManifest(req'[r.by])),
             late'[c] => react[b.by] = 2,
             b.k = "R1" /\ react[b.by] = 2 /\ fetch'[b.by].st = "ok" => fetch'[b.by].from # "remote",
             \A p \in Pkgs : p # o.p => locker'[p] = locker[p],
             \/ locker'[o.p] = locker[o.p]
             \/ locker'[o.p].ref = r /\ (locker'[o.p].raw => (r.k = "R1" => WantsManifest(req'[r.by])))
      PROVE  (CallsHold /\ LockerHolds)'
  <2>1. Held(ref[c], Pkg(c))'
    BY <1>1, <1>8 DEF Held, Base, FetchRef, Pkg
  <2>2. (WantsManifest(req[c]) => HasRaw(ref[c]))'
    BY <1>4, <1>8 DEF HasRaw, WantsManifest
  <2>3. (late[c] => react[Base(ref[c]).by] = 2 /\ Reused(ref[c]))'
    BY <1>2, <1>8 DEF Reused, Base
  <2>4. CallsHold'
    <3>1. \A d \in Calls \ {c} : late'[d] => phase'[d] = "fetching"
      BY <1>1 DEF CallsHold
    <3> QED BY <1>2, <1>6, <2>1, <2>2, <2>3, <3>1 DEF CallsHold
  <2>5. ASSUME NEW p \in Pkgs, locker'[p] # NoEntry
        PROVE  /\ Held(locker[p].ref, p)' /\ (locker[p].raw => HasRaw(locker[p].ref))'
               /\ Reused(locker[p].ref)'
    <3>1. CASE locker'[p] = locker[p]
      BY <1>7, <2>5, <3>1
    <3>2. CASE locker'[p] # locker[p]
      <4>1. p = o.p /\ locker'[p].ref = r
            /\ (locker'[p].raw => (r.k = "R1" => WantsManifest(req'[r.by])))
        BY <1>8, <3>2
      <4>2. Held(locker[p].ref, p)'
        BY <1>8, <4>1 DEF Held, Base, FetchRef, Pkg
      <4>3. (locker[p].raw => HasRaw(locker[p].ref))'
        BY <4>1 DEF HasRaw, WantsManifest
      <4>4. Reused(locker[p].ref)'
        BY <1>2, <1>8, <4>1 DEF Reused, Base
      <4> QED BY <4>2, <4>3, <4>4
    <3> QED BY <3>1, <3>2
  <2> QED BY <2>4, <2>5 DEF LockerHolds
<1>9. CASE e = NoEntry
  <2> DEFINE entry == [gen |-> c, ref |-> mine, raw |-> WantsManifest(o)]
  <2>1. locker' = [locker EXCEPT ![o.p] = entry] /\ ref' = [ref EXCEPT ![c] = mine] /\ late' = late
    BY <1>9 DEF FetchToStore
  <2>2. fetch'[c].st # "none"
    <3>1. fetch'[c].st = FirstStep(o.p, force)
      BY <1>9 DEF FetchToStore, TypeOK, Fetches
    <3> QED BY <3>1 DEF FirstStep
  <2>3. ~late'[c]
    BY <2>1 DEF CallsHold, Enters
  <2>4. /\ mine \in Refs /\ ref'[c] = mine /\ locker'[o.p].ref = mine
        /\ locker'[o.p].raw = WantsManifest(o) /\ \A p \in Pkgs : p # o.p => locker'[p] = locker[p]
    BY <1>1, <2>1 DEF TypeOK, Refs
  <2>5. WantsManifest(o) => WantsManifest(req'[c])
    BY <1>1
  <2> QED BY <1>1, <1>3, <1>8, <2>2, <2>3, <2>4, <2>5
<1>10. CASE e # NoEntry
  <2> DEFINE r == e.ref
             b == Base(r)
  <2>1. /\ Held(r, o.p) /\ (e.raw => HasRaw(r)) /\ Reused(r) /\ e \in Entries
    BY <1>1, <1>10 DEF LockerHolds, TypeOK
  <2>2. late'[c] => react[b.by] = 2
    <3>1. GenOf(r) = b.by
      BY DEF GenOf, Base
    <3> QED BY <1>10, <3>1 DEF FetchToStore, TypeOK
  <2>3. b.k = "R1" /\ react[b.by] = 2 /\ fetch'[b.by].st = "ok" => fetch'[b.by].from # "remote"
    <3>1. fetch'[b.by] = fetch[b.by]
      BY <1>5, <2>1
    <3> QED BY <2>1, <3>1 DEF Reused
  <2>4. CASE WantsManifest(o) /\ ~e.raw
    <3>1. r.k # "R2" /\ b = r
      BY <1>1, <1>10, <2>4, UnwrappedEntry DEF Base, LockerSafe, LockInv
    <3>2. /\ wrap' = [wrap EXCEPT ![c] = [on |-> r, st |-> "pending"]]
          /\ locker' = [locker EXCEPT ![o.p] = [e EXCEPT !.ref = reader, !.raw = TRUE]]
          /\ ref' = [ref EXCEPT ![c] = reader]
      BY <1>10, <2>4 DEF FetchToStore
    <3>3. wrap'[c].on = r /\ wrap'[c].st # "none" /\ ref'[c] = reader /\ reader \in Refs
      BY <3>2 DEF TypeOK, Refs
    <3>4. locker'[o.p].ref = reader /\ \A p \in Pkgs : p # o.p => locker'[p] = locker[p]
      <4> DEFINE entry == [e EXCEPT !.ref = reader, !.raw = TRUE]
      <4>1. entry.ref = reader
        BY <2>1 DEF Entries
      <4>2. locker' = [locker EXCEPT ![o.p] = entry]
        BY <3>2
      <4> HIDE DEF entry
      <4>3. locker'[o.p] = entry /\ \A p \in Pkgs : p # o.p => locker'[p] = locker[p]
        BY <1>1, <4>2 DEF TypeOK
      <4> QED BY <4>1, <4>3
    <3>5. b.k = "S" => fetch'[b.by].from = "remote"
      BY <1>5, <2>1
    <3> HIDE DEF r
    <3> QED BY <1>1, <1>8, <2>2, <2>3, <3>1, <3>3, <3>4, <3>5
  <2>5. CASE ~(WantsManifest(o) /\ ~e.raw)
    <3>1. ref'[c] = r /\ locker' = locker
      BY <1>10, <2>5 DEF FetchToStore, TypeOK
    <3>2. /\ r \in Refs
          /\ r.k # "R2" => /\ fetch'[r.by].st # "none" /\ req'[r.by].p = o.p
                           /\ r.k = "S" => fetch'[r.by].st = "ok"
                           /\ WantsManifest(req[r.by]) => WantsManifest(req'[r.by])
          /\ r.k = "R2" => wrap'[r.by].st # "none" /\ req'[r.by].p = o.p
          /\ b = IF r.k = "R2" THEN wrap'[r.by].on ELSE r
          /\ b.k = "S" => fetch'[b.by].from = "remote"
      BY <1>5, <2>1
    <3>3. WantsManifest(o) => (r.k = "R1" => WantsManifest(req'[r.by]))
      BY <2>1, <2>5, <3>2 DEF HasRaw
    <3> HIDE DEF r, b
    <3> QED BY <1>8, <2>2, <2>3, <3>1, <3>2, <3>3
  <2> QED BY <2>4, <2>5
<1> QED BY <1>9, <1>10

\* What is known of the fetches: readers, manifests, tarballs.
FetchesKnown == ReadersRead /\ ManifestsRead /\ TarballsSeen

\* It is kept by a step that leaves the fetches and what was seen alone.
LEMMA FetchesStay ==
  ASSUME TypeOK, LockInv, FetchesKnown, Persists, UNCHANGED <<fetch, disk, seen>>,
         \A c \in Calls : /\ fetch[c].st # "none" => want'[c] = want[c]
                          /\ wrap'[c].st \in {"reading", "ok"} =>
                               wrap[c].st \in {"reading", "ok"} \/ fetch[wrap[c].on.by].st = "ok"
                          /\ wrap[c].st = "none" => wrap'[c].st \in {"none", "pending"}
  PROVE  FetchesKnown'
<1>1. \A c \in Calls : fetch[c].st # "none" => req'[c] = req[c]
  BY DEF Persists
<1>2. ReadersRead'
  <2> SUFFICES ASSUME NEW c \in Calls, wrap'[c].st \in {"reading", "ok"}
               PROVE  fetch'[wrap'[c].on.by].st = "ok"
    BY DEF ReadersRead
  <2>1. wrap[c].st # "none" /\ wrap'[c].on = wrap[c].on
    BY DEF Persists
  <2>2. fetch[wrap[c].on.by].st = "ok"
    BY DEF FetchesKnown, ReadersRead
  <2> QED BY <2>1, <2>2
<1>3. ManifestsRead'
  BY <1>1 DEF FetchesKnown, ManifestsRead, Pkg, WantsManifest
<1>4. TarballsSeen'
  BY <1>1 DEF FetchesKnown, TarballsSeen, Pkg
<1> QED BY <1>2, <1>3, <1>4 DEF FetchesKnown

\* A call that starts a fetch has seen the tarball as it is.
LEMMA FetchesStart ==
  ASSUME TypeOK, LockInv, FetchesKnown, NEW c \in Calls, NEW o, NEW v, NEW force \in BOOLEAN,
         Enters(c, o), FetchToStore(c, o, v, force), UNCHANGED disk
  PROVE  FetchesKnown'
<1>1. /\ Persists /\ fetch[c].st = "none" /\ wrap[c].st = "none"
      /\ req'[c] = o /\ o.p \in Pkgs /\ \A d \in Calls \ {c} : req'[d] = req[d]
      /\ \A d \in Calls \ {c} : fetch'[d] = fetch[d] /\ wrap'[d] = wrap[d] /\ ref'[d] = ref[d]
                                /\ late'[d] = late[d] /\ phase'[d] = phase[d]
  BY EnteringPersists
<1>2. \A d \in Calls \ {c} : want'[d] = want[d]
  BY DEF FetchToStore, TypeOK
<1>3. CASE locker[o.p] # NoEntry
  <2>1. UNCHANGED <<fetch, seen>> /\ wrap'[c].st \in {"none", "pending"}
    BY <1>1, <1>3 DEF FetchToStore, TypeOK
  <2>2. \A d \in Calls : /\ fetch[d].st # "none" => want'[d] = want[d]
                         /\ wrap'[d].st \in {"reading", "ok"} => wrap[d].st \in {"reading", "ok"}
                         /\ wrap[d].st = "none" => wrap'[d].st \in {"none", "pending"}
    BY <1>1, <1>2, <2>1
  <2> QED BY <1>1, <2>1, <2>2, FetchesStay
<1>4. CASE locker[o.p] = NoEntry
  <2>1. /\ fetch'[c].st = FirstStep(o.p, force) /\ seen' = [seen EXCEPT ![c] = {disk[o.p]}]
        /\ wrap' = wrap
    BY <1>4 DEF FetchToStore, TypeOK, Fetches
  <2>2. fetch'[c].st \in {"queued", "checkTarball", "readStore"}
        /\ (Kind[o.p] = "tarball" => fetch'[c].st # "readStore")
    BY <2>1 DEF FirstStep
  <2>3. disk[o.p] \in seen'[c] /\ \A d \in Calls \ {c} : seen'[d] = seen[d]
    BY <2>1 DEF TypeOK
  <2>4. ReadersRead'
    <3> SUFFICES ASSUME NEW d \in Calls, wrap'[d].st \in {"reading", "ok"}
                 PROVE  fetch'[wrap'[d].on.by].st = "ok"
      BY DEF ReadersRead
    <3>1. fetch[wrap[d].on.by].st = "ok" /\ wrap'[d].on = wrap[d].on /\ wrap[d].on.by \in Calls
      BY <2>1 DEF FetchesKnown, ReadersRead, LockInv, WrapsOnFetches, GenRefs
    <3> QED BY <1>1, <3>1
  <2>5. ManifestsRead'
    BY <1>1, <2>2 DEF FetchesKnown, ManifestsRead, Pkg, WantsManifest
  <2>6. TarballsSeen'
    BY <1>1, <1>2, <2>2, <2>3 DEF FetchesKnown, TarballsSeen, Pkg, Settled
  <2> QED BY <2>4, <2>5, <2>6 DEF FetchesKnown
<1> QED BY <1>3, <1>4

\* The manifest field of a fetch that is written as a whole.
LEMMA RecordHasField ==
  \A s, f, m : [st |-> s, from |-> f, man |-> m].man = m
OBVIOUS

\* A fetch that was compared with the tarball goes on with what it has seen.
LEMMA FetchesGoOn ==
  ASSUME TypeOK, LockInv, FetchesKnown, NEW g \in Calls, FetchIO(g) \/ StartFetch(g)
  PROVE  FetchesKnown' /\ Persists /\ HoldersGoOn
<1>1. /\ UNCHANGED <<phase, req, want, ref, late, locker, react, wrap, disk, seen>>
      /\ fetch[g].st \notin {"none", "ok", "failed"}
  BY DEF FetchIO, CheckTarball, ReadStore, FetchOk, RecordIntegrity, IntegrityMismatch,
         FetchFailed, StartFetch, callVars
<1>2. \A d \in Calls \ {g} : fetch'[d] = fetch[d]
  BY DEF TypeOK, FetchIO, CheckTarball, ReadStore, FetchOk, RecordIntegrity,
         IntegrityMismatch, FetchFailed, StartFetch
<1>3. fetch[g] \in Fetches
  BY DEF TypeOK
<1> DEFINE tarball == Kind[Pkg(g)] = "tarball"
\* What the step makes of the fetch.
<1>4. /\ fetch'[g].st # "none"
      /\ fetch'[g].st \in {"recording", "ok"} /\ Pkg(g) \in HasManifest
           /\ (WantsManifest(req[g]) \/ fetch'[g].from # "store") => fetch'[g].man
      /\ tarball /\ fetch'[g].st \in {"readStore", "recording", "ok"} => want[g] \in seen[g]
  <2>1. tarball => disk[Pkg(g)] \in seen[g]
    BY <1>1 DEF FetchesKnown, TarballsSeen, Settled
  <2>2. CASE CheckTarball(g)
    <3>1. fetch'[g].st = IF TarballIsUpToDate(g) THEN "readStore" ELSE "queued"
      BY <1>3, <2>2 DEF CheckTarball, TypeOK, Fetches
    <3> QED BY <2>1, <3>1 DEF TarballIsUpToDate
  <2>3. CASE ReadStore(g)
    <3>1. fetch[g].st = "readStore"
      BY <2>3 DEF ReadStore
    <3>2. CASE fetch'[g].st \in {"queued", "failed"}
      BY <3>2
    <3>3. CASE fetch'[g] = [st |-> "ok", from |-> "store",
                            man |-> WantsManifest(req[g]) /\ req[g].p \in HasManifest]
      <4>1. fetch'[g].st = "ok" /\ fetch'[g].from = "store"
        BY <3>3
      <4>2. fetch'[g].man = (WantsManifest(req[g]) /\ Pkg(g) \in HasManifest)
        BY <3>3, RecordHasField DEF Pkg
      <4>3. WantsManifest(req[g]) /\ Pkg(g) \in HasManifest => fetch'[g].man
        BY <4>2, Zenon
      <4>4. tarball => want[g] \in seen[g]
        BY <3>1 DEF FetchesKnown, TarballsSeen
      <4> QED BY <4>1, <4>3, <4>4
    <3> QED BY <1>3, <2>3, <3>2, <3>3 DEF ReadStore, TypeOK, Fetches
  <2>4. CASE FetchOk(g)
    <3>1. fetch'[g] = [st |-> IF Kind[Pkg(g)] = "tarball" THEN "recording" ELSE "ok",
                       from |-> FetchedFrom(Pkg(g)), man |-> FetcherManifest(g)]
      BY <2>4 DEF FetchOk, TypeOK
    <3>2. tarball => disk[Pkg(g)] = want[g]
      BY <2>4 DEF FetchOk
    <3>3. fetch'[g].st \in {"recording", "ok"}
      BY <3>1
    <3>4. fetch'[g].man = (Pkg(g) \in HasManifest)
      BY <3>1, RecordHasField DEF FetcherManifest
    <3>5. Pkg(g) \in HasManifest => fetch'[g].man
      BY <3>4, Zenon
    <3> QED BY <2>1, <3>2, <3>3, <3>5
  <2>5. CASE RecordIntegrity(g)
    <3>1. fetch[g].st = "recording" /\ fetch' = [fetch EXCEPT ![g].st = "ok"]
      BY <2>5 DEF RecordIntegrity
    <3>2. fetch'[g].st = "ok" /\ fetch'[g].from = fetch[g].from /\ fetch'[g].man = fetch[g].man
      BY <1>3, <3>1 DEF TypeOK, Fetches
    <3> QED BY <3>1, <3>2 DEF FetchesKnown, TarballsSeen, ManifestsRead
  <2>6. CASE IntegrityMismatch(g) \/ FetchFailed(g) \/ StartFetch(g)
    <3>1. fetch'[g].st \in {"failed", "running"}
      BY <1>3, <2>6 DEF IntegrityMismatch, FetchFailed, StartFetch, TypeOK, Fetches
    <3> QED BY <3>1
  <2> QED BY <2>2, <2>3, <2>4, <2>5, <2>6 DEF FetchIO
<1>5. ReadersRead'
  BY <1>1, <1>2 DEF FetchesKnown, ReadersRead, LockInv, WrapsOnFetches, GenRefs
<1>6. ManifestsRead'
  BY <1>1, <1>2, <1>4 DEF FetchesKnown, ManifestsRead, Pkg, WantsManifest
<1>7. TarballsSeen'
  <2>1. tarball => disk[Pkg(g)] \in seen[g]
    BY <1>1 DEF FetchesKnown, TarballsSeen, Settled
  <2> QED BY <1>1, <1>2, <1>4, <2>1 DEF FetchesKnown, TarballsSeen, Pkg
<1>8. Persists
  BY <1>1, <1>2, <1>4 DEF Persists, Settled
<1>9. HoldersGoOn
  BY <1>1 DEF HoldersGoOn
<1> QED BY <1>5, <1>6, <1>7, <1>8, <1>9 DEF FetchesKnown

\* Reactions and readers change what is in the locker, not what was fetched.
LEMMA ReactionsGoOn ==
  ASSUME TypeOK, LockInv, FetchesKnown, NEW c \in Calls, Reactions(c) \/ ReadManifest(c)
  PROVE  FetchesKnown' /\ Persists /\ HoldersGoOn
<1>0. UNCHANGED <<phase, req, want, ref, late, fetch, disk, seen>>
  BY DEF Reactions, ReactR1, ReactS, ReactC, ReactWrap, ReactR2, ReadManifest, callVars
<1>1. CASE ReactR1(c) \/ ReactS(c) \/ ReactC(c)
  <2>1. /\ UNCHANGED wrap /\ fetch[c].st \in Settled
        /\ react[c] # 2 /\ \A d \in Calls \ {c} : react'[d] = react[d]
    BY <1>1 DEF ReactR1, ReactS, ReactC, TypeOK, FetchSettled, Settled
  <2>2. Pkg(c) \in Pkgs
    BY <2>1, FetchHasRequest DEF Settled, LockInv
  <2>3. Persists
    BY <1>0, <2>1 DEF Persists
  <2>4. FetchesKnown'
    BY <1>0, <2>1, <2>3, FetchesStay
  <2>5. HoldersGoOn
    <3>1. CASE ReactR1(c) \/ ReactC(c)
      <4>1. \A p \in Pkgs : locker'[p] = locker[p] \/ locker'[p] = NoEntry
        BY <3>1 DEF ReactR1, ReactC, TypeOK
      <4>2. react'[c] = 2 => fetch[c].st = "failed"
        BY <3>1 DEF ReactR1, ReactC, TypeOK
      <4> QED BY <1>0, <2>1, <4>1, <4>2 DEF HoldersGoOn
    <3>2. CASE ReactS(c)
      <4> DEFINE cached == [locker[Pkg(c)] EXCEPT !.ref = [k |-> "S", by |-> c]]
      <4>1. locker[Pkg(c)] # NoEntry => cached.ref = [k |-> "S", by |-> c]
        <5>1. locker[Pkg(c)] # NoEntry => locker[Pkg(c)] \in Entries
          BY <2>2 DEF TypeOK
        <5> QED BY <5>1 DEF Entries
      <4>2. /\ fetch[c].st = "ok"
            /\ locker' = IF fetch[c].from = "remote" /\ locker[Pkg(c)] # NoEntry
                         THEN [locker EXCEPT ![Pkg(c)] = cached] ELSE locker
        BY <3>2 DEF ReactS
      <4> HIDE DEF cached
      <4>3. CASE fetch[c].from = "remote" /\ locker[Pkg(c)] # NoEntry
        <5>1. locker'[Pkg(c)] = cached /\ \A p \in Pkgs : p # Pkg(c) => locker'[p] = locker[p]
          BY <2>2, <4>2, <4>3 DEF TypeOK
        <5>2. [k |-> "S", by |-> c] \in Refs
          BY DEF Refs
        <5> QED BY <1>0, <2>1, <4>1, <4>2, <4>3, <5>1, <5>2 DEF HoldersGoOn
      <4>4. CASE ~(fetch[c].from = "remote" /\ locker[Pkg(c)] # NoEntry)
        BY <1>0, <2>1, <4>2, <4>4 DEF HoldersGoOn
      <4> QED BY <4>3, <4>4
    <3> QED BY <1>1, <3>1, <3>2
  <2> QED BY <2>3, <2>4, <2>5
<1>2. CASE ReactWrap(c) \/ ReadManifest(c) \/ ReactR2(c)
  <2>1. UNCHANGED react /\ wrap[c].st \in {"pending", "reading", "rejected"}
    BY <1>2 DEF ReactWrap, ReadManifest, ReactR2, WrapParentSettled
  <2>2. \A p \in Pkgs : locker'[p] = locker[p] \/ locker'[p] = NoEntry
    BY <1>2 DEF ReactWrap, ReadManifest, ReactR2, TypeOK
  <2>3. \E s \in {"reading", "rejected", "ok", "failed"} :
          /\ wrap' = [wrap EXCEPT ![c].st = s]
          /\ s = "ok" => wrap[c].st = "reading"
          /\ s = "reading" => RefOk(wrap[c].on)
    BY <1>2 DEF ReactWrap, ReadManifest, ReactR2
  <2>4. /\ \A d \in Calls \ {c} : wrap'[d] = wrap[d]
        /\ wrap'[c].st # "none" /\ wrap'[c].on = wrap[c].on
        /\ wrap'[c].st = "ok" => wrap[c].st = "reading"
        /\ wrap'[c].st = "reading" => RefOk(wrap[c].on)
    BY <2>3 DEF TypeOK, Wraps
  <2>5. RefOk(wrap[c].on) => fetch[wrap[c].on.by].st = "ok"
    <3>1. wrap[c].on \in GenRefs /\ FetchRef(wrap[c].on, Pkg(c))
      BY <2>1 DEF LockInv, WrapsOnFetches
    <3> QED BY <3>1 DEF RefOk, FetchRef, GenRefs
  <2>6. Persists
    BY <1>0, <2>1, <2>4 DEF Persists
  <2>7. FetchesKnown'
    <3>1. \A d \in Calls : /\ wrap'[d].st \in {"reading", "ok"} =>
                              wrap[d].st \in {"reading", "ok"} \/ fetch[wrap[d].on.by].st = "ok"
                           /\ wrap[d].st = "none" => wrap'[d].st \in {"none", "pending"}
      BY <2>1, <2>4, <2>5
    <3> QED BY <1>0, <2>6, <3>1, FetchesStay
  <2>8. HoldersGoOn
    BY <1>0, <2>1, <2>2 DEF HoldersGoOn
  <2> QED BY <2>6, <2>7, <2>8
<1> QED BY <1>1, <1>2 DEF Reactions

\* Every step keeps the results.
LEMMA ResultStep ==
  ASSUME TypeOK, LockerSafe, ResultInv, [Next]_vars
  PROVE  ResultInv'
<1>0. LockInv /\ CallsHold /\ LockerHolds /\ FetchesKnown
  BY DEF LockerSafe, ResultInv, FetchesKnown
<1>1. ASSUME FetchesKnown', Persists, HoldersGoOn PROVE ResultInv'
  BY <1>0, <1>1, HoldersKeep DEF FetchesKnown, ResultInv
\* A call that enters fetchToStore, after a request or a resolution.
<1>2. ASSUME NEW c \in Calls, NEW o, NEW v, NEW force \in BOOLEAN, Enters(c, o),
             FetchToStore(c, o, v, force), UNCHANGED disk
      PROVE  ResultInv'
  BY <1>0, <1>2, EnteringHolds, FetchesStart DEF FetchesKnown, ResultInv
\* A call that does something else.
<1>3. ASSUME NEW c \in Calls, phase[c] # "fetching",
             NEW s \in {"resolveQueued", "resolving", "returned", "failed"}, phase' = [phase EXCEPT ![c] = s],
             UNCHANGED <<want, ref, late, locker, fetch, wrap, react, disk, seen>>,
             \A d \in Calls : phase[d] # "idle" => req'[d] = req[d]
      PROVE  ResultInv'
  <2>1. \A d \in Calls : fetch[d].st # "none" \/ wrap[d].st # "none" => req'[d] = req[d]
    BY <1>0, <1>3 DEF LockInv, CallsInOrder
  <2>2. Persists
    BY <1>3, <2>1 DEF Persists
  <2>3. \A d \in Calls : phase[d] = "fetching" <=> phase'[d] = "fetching"
    BY <1>3 DEF TypeOK
  <2>4. HoldersGoOn
    BY <1>3, <2>3 DEF HoldersGoOn
  <2>5. FetchesKnown'
    BY <1>0, <1>3, <2>2, FetchesStay
  <2> QED BY <1>1, <2>2, <2>4, <2>5
<1>4. ASSUME NEW c \in Calls, NEW o \in Menu, Request(c, o) PROVE ResultInv'
  <2>1. Enters(c, o) /\ UNCHANGED <<react, disk>> /\ phase[c] = "idle"
    BY <1>4, RequesterConstants DEF Request, Enters
  <2>2. CASE FetchToStore(c, o, o.ver, o.via = "fetchPackageToStore" /\ o.force)
    <3>1. (o.via = "fetchPackageToStore" /\ o.force) \in BOOLEAN
      OBVIOUS
    <3> QED BY <1>2, <2>1, <2>2, <3>1
  <2>3. CASE UNCHANGED <<want, forced, ref, late, locker, fetch, wrap, seen>>
             /\ \E s \in {"resolveQueued", "failed"} : phase' = [phase EXCEPT ![c] = s]
    <3>1. \A d \in Calls : phase[d] # "idle" => req'[d] = req[d]
      BY <2>1 DEF Enters, TypeOK
    <3> QED BY <1>3, <2>1, <2>3, <3>1
  <2> QED BY <1>4, <2>2, <2>3 DEF Request
<1>5. ASSUME NEW c \in Calls, Resolved(c) PROVE ResultInv'
  <2>1. phase[c] = "resolving" /\ UNCHANGED <<req, react, disk>>
    BY <1>5 DEF Resolved
  <2>2. CASE FetchToStore(c, req[c], ResolvedVer(req[c].p), ForceFetch(req[c]))
    <3>1. Enters(c, req[c])
      BY <1>0, <2>1 DEF Enters, TypeOK, LockInv, CallsInOrder
    <3>2. ForceFetch(req[c]) \in BOOLEAN
      BY DEF ForceFetch
    <3> QED BY <1>2, <2>1, <2>2, <3>1, <3>2
  <2>3. CASE UNCHANGED <<want, forced, ref, late, locker, fetch, wrap, seen>>
             /\ \E s \in {"returned", "failed"} : phase' = [phase EXCEPT ![c] = s]
    BY <1>3, <2>1, <2>3
  <2> QED BY <1>5, <2>2, <2>3 DEF Resolved
<1>6. ASSUME NEW c \in Calls, StartResolve(c) \/ ResolveFailed(c) PROVE ResultInv'
  BY <1>3, <1>6 DEF StartResolve, ResolveFailed
<1>7. ASSUME NEW g \in Calls, FetchIO(g) \/ StartFetch(g) PROVE ResultInv'
  BY <1>0, <1>1, <1>7, FetchesGoOn
<1>8. ASSUME NEW c \in Calls, Reactions(c) \/ ReadManifest(c) PROVE ResultInv'
  BY <1>0, <1>1, <1>8, ReactionsGoOn
<1>9. ASSUME NEW p \in Pkgs, TarballEdited(p) PROVE ResultInv'
  <2>1. UNCHANGED <<phase, req, want, ref, late, locker, fetch, react, wrap>>
    BY <1>9 DEF TarballEdited, callVars
  <2>2. Persists /\ HoldersGoOn
    BY <2>1 DEF Persists, HoldersGoOn
  <2>3. /\ disk' = [disk EXCEPT ![p] = @ + 1]
        /\ \A g \in Calls : /\ seen[g] \subseteq seen'[g]
                            /\ fetch[g].st \notin {"none"} \cup Settled /\ Pkg(g) = p => disk[p] + 1 \in seen'[g]
    BY <1>9 DEF TarballEdited, FetchSettled
  <2>4. TarballsSeen'
    <3>1. \A q : q # p => disk'[q] = disk[q]
      BY <2>3 DEF TypeOK
    <3>2. disk'[p] = disk[p] + 1
      BY <2>3 DEF TypeOK
    <3> QED BY <1>0, <2>1, <2>3, <3>1, <3>2 DEF FetchesKnown, TarballsSeen, Pkg
  <2>5. ReadersRead' /\ ManifestsRead'
    BY <1>0, <2>1 DEF FetchesKnown, ReadersRead, ManifestsRead, Pkg, WantsManifest
  <2> QED BY <1>1, <2>2, <2>4, <2>5 DEF FetchesKnown
<1>10. ASSUME NEW p \in Pkgs, NEW v \in Vers, StoreModified(p, v) PROVE ResultInv'
  <2>1. UNCHANGED <<phase, req, want, ref, late, locker, fetch, react, wrap, disk, seen>>
    BY <1>10 DEF StoreModified, callVars
  <2>2. Persists /\ HoldersGoOn
    BY <2>1 DEF Persists, HoldersGoOn
  <2> QED BY <1>0, <1>1, <2>1, <2>2, FetchesStay
<1>11. CASE UNCHANGED vars
  <2>1. UNCHANGED <<phase, req, want, ref, late, locker, fetch, react, wrap, disk, seen>>
    BY <1>11 DEF vars
  <2>2. Persists /\ HoldersGoOn
    BY <2>1 DEF Persists, HoldersGoOn
  <2> QED BY <1>0, <1>1, <2>1, <2>2, FetchesStay
<1> QED BY <1>4, <1>5, <1>6, <1>7, <1>8, <1>9, <1>10, <1>11 DEF Next, AllDone, Resolving

-----------------------------------------------------------------------------
\* The invariant

\* Nothing is fetched and the locker is empty at the start.
LEMMA InitSafe == Init => LockerSafe /\ ResultInv
<1>1. Init => LockerSafe
  BY DEF Init, LockerSafe, LockInv, CallsInOrder, WrapsOnFetches, EntriesOnFetches,
         NoDoomedEntry, EntryStays, FetchedOnce, Fetched, FetchSettled
<1>2. Init => ResultInv
  BY DEF Init, ResultInv, CallsHold, LockerHolds, ReadersRead, ManifestsRead, TarballsSeen
<1> QED BY <1>1, <1>2

\* Every step keeps the types and the locker safe.
LEMMA StepKeepsIInv ==
  ASSUME TypeOK, LockerSafe, [Next]_vars
  PROVE  TypeOK' /\ LockerSafe'
<1>1. ASSUME NEW c \in Calls,
             (\E o \in Menu : Request(c, o)) \/ StartResolve(c) \/ Resolving(c)
      PROVE  TypeOK' /\ LockerSafe'
  BY <1>1, CallTyped, CallSafe DEF LockerSafe, LockInv
<1>2. ASSUME NEW c \in Calls, FetchIO(c) \/ StartFetch(c)
      PROVE  TypeOK' /\ LockerSafe'
  BY <1>2, FetchTyped, FetchSafe DEF LockerSafe, LockInv
<1>3. ASSUME NEW c \in Calls, Reactions(c) \/ ReadManifest(c)
      PROVE  TypeOK' /\ LockerSafe'
  <2>1. TypeOK'
    BY <1>3, ReactionTyped DEF LockerSafe, LockInv
  <2>2. LockerSafe'
    BY <1>3, FetchReactionSafe, StoreReactionSafe, ReaderSafe DEF Reactions
  <2> QED BY <2>1, <2>2
<1>4. ASSUME NEW p \in Pkgs, TarballEdited(p) \/ \E v \in Vers : StoreModified(p, v)
      PROVE  TypeOK' /\ LockerSafe'
  <2>1. UNCHANGED <<phase, req, locker, fetch, react, wrap>>
    BY <1>4 DEF TarballEdited, StoreModified, callVars
  <2>2. LockerSafe'
    BY <2>1, IdleLockerIsSafe DEF LockerSafe, LockInv, CallsInOrder
  <2> QED BY <1>4, <2>2, EnvironmentTyped
<1>5. ASSUME UNCHANGED vars
      PROVE  TypeOK' /\ LockerSafe'
  <2>1. TypeOK'
    BY <1>5 DEF vars, TypeOK
  <2>2. LockerSafe'
    BY <1>5, IdleLockerIsSafe DEF vars, LockerSafe, LockInv, CallsInOrder
  <2> QED BY <2>1, <2>2
<1> QED BY <1>1, <1>2, <1>3, <1>4, <1>5 DEF Next, AllDone

\* The inductive invariant: types, the order of a call's steps, what the
\* locker's promises stand over, the two promises of the locker, and what
\* every promise that is held resolves to.
THEOREM LockerInvariant == Spec => [](TypeOK /\ LockerSafe /\ ResultInv)
<1>1. Init => TypeOK /\ LockerSafe /\ ResultInv
  BY InitTyped, InitSafe
<1>2. TypeOK /\ LockerSafe /\ ResultInv /\ [Next]_vars => TypeOK' /\ LockerSafe' /\ ResultInv'
  BY StepKeepsIInv, ResultStep
<1> QED BY <1>1, <1>2, PTL DEF Spec

\* Every variable of the requester keeps its type.
THEOREM TypeCorrect == Spec => []TypeOK
BY LockerInvariant, PTL

\* Errors are never cached: no caller finds a promise that is bound to fail
\* after the first reaction to the failure ran.
THEOREM ErrorsAreNotCached == Spec => []NoDoomedEntry
<1>1. LockerSafe => NoDoomedEntry
  BY DEF LockerSafe
<1> QED BY <1>1, LockerInvariant, PTL

\* A package none of whose fetches and manifest readers failed is fetched at
\* most once by a requester, whatever its callers do.
THEOREM PackagesAreFetchedOnce == Spec => []FetchedOnce
<1>1. LockerSafe => FetchedOnce
  BY DEF LockerSafe
<1> QED BY <1>1, LockerInvariant, PTL

\* A local tarball that was repacked is never served from what the store has
\* of the one before: a fetch that succeeds has seen the integrity it wanted.
THEOREM TarballsAreRead == Spec => []FetchReadsTheTarball
<1>1. ResultInv => FetchReadsTheTarball
  BY DEF ResultInv, TarballsSeen, FetchReadsTheTarball
<1> QED BY <1>1, LockerInvariant, PTL

\* A call that wants the manifest gets it, from the fetch it started, the one
\* it joined, the reader it wrapped over it or the value that replaced it.
THEOREM ManifestsArrive == Spec => []RawCallsGetManifest
<1>1. TypeOK /\ ResultInv => RawCallsGetManifest
  <2> SUFFICES ASSUME ResultInv, NEW c \in Calls, Succeeded(c), WantsManifest(req[c]),
                      Pkg(c) \in HasManifest
               PROVE  RefManifest(ref[c])
    BY DEF RawCallsGetManifest
  <2> DEFINE r == ref[c]
  <2>1. Held(r, Pkg(c)) /\ HasRaw(r) /\ RefOk(r)
    BY DEF ResultInv, CallsHold, Succeeded
  <2>2. CASE r.k = "R2"
    BY <2>1, <2>2 DEF RefManifest, Held
  <2>3. CASE r.k # "R2"
    <3>1. r.by \in Calls /\ Pkg(r.by) = Pkg(c) /\ fetch[r.by].st = "ok"
          /\ (r.k = "S" => fetch[r.by].from = "remote") /\ r.k \in {"R1", "S"}
      BY <2>1, <2>3 DEF Held, FetchRef, RefOk, Refs, Base
    <3>2. fetch[r.by].man
      BY <2>1, <3>1 DEF ResultInv, ManifestsRead, HasRaw
    <3> QED BY <2>3, <3>2 DEF RefManifest
  <2> QED BY <2>2, <2>3
<1> QED BY <1>1, LockerInvariant, PTL

\* A call that comes after the reactions of a fetch is told that the files
\* come from the store, whichever promise the entry holds by then.
THEOREM LateOnesReuse == Spec => []LateJoinersReuse
<1>1. TypeOK /\ LockInv /\ ResultInv => LateJoinersReuse
  <2> SUFFICES ASSUME TypeOK, LockInv, ResultInv, NEW c \in Calls, Succeeded(c), late[c]
               PROVE  RefFrom(ref[c]) # "remote"
    BY DEF LateJoinersReuse
  <2> DEFINE r == ref[c]
             b == Base(r)
  <2>1. Held(r, Pkg(c)) /\ react[b.by] = 2 /\ Reused(r) /\ RefOk(r)
    BY DEF ResultInv, CallsHold, Succeeded
  <2>2. RefFrom(r) = IF b.k = "S" THEN "store" ELSE fetch[b.by].from
    BY DEF RefFrom, Base
  <2>3. b.k # "S" => b.k = "R1" /\ fetch[b.by].st = "ok"
    <3>1. CASE r.k = "R2"
      <4>1. r.by \in Calls /\ b = wrap[r.by].on /\ wrap[r.by].st = "ok"
        BY <2>1, <3>1 DEF Held, RefOk, Refs, Base
      <4>2. b \in GenRefs
        BY <4>1 DEF LockInv, WrapsOnFetches
      <4> QED BY <4>1, <4>2 DEF ResultInv, ReadersRead, GenRefs
    <3>2. CASE r.k # "R2"
      BY <2>1, <3>2 DEF Held, RefOk, Refs, Base
    <3> QED BY <3>1, <3>2
  <2> QED BY <2>1, <2>2, <2>3 DEF Reused
<1> QED BY <1>1, LockerInvariant, PTL DEF LockerSafe
=============================================================================
