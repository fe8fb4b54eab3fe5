----------------------------- MODULE MetaCache -----------------------------
\* The metadata of one package (resolving/npm-resolver/src/pickPackage.ts):
\* kept in memory and in a mirror file, read and written by concurrent
\* requests through a reference-counted p-limit, from a registry that goes on
\* publishing.  Version n is published at time n; metadata that knows the
\* versions up to n has upTo = n.
EXTENDS Naturals, FiniteSets, Sequences

CONSTANTS
  Requests,
  Wanted,       \* request -> [type, v]: the latest "tag", "version" v, or what
                \* was published by the "time" v
  LastVersion,  \* when the registry stops publishing
  MaxFailures   \* fetches and saves that fail

MetaAssumption ==
  /\ IsFiniteSet(Requests)
  /\ Wanted \in [Requests -> [type : {"tag", "version", "time"}, v : Nat]]
  /\ LastVersion \in Nat /\ MaxFailures \in Nat

NoMeta == [upTo |-> 0, sent |-> 0, cachedAt |-> 0]

VARIABLES
  mode,       \* ctx.offline, ctx.preferOffline (pickLowestVersion reads as that)
  now,        \* the time of the registry
  start,      \* when the process started
  metaCache,
  mirror,     \* the file pkgMirror
  limiter,    \* metafileOperationLimits[pkgMirror]: its count and its queue
  at,         \* where each request is
  asked,      \* the stage for which it read the mirror last
  cached,     \* metaCachedInStore, or the time the request was sent
  used,       \* the metadata it picked from
  fellBack,   \* requests whose fetch failed
  unsaved,    \* history: a save failed
  failures

metaVars == <<mode, now, start, metaCache, mirror, limiter, at, asked, cached, used,
              fellBack, unsaved, failures>>

Stages == {"offline", "version", "time"}
Metas == [upTo : 0..LastVersion, sent : 0..LastVersion, cachedAt : 0..LastVersion]

MetaTypeOK ==
  /\ mode \in {"online", "preferOffline", "offline"}
  /\ start \in 1..LastVersion /\ now \in start..LastVersion
  /\ {metaCache, mirror} \subseteq Metas
  /\ limiter.count \in 0..(2 * Cardinality(Requests))
  /\ limiter.queue \in Seq([op : {"load", "save"}, r : Requests, meta : Metas])
  /\ at \in [Requests -> Stages \cup {"new", "fetch", "sent", "fallback", "done", "failed"}]
  /\ asked \in [Requests -> Stages \cup {"new"}]
  /\ cached \in [Requests -> Metas] /\ used \in [Requests -> Metas]
  /\ fellBack \subseteq Requests /\ unsaved \in BOOLEAN /\ failures \in 0..MaxFailures

StartsWith(file, time) ==
  /\ metaCache = NoMeta /\ mirror = file
  /\ now = time /\ start = time
  /\ limiter = [count |-> 0, queue |-> <<>>]
  /\ at = [r \in Requests |-> "new"]
  /\ asked = [r \in Requests |-> "new"]
  /\ cached = [r \in Requests |-> NoMeta]
  /\ used = [r \in Requests |-> NoMeta]
  /\ fellBack = {} /\ unsaved = FALSE /\ failures = 0

\* The mirror may be of an earlier process, and out of date.
Init ==
  /\ mode \in {"online", "preferOffline", "offline"}
  /\ \E time \in 1..LastVersion :
       \E file \in {NoMeta} \cup {[upTo |-> n, sent |-> n, cachedAt |-> n] : n \in 1..time} :
         StartsWith(file, time)

-----------------------------------------------------------------------------
\* The version picked from metadata that is there, 0 when there is none.
Pick(r, meta) ==
  CASE Wanted[r].type = "version" -> IF Wanted[r].v <= meta.upTo THEN Wanted[r].v ELSE 0
    [] Wanted[r].type = "time" -> IF Wanted[r].v <= meta.upTo THEN Wanted[r].v ELSE meta.upTo
    [] OTHER -> meta.upTo

Entered == [limiter EXCEPT !.count = @ + 1]
Left == [limiter EXCEPT !.count = @ - 1]

\* The function given to runLimited returns.
Finish(r, meta) ==
  /\ at' = [at EXCEPT ![r] = IF meta = NoMeta THEN "failed" ELSE "done"]
  /\ used' = [used EXCEPT ![r] = meta]

\* Memory first; else the request enters runLimited.
Begin(r) ==
  /\ at[r] = "new"
  /\ IF metaCache # NoMeta
     THEN Finish(r, metaCache) /\ UNCHANGED limiter
     ELSE /\ at' = [at EXCEPT ![r] = "offline"]
          /\ limiter' = Entered
          /\ UNCHANGED used
  /\ UNCHANGED <<mode, now, start, metaCache, mirror, asked, cached, fellBack, unsaved, failures>>

ReadsMirror(r) ==
  CASE at[r] = "offline" -> mode # "online"
    [] at[r] = "version" -> Wanted[r].type = "version"
    [] at[r] = "time" -> Wanted[r].type = "time"
    [] OTHER -> FALSE

\* limit(loadMeta), unless an earlier stage has read the file.
AskMirror(r) ==
  /\ ReadsMirror(r) /\ cached[r] = NoMeta /\ asked[r] # at[r]
  /\ asked' = [asked EXCEPT ![r] = at[r]]
  /\ limiter' = [limiter EXCEPT !.queue =
       Append(@, [op |-> "load", r |-> r, meta |-> NoMeta])]
  /\ UNCHANGED <<mode, now, start, metaCache, mirror, at, cached, used, fellBack, unsaved, failures>>

WaitsForLoad(r) ==
  \E i \in DOMAIN limiter.queue : limiter.queue[i].op = "load" /\ limiter.queue[i].r = r

\* Mutant of MirrorServes: what the mirror has is good enough.
MirrorServesAnything(r) ==
  CASE at[r] = "offline" -> mode = "preferOffline" /\ Pick(r, cached[r]) # 0
    [] at[r] = "version" -> Pick(r, cached[r]) # 0
    [] OTHER -> Pick(r, cached[r]) # 0

\* The mirror is used if one may be offline, if it has the very version that
\* is asked for, or if it was fetched after the time that is asked about.
MirrorServes(r) ==
  CASE at[r] = "offline" -> mode = "preferOffline" /\ Pick(r, cached[r]) # 0
    [] at[r] = "version" -> Pick(r, cached[r]) # 0
    [] OTHER -> cached[r].cachedAt >= Wanted[r].v /\ Pick(r, cached[r]) # 0

NextStage(s) == CASE s = "offline" -> "version" [] s = "version" -> "time" [] OTHER -> "fetch"

Decide(r) ==
  /\ at[r] \in Stages
  /\ ReadsMirror(r) => cached[r] # NoMeta \/ (asked[r] = at[r] /\ ~WaitsForLoad(r))
  /\ IF ReadsMirror(r) /\ (MirrorServes(r) \/ mode = "offline")
     THEN Finish(r, cached[r]) /\ limiter' = Left
     ELSE /\ at' = [at EXCEPT ![r] = NextStage(at[r])]
          /\ UNCHANGED <<used, limiter>>
  /\ UNCHANGED <<mode, now, start, metaCache, mirror, asked, cached, fellBack, unsaved, failures>>

-----------------------------------------------------------------------------
Send(r) ==
  /\ at[r] = "fetch"
  /\ at' = [at EXCEPT ![r] = "sent"]
  /\ cached' = [cached EXCEPT ![r] = [NoMeta EXCEPT !.sent = now]]
  /\ UNCHANGED <<mode, now, start, metaCache, mirror, limiter, asked, used, fellBack, unsaved, failures>>

\* Mutant of Saving: the save is not counted among the users of the limiter.
SavingUncounted(r, meta) ==
  [count |-> limiter.count - 1,
   queue |-> Append(limiter.queue, [op |-> "save", r |-> r, meta |-> meta])]

\* Another runLimited, which nobody awaits, while this request leaves its own.
Saving(r, meta) ==
  [count |-> limiter.count,
   queue |-> Append(limiter.queue, [op |-> "save", r |-> r, meta |-> meta])]

\* The registry answers with what it had at some time on the way.
Fetched(r) ==
  /\ at[r] = "sent"
  /\ \E n \in cached[r].sent..now :
       LET meta == [upTo |-> n, sent |-> cached[r].sent, cachedAt |-> now] IN
       /\ metaCache' = meta
       /\ limiter' = Saving(r, meta)
       /\ Finish(r, meta)
  /\ UNCHANGED <<mode, now, start, mirror, asked, cached, fellBack, unsaved, failures>>

FetchFails(r) ==
  /\ at[r] = "sent" /\ failures < MaxFailures
  /\ failures' = failures + 1
  /\ at' = [at EXCEPT ![r] = "fallback"]
  /\ fellBack' = fellBack \cup {r}
  /\ UNCHANGED <<mode, now, start, metaCache, mirror, limiter, asked, cached, used, unsaved>>

\* The mirror, read outside the limit and not cached in memory, or the error.
FallBack(r) ==
  /\ at[r] = "fallback"
  /\ Finish(r, mirror)
  /\ limiter' = Left
  /\ UNCHANGED <<mode, now, start, metaCache, mirror, asked, cached, fellBack, unsaved, failures>>

-----------------------------------------------------------------------------
\* Mutant of NextOp: the operations run in any order.
AnyOp == DOMAIN limiter.queue

\* p-limit of one: first come, first served.
NextOp == {1} \cap DOMAIN limiter.queue

Without(i) == SubSeq(limiter.queue, 1, i - 1)
              \o SubSeq(limiter.queue, i + 1, Len(limiter.queue))

Load(i) ==
  /\ limiter.queue[i].op = "load"
  /\ cached' = [cached EXCEPT ![limiter.queue[i].r] = mirror]
  /\ limiter' = [limiter EXCEPT !.queue = Without(i)]
  /\ UNCHANGED <<mirror, unsaved, failures>>

\* Written beside the mirror and renamed over it; an error is swallowed.
Save(i) ==
  /\ limiter.queue[i].op = "save"
  /\ limiter' = [count |-> limiter.count - 1, queue |-> Without(i)]
  /\ \/ mirror' = limiter.queue[i].meta /\ UNCHANGED <<unsaved, failures>>
     \/ /\ failures < MaxFailures /\ failures' = failures + 1
        /\ unsaved' = TRUE /\ UNCHANGED mirror
  /\ UNCHANGED cached

RunOp ==
  /\ \E i \in NextOp : Load(i) \/ Save(i)
  /\ UNCHANGED <<mode, now, start, metaCache, at, asked, used, fellBack>>

\* The registry publishes a version.
Publish ==
  /\ now < LastVersion
  /\ now' = now + 1
  /\ UNCHANGED <<mode, start, metaCache, mirror, limiter, at, asked, cached, used, fellBack,
                 unsaved, failures>>

Step == RunOp \/ \E r \in Requests :
  Begin(r) \/ AskMirror(r) \/ Decide(r) \/ Send(r) \/ Fetched(r) \/ FallBack(r)
Over == (\A r \in Requests : at[r] \in {"done", "failed"}) /\ limiter.queue = <<>>
        /\ UNCHANGED metaVars
Next == Step \/ Over \/ Publish \/ \E r \in Requests : FetchFails(r)

SafetySpec == Init /\ [][Next]_metaVars
Spec == SafetySpec /\ WF_metaVars(Step)

-----------------------------------------------------------------------------
\* Properties

\* A request that may use the network and whose own fetch does not fail finds
\* the version it asks for, if that was published before the process began,
\* and everything published up to the time it asks about (but for what came
\* out while the metadata was on its way): stale mirrors, the fallbacks of
\* other requests and late answers do not hide it.
PublishedIsFound ==
  \A r \in Requests \ fellBack :
    at[r] \in {"done", "failed"} /\ mode = "online" /\ Wanted[r].v <= start =>
      CASE Wanted[r].type = "version" -> Pick(r, used[r]) = Wanted[r].v
        [] Wanted[r].type = "time" ->
             Wanted[r].v <= used[r].upTo \/ Wanted[r].v \in used[r].sent..used[r].cachedAt
        [] OTHER -> used[r].upTo >= start

\* When the process has nothing more to do the mirror holds what it has in
\* memory: concurrent requests set the one and queue the save of the other in
\* the same order.
MirrorFollowsMemory ==
  limiter.queue = <<>> /\ metaCache # NoMeta /\ ~unsaved => mirror = metaCache

\* A limiter is dropped only when nothing waits in its queue, so that two
\* limiters never work on one file.
LimiterOutlivesItsQueue == limiter.count = 0 => limiter.queue = <<>>
=============================================================================
