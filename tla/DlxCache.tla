------------------------------ MODULE DlxCache ------------------------------
\* The cache of pnpm dlx (exec/plugin-commands-script-runners/src/dlx.ts) and its
\* cleaning (store/plugin-commands-store/src/cleanExpiredDlxCache.ts): processes
\* that share the directory of one set of packages, in which pkg is a link to
\* the directory that some process installed into.
EXTENDS Naturals, FiniteSets

CONSTANTS
  Runs,     \* processes of pnpm dlx, each with a directory of its own
  Cleans,   \* processes that clean the cache
  MaxAge,   \* dlxCacheMaxAge
  MaxTime,  \* bound of the clock
  MaxKills  \* bound of the processes that are killed

DlxAssumption ==
  /\ {"none", "pkg"} \cap Runs = {} /\ Runs \cap Cleans = {} /\ MaxAge \in Nat \ {0}
  /\ MaxTime \in Nat /\ MaxKills \in Nat

VARIABLES
  dirs,    \* process -> its directory: "none", "partial" or "whole"
  link,    \* pkg: [to, at], to "none" if there is no link
  dlx,     \* process -> [st, dir, saw]
  clean,   \* process -> [st, now, target, rest, kept]
  clock,
  kills,
  crossed, \* the processes that were at work while one of the other kind was
  spoiled  \* an installation went on after its directory was removed, or a crossed
           \* clean was killed: a directory that is not whole may be linked

dlxVars == <<dirs, link, dlx, clean, clock, kills, crossed, spoiled>>

NoLink == [to |-> "none", at |-> 0]
Idle == [st |-> "idle", dir |-> "none", saw |-> "none"]
Resting == [st |-> "idle", now |-> 0, target |-> "none", rest |-> {}, kept |-> NoLink]

DlxInit ==
  /\ dirs = [r \in Runs |-> "none"] /\ link = NoLink
  /\ dlx = [r \in Runs |-> Idle] /\ clean = [c \in Cleans |-> Resting]
  /\ clock = 0 /\ kills = 0 /\ crossed = {} /\ spoiled = FALSE

RunAtWork(r) == dlx[r].st \in {"adding", "linking", "replacing", "running"}
CleanAtWork(c) == clean[c].st \notin {"idle", "done", "dead"}
AllAtWork == {r \in Runs : RunAtWork(r)} \cup {c \in Cleans : CleanAtWork(c)}

\* Who begins crosses those at work: all of them if there is one of each kind,
\* or two that clean.
Crossing(p) == crossed' = crossed \cup
  (IF p \in Runs
   THEN (IF \E c \in Cleans : CleanAtWork(c) THEN {p} \cup AllAtWork ELSE {})
   ELSE (IF AllAtWork # {} THEN {p} \cup AllAtWork ELSE {}))

\* isOutdated, and its opposite in getValidCacheDir: to the same moment.
Outdated(l, now) == l.at + MaxAge < now

Become(r, st) == dlx' = [dlx EXCEPT ![r].st = st]

\* getValidCacheDir: realpath fails of a link whose target is gone.
IsValid(l) == l.to # "none" /\ dirs[l.to] # "none" /\ ~Outdated(l, clock)

\* findCache
FindCache(r) ==
  /\ dlx[r].st = "idle" /\ Crossing(r)
  /\ IF IsValid(link)
     THEN dlx' = [dlx EXCEPT ![r] = [@ EXCEPT !.st = "running", !.dir = link.to]] /\ UNCHANGED dirs
     ELSE /\ dlx' = [dlx EXCEPT ![r] = [@ EXCEPT !.st = "adding", !.dir = r]]
          /\ dirs' = [dirs EXCEPT ![r] = "partial"]
  /\ UNCHANGED <<link, clean, clock, kills, spoiled>>

\* add.handler: if the directory was removed beneath it, it fails, or what it
\* installed after that is there.
Add(r) ==
  /\ dlx[r].st = "adding"
  /\ \/ dirs[r] = "partial" /\ dirs' = [dirs EXCEPT ![r] = "whole"] /\ Become(r, "linking")
     \/ dirs[r] = "none" /\ UNCHANGED dirs /\ Become(r, "failed")
     \/ dirs[r] = "none" /\ dirs' = [dirs EXCEPT ![r] = "partial"] /\ Become(r, "linking")
  /\ spoiled' = (spoiled \/ dirs'[r] = "partial")
  /\ UNCHANGED <<link, clean, clock, kills, crossed>>

\* symlinkDir with overwrite: a link that is there is removed first.
SymlinkDir(r) ==
  /\ dlx[r].st = "linking"
  /\ IF link.to = "none" THEN link' = [to |-> r, at |-> clock] /\ Become(r, "running")
     ELSE UNCHANGED link /\ Become(r, "replacing")
  /\ UNCHANGED <<dirs, clean, clock, kills, crossed, spoiled>>

\* A link that is gone by now is EEXIST of before: the process yields.
ReplaceLink(r) ==
  /\ dlx[r].st = "replacing"
  /\ IF link.to = "none" THEN UNCHANGED link /\ Become(r, "running")
     ELSE link' = NoLink /\ Become(r, "linking")
  /\ UNCHANGED <<dirs, clean, clock, kills, crossed, spoiled>>

\* The manifest and the command are read from the directory that was found or
\* installed, whatever pkg is now.
Execute(r) ==
  /\ dlx[r].st = "running"
  /\ dlx' = [dlx EXCEPT ![r].st = "done", ![r].saw = dirs[dlx[r].dir]]
  /\ UNCHANGED <<dirs, link, clean, clock, kills, crossed, spoiled>>

-----------------------------------------------------------------------------
Set(c, record) == clean' = [clean EXCEPT ![c] = record]
Go(c, st) == clean' = [clean EXCEPT ![c].st = st]
Children == {r \in Runs : dirs[r] # "none"} \cup (IF link.to # "none" THEN {"pkg"} ELSE {})

BeginClean(c) ==
  /\ clean[c].st = "idle" /\ Crossing(c)
  /\ Set(c, [Resting EXCEPT !.st = "stat", !.now = clock,
                            !.kept = IF IsValid(link) THEN link ELSE NoLink])
  /\ UNCHANGED <<dirs, link, dlx, clock, kills, spoiled>>

StatLink(c) ==
  /\ clean[c].st = "stat"
  /\ Go(c, IF MaxAge = 0 \/ (link.to # "none" /\ Outdated(link, clean[c].now)) THEN "removeAll" ELSE "statOrphans")
  /\ UNCHANGED <<dirs, link, dlx, clock, kills, crossed, spoiled>>

\* fs.rm: what is read of the directory is removed, and read again until it is
\* empty.
ReadAll(c) ==
  /\ clean[c].st \in {"removeAll", "removeOrphaned"} /\ clean[c].rest = {}
  /\ IF Children # {} THEN Set(c, [clean[c] EXCEPT !.rest = Children])
     ELSE Go(c, IF clean[c].st = "removeAll" THEN "statOrphans" ELSE "done")
  /\ UNCHANGED <<dirs, link, dlx, clock, kills, crossed, spoiled>>

\* One entry, a directory by and by.
RemoveOne(c) ==
  \E name \in clean[c].rest :
    /\ clean[c].st \in {"removeAll", "removeOrphaned", "removeChildren"}
    /\ IF name = "pkg" THEN link' = NoLink /\ UNCHANGED dirs
       ELSE dirs' = [dirs EXCEPT ![name] = IF @ = "whole" THEN "partial" ELSE "none"] /\ UNCHANGED link
    /\ Set(c, [clean[c] EXCEPT !.rest = IF name # "pkg" /\ dirs[name] = "whole" THEN @ ELSE @ \ {name}])
    /\ UNCHANGED <<dlx, clock, kills, crossed, spoiled>>

\* cleanOrphans
StatOrphans(c) ==
  /\ clean[c].st = "statOrphans"
  /\ Go(c, IF link.to = "none" THEN "removeOrphaned" ELSE "readTarget")
  /\ UNCHANGED <<dirs, link, dlx, clock, kills, crossed, spoiled>>

ReadTarget(c) ==
  /\ clean[c].st = "readTarget"
  /\ Set(c, [clean[c] EXCEPT !.st = "readChildren",
       !.target = IF link.to # "none" /\ dirs[link.to] # "none" THEN link.to ELSE "none"])
  /\ UNCHANGED <<dirs, link, dlx, clock, kills, crossed, spoiled>>

ReadChildren(c) ==
  /\ clean[c].st = "readChildren"
  /\ Set(c, [clean[c] EXCEPT !.st = "removeChildren", !.rest = Children \ {"pkg", clean[c].target}])
  /\ UNCHANGED <<dirs, link, dlx, clock, kills, crossed, spoiled>>

EndClean(c) ==
  /\ clean[c].st = "removeChildren" /\ clean[c].rest = {} /\ Go(c, "done")
  /\ UNCHANGED <<dirs, link, dlx, clock, kills, crossed, spoiled>>

Kill(p) ==
  /\ kills < MaxKills /\ kills' = kills + 1 /\ p \in AllAtWork
  /\ IF p \in Runs THEN Become(p, "dead") /\ UNCHANGED <<clean, spoiled>>
     ELSE Go(p, "dead") /\ UNCHANGED dlx /\ spoiled' = (spoiled \/ p \in crossed)
  /\ UNCHANGED <<dirs, link, clock, crossed>>

Tick ==
  /\ clock < MaxTime /\ clock' = clock + 1
  /\ UNCHANGED <<dirs, link, dlx, clean, kills, crossed, spoiled>>

\* Nobody is left, whenever they began.
Ended ==
  /\ \A r \in Runs : dlx[r].st \in {"done", "failed", "dead"}
  /\ \A c \in Cleans : clean[c].st \in {"done", "dead"}
  /\ clock = MaxTime /\ UNCHANGED dlxVars

DlxNext ==
  \/ \E r \in Runs : FindCache(r) \/ Add(r) \/ SymlinkDir(r) \/ ReplaceLink(r) \/ Execute(r) \/ Kill(r)
  \/ \E c \in Cleans :
       \/ BeginClean(c) \/ StatLink(c) \/ ReadAll(c) \/ RemoveOne(c)
       \/ StatOrphans(c) \/ ReadTarget(c) \/ ReadChildren(c) \/ EndClean(c) \/ Kill(c)
  \/ Tick
  \/ Ended

DlxSpec == DlxInit /\ [][DlxNext]_dlxVars

-----------------------------------------------------------------------------
DlxTypeOK ==
  /\ dirs \in [Runs -> {"none", "partial", "whole"}]
  /\ link \in [to : Runs \cup {"none"}, at : 0 .. MaxTime]
  /\ dlx \in [Runs -> [st : {"idle", "adding", "linking", "replacing", "running", "done", "failed", "dead"},
                       dir : Runs \cup {"none"}, saw : {"none", "partial", "whole"}]]
  /\ \A c \in Cleans : clean[c].rest \subseteq Runs \cup {"pkg"}
  /\ clock \in 0 .. MaxTime /\ kills \in 0 .. MaxKills
  /\ crossed \subseteq Runs \cup Cleans /\ spoiled \in BOOLEAN

\* A command runs from a whole installation and never fails for what others left,
\* however many processes install the same and whoever was killed, unless the
\* cache was cleaned while it was at work, or had been while one was, and what
\* was left then is not whole.
RunsAreWhole == \A r \in Runs \ crossed : ~spoiled =>
  dlx[r].st # "failed" /\ (dlx[r].st = "done" => dlx[r].saw = "whole")

\* A clean that nothing crosses keeps what pnpm dlx would still use at that
\* moment, removes what it would not, and leaves no directory of a process that
\* was killed or that lost the link to another.
CleanedIsExact == \A c \in Cleans \ crossed : ~spoiled =>
  /\ CleanAtWork(c) /\ clean[c].kept.to # "none" =>
       link = clean[c].kept /\ dirs[link.to] = "whole"
  /\ clean[c].st = "removeChildren" /\ clean[c].rest = {} =>
       (link.to # "none" => ~Outdated(link, clean[c].now))
       /\ \A r \in Runs : dirs[r] # "none" => r = link.to
=============================================================================
