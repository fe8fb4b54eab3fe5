--------------------------- MODULE StoreRequests ---------------------------
\* Packages requested through a store server (store/server/src):
\* connectStoreController.ts sends /requestPackage and then
\* /packageFilesResponse with the same msgId, over a fetch that repeats a
\* request whose answer was lost; createServer.ts keeps the promise of the
\* files between the two.
EXTENDS Naturals, FiniteSets

CONSTANTS
  Calls,      \* requestPackage calls of the client, named by their msgId
  SkipFetch,  \* those with skipFetch, for which the client asks no files
  MaxLost     \* answers lost on the way

RequestsAssumption == SkipFetch \subseteq Calls /\ MaxLost \in Nat

VARIABLES
  asked,          \* where each call is on the client
  try,            \* the connection its request is on
  handlers,       \* requests the server works on
  answers,        \* answers on their way
  filesPromises,  \* msgIds whose fetching promise the server holds
  fetched,        \* state of the store's fetch behind a promise
  lost

reqVars == <<asked, try, handlers, answers, filesPromises, fetched, lost>>

Urls == {"requestPackage", "packageFilesResponse"}
\* A repeated request has a number of its own: the server sees two.
Requests == [id : Calls, url : Urls, try : 0..MaxLost]
Results == {"ok", "error"}

RequestsTypeOK ==
  /\ asked \in [Calls -> {"new", "body", "files", "done", "failed"}]
  /\ try \in [Calls -> 0..MaxLost]
  /\ handlers \subseteq Requests
  /\ answers \subseteq [to : Requests, res : Results]
  /\ filesPromises \subseteq Calls
  /\ fetched \in [Calls -> {"none", "running", "ok", "failed"}]
  /\ lost \in 0..MaxLost

Init ==
  /\ asked = [c \in Calls |-> "new"]
  /\ try = [c \in Calls |-> 0]
  /\ handlers = {} /\ answers = {} /\ filesPromises = {}
  /\ fetched = [c \in Calls |-> "none"]
  /\ lost = 0

Request(c, u) == [id |-> c, url |-> u, try |-> try[c]]

-----------------------------------------------------------------------------
\* The client

Ask(c) ==
  /\ asked[c] = "new"
  /\ asked' = [asked EXCEPT ![c] = "body"]
  /\ handlers' = handlers \cup {Request(c, "requestPackage")}
  /\ UNCHANGED <<try, answers, filesPromises, fetched, lost>>

\* The body has come: the files are asked for, unless fetching is skipped.
BodyArrives(a) ==
  LET c == a.to.id IN
  /\ a.to.url = "requestPackage" /\ asked[c] = "body"
  /\ \/ a.res = "error" /\ asked' = [asked EXCEPT ![c] = "failed"] /\ UNCHANGED handlers
     \/ /\ a.res = "ok"
        /\ asked' = [asked EXCEPT ![c] = IF c \in SkipFetch THEN "done" ELSE "files"]
        /\ handlers' = IF c \in SkipFetch THEN handlers
                       ELSE handlers \cup {Request(c, "packageFilesResponse")}
  /\ answers' = answers \ {a}
  /\ UNCHANGED <<try, filesPromises, fetched, lost>>

FilesArrive(a) ==
  LET c == a.to.id IN
  /\ a.to.url = "packageFilesResponse" /\ asked[c] = "files"
  /\ asked' = [asked EXCEPT ![c] = IF a.res = "ok" THEN "done" ELSE "failed"]
  /\ answers' = answers \ {a}
  /\ UNCHANGED <<try, handlers, filesPromises, fetched, lost>>

\* The connection breaks while the server works or when its answer is on the
\* way: the client sends the request again (limitFetch, retries: 100).
ConnectionBreaks(r) ==
  /\ lost < MaxLost
  /\ r.try = try[r.id]
  /\ \/ r \in handlers /\ UNCHANGED answers
     \/ \E a \in answers : a.to = r /\ answers' = answers \ {a}
  /\ try' = [try EXCEPT ![r.id] = lost + 1]
  /\ handlers' = handlers \cup {[r EXCEPT !.try = lost + 1]}
  /\ lost' = lost + 1
  /\ UNCHANGED <<asked, filesPromises, fetched>>

-----------------------------------------------------------------------------
\* The server.  An answer to a connection that broke goes nowhere.

Answer(r, res) ==
  /\ handlers' = handlers \ {r}
  /\ answers' = IF r.try = try[r.id] THEN answers \cup {[to |-> r, res |-> res]} ELSE answers

\* store.requestPackage answers; the promise of its files, if it fetches
\* them, is kept under the msgId.  (Known packages are fetched even with
\* skipFetch.)
HandleRequest(r) ==
  /\ r \in handlers /\ r.url = "requestPackage"
  /\ \/ /\ Answer(r, "ok")
        /\ \/ /\ filesPromises' = filesPromises \cup {r.id}
              /\ fetched' = [fetched EXCEPT ![r.id] = IF @ = "none" THEN "running" ELSE @]
           \/ r.id \in SkipFetch /\ UNCHANGED <<filesPromises, fetched>>
     \/ /\ Answer(r, "error")
        /\ UNCHANGED <<filesPromises, fetched>>
  /\ UNCHANGED <<asked, try, lost>>

FetchEnds(c) ==
  /\ fetched[c] = "running"
  /\ \E s \in {"ok", "failed"} : fetched' = [fetched EXCEPT ![c] = s]
  /\ UNCHANGED <<asked, try, handlers, answers, filesPromises, lost>>

\* Mutant of HandleFiles: the promise is not deleted.
HandleFilesKeeping(r) ==
  /\ r \in handlers /\ r.url = "packageFilesResponse"
  /\ fetched[r.id] \in {"ok", "failed"}
  /\ Answer(r, IF fetched[r.id] = "ok" THEN "ok" ELSE "error")
  /\ UNCHANGED <<asked, try, filesPromises, fetched, lost>>

\* Mutant of HandleFiles: a promise that is gone is waited for.
HandleFilesWaiting(r) ==
  /\ r \in handlers /\ r.url = "packageFilesResponse"
  /\ IF r.id \in filesPromises /\ fetched[r.id] \in {"ok", "failed"}
     THEN /\ filesPromises' = filesPromises \ {r.id}
          /\ Answer(r, IF fetched[r.id] = "ok" THEN "ok" ELSE "error")
     ELSE UNCHANGED <<handlers, answers, filesPromises>>
  /\ UNCHANGED <<asked, try, fetched, lost>>

\* Mutant of HandleFiles: the promise is deleted and not awaited.
HandleFilesAtOnce(r) ==
  /\ r \in handlers /\ r.url = "packageFilesResponse"
  /\ filesPromises' = filesPromises \ {r.id}
  /\ Answer(r, IF r.id \in filesPromises THEN "ok" ELSE "error")
  /\ UNCHANGED <<asked, try, fetched, lost>>

\* The promise is awaited, then deleted.  No promise (it was deleted for an
\* earlier try) or a failed one is a 503.
HandleFiles(r) ==
  /\ r \in handlers /\ r.url = "packageFilesResponse"
  /\ \/ /\ r.id \in filesPromises /\ fetched[r.id] = "ok"
        /\ filesPromises' = filesPromises \ {r.id}
        /\ Answer(r, "ok")
     \/ /\ r.id \in filesPromises => fetched[r.id] = "failed"
        /\ Answer(r, "error")
        /\ UNCHANGED filesPromises
  /\ UNCHANGED <<asked, try, fetched, lost>>

-----------------------------------------------------------------------------
Step ==
  \/ \E a \in answers : BodyArrives(a) \/ FilesArrive(a)
  \/ \E r \in handlers : HandleRequest(r) \/ HandleFiles(r)
  \/ \E c \in Calls : Ask(c) \/ FetchEnds(c)
AllSettled == (\A c \in Calls : asked[c] \in {"done", "failed"}) /\ handlers = {}
              /\ UNCHANGED reqVars
Next == Step \/ AllSettled \/ \E r \in Requests : ConnectionBreaks(r)

SafetySpec == Init /\ [][Next]_reqVars
Spec == SafetySpec /\ WF_reqVars(Step)

-----------------------------------------------------------------------------
\* Properties

\* A client is told that its files are there only when they are: whatever
\* was repeated, and however the two requests of a call overlap.
AnsweredFilesAreFetched ==
  \A c \in Calls \ SkipFetch : asked[c] = "done" => fetched[c] = "ok"

\* As long as no connection breaks, a promise the server still holds when
\* its call has ended is one of skipFetch or of a failed fetch: the server
\* does not fill up with the promises of packages it delivered.  (A repeated
\* /requestPackage does leave one behind.)
DeliveredPromisesAreDropped ==
  \A c \in filesPromises : asked[c] = "done" /\ lost = 0 => c \in SkipFetch

\* Every call ends: repeated requests are answered, with an error if their
\* promise is gone, and never wait for a promise that nobody settles.
CallsEnded == \A c \in Calls : asked[c] \in {"done", "failed"}
=============================================================================
