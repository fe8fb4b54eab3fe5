-------------------------- MODULE ComponentsProofs --------------------------
(***************************************************************************)
(* Proofs about components that share no state, each for any values of its *)
(* constants: the store server and its clients (StoreServer), the requests *)
(* to it (StoreRequests), store prune (StorePrune) and the cache of pnpm   *)
(* dlx (DlxCache); and the properties of the model of all components.      *)
(***************************************************************************)
EXTENDS RecursiveRunProofs, WorkspaceProofs, FiniteSetTheorems, TLAPS

-----------------------------------------------------------------------------
\* The store server

\* Servers whose server.json is not at the path, or not any more.
Displaced == {s \in Servers : server[s] # "off" /\ (json = NoFile \/ json.owner # s)}

Serving == {"ready", "closing", "signalled", "gone"}

\* The file belongs to a server that created it, and is whole only after that
\* server listened; clients follow it no sooner.
FileFollowsServer ==
  /\ json # NoFile => server[json.owner] \notin {"off", "refused"}
  /\ json # NoFile /\ json.full => server[json.owner] \in Serving
  /\ \A c \in Clients : found[c] # NoFile => server[found[c]] \in Serving

\* Until a client removes a file, who runs owns it.
RunningOwnsFile ==
  removals = 0 => \A s \in Servers : server[s] \in Srv!Exists => json # NoFile /\ json.owner = s

\* Where a server is that a client asked to stop, and that its exit handler
\* removed the file, if it had the time.
StopsAsAsked ==
  /\ \A c \in Clients : client[c] \in {"asking", "stopping", "stopped"} => found[c] # NoFile
  /\ \A c \in Clients :
       client[c] = "stopping" => server[found[c]] \in {"closing", "signalled", "gone"}
  /\ \A c \in Clients : client[c] = "stopped" => server[found[c]] \in {"signalled", "gone"}
  /\ crashes = 0 =>
       \A s \in Servers : server[s] = "gone" => json = NoFile \/ json.owner # s

ServerInv ==
  /\ Srv!ServerTypeOK
  /\ removals <= Cardinality(Displaced)
  /\ FileFollowsServer
  /\ RunningOwnsFile
  /\ StopsAsAsked

\* The counts of the server's model are those of the library.
LEMMA ServersAreCounted ==
  ASSUME NEW S
  PROVE  Srv!Cardinality(S) = Cardinality(S) /\ (Srv!IsFiniteSet(S) <=> IsFiniteSet(S))
<1>1. Srv!Cardinality(S) = Cardinality(S)
  BY Zenon DEF Srv!Cardinality, Cardinality
<1>2. Srv!IsFiniteSet(S) <=> IsFiniteSet(S)
  BY Zenon DEF Srv!IsFiniteSet, IsFiniteSet
<1> QED BY <1>1, <1>2

LEMMA ServersAreFinite ==
  ASSUME Srv!ServerAssumption
  PROVE  IsFiniteSet(Servers) /\ Srv!Cardinality(Servers) = Cardinality(Servers)
  BY ServersAreCounted DEF Srv!ServerAssumption

LEMMA ServerStarts == ASSUME Srv!ServerAssumption, Srv!Init PROVE ServerInv
<1> USE DEF Srv!Init, Srv!ServerAssumption
<1>1. Displaced = {}
  BY DEF Displaced
<1>2. Srv!ServerTypeOK
  <2>1. Cardinality(Servers) \in Nat
    BY ServersAreFinite, FS_CardinalityType
  <2> QED BY <2>1, ServersAreFinite DEF Srv!ServerTypeOK
<1>3. removals <= Cardinality(Displaced)
  BY <1>1, FS_EmptySet
<1> QED BY <1>2, <1>3 DEF ServerInv, FileFollowsServer, RunningOwnsFile, StopsAsAsked, Srv!Exists

\* No server that is displaced ever owns a file again, so clients remove at most
\* one file of each server.
LEMMA RemovalsAreBounded ==
  ASSUME Srv!ServerAssumption, ServerInv, Displaced \subseteq Displaced',
         \/ removals' = removals
         \/ /\ removals' = removals + 1
            /\ Displaced # Displaced'
  PROVE  removals' <= Cardinality(Displaced') /\ removals' \in 0..Cardinality(Servers)
<1> USE DEF ServerInv, Srv!ServerTypeOK, Srv!ServerAssumption
<1>1. Displaced' \subseteq Servers
  BY DEF Displaced
<1>2. IsFiniteSet(Displaced') /\ Cardinality(Displaced') <= Cardinality(Servers)
  BY <1>1, ServersAreFinite, FS_Subset
<1>3. IsFiniteSet(Displaced)
  BY <1>2, FS_Subset
<1>4. Cardinality(Displaced) \in Nat /\ Cardinality(Displaced') \in Nat /\ Cardinality(Servers) \in Nat
  BY <1>2, <1>3, ServersAreFinite, FS_CardinalityType
<1>5. /\ Cardinality(Displaced) <= Cardinality(Displaced')
      /\ Cardinality(Displaced') = Cardinality(Displaced) => Displaced = Displaced'
  BY <1>2, FS_Subset
<1> QED BY <1>2, <1>4, <1>5

\* A server comes up: it owns the file it creates, or finds one.
LEMMA OpeningKeeps ==
  ASSUME Srv!ServerAssumption, ServerInv, NEW s \in Servers, server[s] = "off", Srv!OpenJson(s),
         UNCHANGED <<client, started, found, removals, crashes>>
  PROVE  ServerInv'
<1> USE DEF ServerInv, Srv!ServerTypeOK, Srv!ServerAssumption, Srv!OpenJson, Srv!Exists
<1>0. [owner |-> s, full |-> FALSE] \in [owner : Servers, full : BOOLEAN]
  OBVIOUS
<1>1. Displaced \subseteq Displaced'
  BY DEF Displaced
<1>2. removals' <= Cardinality(Displaced') /\ removals' \in 0..Cardinality(Servers)
  BY <1>1, RemovalsAreBounded
<1>3. Srv!ServerTypeOK'
  <2>1. server' \in [Servers -> {"off", "refused", "gone"} \cup Srv!Exists]
    OBVIOUS
  <2>2. json' \in [owner : Servers, full : BOOLEAN] \cup {NoFile}
    BY <1>0
  <2>3. crashes' \in 0..MaxCrashes
    OBVIOUS
  <2>4. client' = client /\ started' = started /\ found' = found
    OBVIOUS
  <2> QED BY <1>2, <2>1, <2>2, <2>3, <2>4
<1>4. FileFollowsServer'
  BY DEF FileFollowsServer, Serving
<1>5. RunningOwnsFile'
  <2> SUFFICES ASSUME removals = 0, NEW t \in Servers, server'[t] \in Srv!Exists
               PROVE  json' # NoFile /\ json'.owner = t
    BY DEF RunningOwnsFile
  <2>1. server[t] \in Srv!Exists => json # NoFile /\ json.owner = t
    BY DEF RunningOwnsFile
  <2>2. CASE t = s
    <3>1. json = NoFile /\ json' = [owner |-> s, full |-> FALSE]
      BY <2>2
    <3> QED BY <1>0, <2>2, <3>1
  <2>3. CASE t # s
    BY <2>1, <2>3
  <2> QED BY <2>2, <2>3
<1>6. StopsAsAsked'
  BY DEF StopsAsAsked
<1> QED BY <1>2, <1>3, <1>4, <1>5, <1>6

LEMMA ServerKeeps ==
  ASSUME Srv!ServerAssumption, ServerInv, NEW s \in Servers,
         Srv!Listen(s) \/ Srv!Publish(s) \/ Srv!ExitServer(s) \/ Srv!CrashServer(s)
  PROVE  ServerInv'
<1> USE DEF ServerInv, Srv!ServerTypeOK, Srv!ServerAssumption, Srv!Listen, Srv!Publish,
            Srv!ExitServer, Srv!CrashServer, Srv!Exists
<1>1. Displaced \subseteq Displaced'
  BY DEF Displaced
<1>2. removals' <= Cardinality(Displaced') /\ removals' \in 0..Cardinality(Servers)
  BY <1>1, RemovalsAreBounded
<1>3. Srv!ServerTypeOK'
  <2>1. server' \in [Servers -> {"off", "refused", "gone"} \cup Srv!Exists]
    OBVIOUS
  <2>2. json' \in [owner : Servers, full : BOOLEAN] \cup {NoFile}
    OBVIOUS
  <2>3. crashes' \in 0..MaxCrashes
    OBVIOUS
  <2>4. client' = client /\ started' = started /\ found' = found
    OBVIOUS
  <2> QED BY <1>2, <2>1, <2>2, <2>3, <2>4
<1>4. FileFollowsServer'
  BY DEF FileFollowsServer, Serving
<1>5. RunningOwnsFile'
  <2> SUFFICES ASSUME removals = 0, NEW t \in Servers, server'[t] \in Srv!Exists
               PROVE  json' # NoFile /\ json'.owner = t
    BY DEF RunningOwnsFile
  <2>1. server[t] \in Srv!Exists => json # NoFile /\ json.owner = t
    BY DEF RunningOwnsFile
  <2>2. server[s] \in Srv!Exists
    OBVIOUS
  <2>3. server[t] \in Srv!Exists
    BY <2>2
  <2>4. json.owner = t /\ json.owner = s
    BY <2>1, <2>2, <2>3 DEF RunningOwnsFile
  <2>5. json \in [owner : Servers, full : BOOLEAN]
    BY <2>1, <2>3
  <2>6. CASE Srv!Listen(s) \/ Srv!CrashServer(s)
    BY <2>1, <2>3, <2>6
  <2>7. CASE Srv!Publish(s)
    <3>1. json' = [json EXCEPT !.full = TRUE]
      BY <2>1, <2>3, <2>4, <2>7
    <3>2. json' \in [owner : Servers, full : BOOLEAN] /\ json'.owner = json.owner
      BY <2>5, <3>1
    <3> QED BY <2>4, <3>2
  <2>8. CASE Srv!ExitServer(s)
    BY <2>4, <2>8
  <2> QED BY <2>6, <2>7, <2>8
<1>6. StopsAsAsked'
  BY DEF StopsAsAsked
<1> QED BY <1>2, <1>3, <1>4, <1>5, <1>6

\* Steps of clients that leave the servers and the file alone.
LEMMA ClientKeeps ==
  ASSUME Srv!ServerAssumption, ServerInv, NEW c \in Clients,
         \/ Srv!Arrive(c) \/ Srv!ReadNothing(c) \/ Srv!ReadServer(c) \/ Srv!PollTimesOut(c)
  PROVE  ServerInv'
<1> USE DEF ServerInv, Srv!ServerTypeOK, Srv!ServerAssumption, Srv!Arrive, Srv!ReadNothing,
            Srv!ReadServer, Srv!PollTimesOut, Srv!NoServer, Srv!Exists, Srv!Done
<1>1. UNCHANGED <<server, json, removals, crashes>>
  OBVIOUS
<1>2. removals' <= Cardinality(Displaced')
  BY <1>1 DEF Displaced
<1>3. Srv!ServerTypeOK'
  OBVIOUS
<1>4. FileFollowsServer'
  BY DEF FileFollowsServer, Serving
<1>5. RunningOwnsFile'
  BY DEF RunningOwnsFile
<1>6. StopsAsAsked'
  BY DEF StopsAsAsked
<1> QED BY <1>2, <1>3, <1>4, <1>5, <1>6

LEMMA RemoveJsonKeeps ==
  ASSUME Srv!ServerAssumption, ServerInv, NEW c \in Clients, Srv!RemoveJson(c)
  PROVE  ServerInv'
<1> USE DEF ServerInv, Srv!ServerTypeOK, Srv!ServerAssumption, Srv!RemoveJson, Srv!NoServer,
            Srv!Exists, Srv!Done
<1>1. Displaced \subseteq Displaced'
  BY DEF Displaced
<1>2. json # NoFile => json.owner \in Displaced' /\ json.owner \notin Displaced
  BY DEF Displaced, FileFollowsServer
<1>3. removals' <= Cardinality(Displaced') /\ removals' \in 0..Cardinality(Servers)
  BY <1>1, <1>2, RemovalsAreBounded
<1>4. Srv!ServerTypeOK'
  BY <1>3, ServersAreFinite
<1>5. FileFollowsServer'
  BY DEF FileFollowsServer, Serving
<1>6. RunningOwnsFile'
  BY DEF RunningOwnsFile
<1>7. StopsAsAsked'
  BY DEF StopsAsAsked
<1> QED BY <1>3, <1>4, <1>5, <1>6, <1>7

LEMMA StoppingKeeps ==
  ASSUME Srv!ServerAssumption, ServerInv, NEW c \in Clients, Srv!AskToStop(c) \/ Srv!AwaitStop(c)
  PROVE  ServerInv'
<1> USE DEF ServerInv, Srv!ServerTypeOK, Srv!ServerAssumption, Srv!AskToStop, Srv!AwaitStop,
            Srv!Exists, Srv!Done
<1>0. found[c] \in Servers
  BY DEF StopsAsAsked
<1>1. Displaced \subseteq Displaced'
  BY <1>0 DEF Displaced
<1>2. removals' <= Cardinality(Displaced') /\ removals' \in 0..Cardinality(Servers)
  BY <1>1, RemovalsAreBounded
<1>3. Srv!ServerTypeOK'
  BY <1>0, <1>2
<1>4. FileFollowsServer'
  BY <1>0 DEF FileFollowsServer, Serving
<1>5. RunningOwnsFile'
  BY <1>0 DEF RunningOwnsFile
<1>6. StopsAsAsked'
  BY <1>0 DEF StopsAsAsked
<1> QED BY <1>2, <1>3, <1>4, <1>5, <1>6

LEMMA ServerInvariant == ASSUME Srv!ServerAssumption PROVE Srv!SafetySpec => []ServerInv
<1>1. Srv!Init => ServerInv
  BY ServerStarts
<1>2. ServerInv /\ [Srv!Next]_Srv!serverVars => ServerInv'
  <2> SUFFICES ASSUME ServerInv, [Srv!Next]_Srv!serverVars PROVE ServerInv'
    OBVIOUS
  <2>1. CASE UNCHANGED Srv!serverVars
    BY <2>1 DEF ServerInv, Srv!serverVars, Srv!ServerTypeOK, FileFollowsServer, RunningOwnsFile,
                StopsAsAsked, Displaced
  <2>2. ASSUME NEW s \in Servers, Srv!StartServer(s) PROVE ServerInv'
    BY <2>2, OpeningKeeps DEF Srv!StartServer
  <2>3. ASSUME NEW c \in Clients, Srv!StartInBackground(c) PROVE ServerInv'
    BY <2>3, OpeningKeeps DEF Srv!StartInBackground, Srv!ServerAssumption
  <2> QED
    BY <2>1, <2>2, <2>3, ServerKeeps, ClientKeeps, RemoveJsonKeeps, StoppingKeeps
    DEF Srv!Next, Srv!Step, Srv!Quiet, Srv!ServerStep, Srv!ClientStep
<1> QED BY <1>1, <1>2, PTL DEF Srv!SafetySpec

\* The state of the servers, of their file and of the clients is one the code
\* can be in; there are no more removals than servers.
THEOREM ServerTypeCorrect == ASSUME Srv!ServerAssumption PROVE Srv!SafetySpec => []Srv!ServerTypeOK
<1>1. ServerInv => Srv!ServerTypeOK
  BY DEF ServerInv
<1> QED BY <1>1, ServerInvariant, PTL

\* As long as no client has removed a server.json after its timeout, one server
\* at most runs for a store, through any order of starts, exits and crashes.
THEOREM OneServerAtATime == ASSUME Srv!ServerAssumption PROVE Srv!SafetySpec => []Srv!OneServer
<1>1. ServerInv => Srv!OneServer
  <2> SUFFICES ASSUME ServerInv, removals = 0
               PROVE  Cardinality({s \in Servers : server[s] \in Srv!Exists}) <= 1
    BY ServersAreCounted DEF Srv!OneServer
  <2> DEFINE running == {s \in Servers : server[s] \in Srv!Exists}
  <2>1. running = {} \/ running = {json.owner}
    BY DEF ServerInv, RunningOwnsFile
  <2>2. Cardinality({}) = 0 /\ Cardinality({json.owner}) = 1
    BY FS_EmptySet, FS_Singleton
  <2> QED BY <2>1, <2>2
<1> QED BY <1>1, ServerInvariant, PTL

\* A client connects to a server only after it listens.
THEOREM ConnectsAfterListening ==
  ASSUME Srv!ServerAssumption PROVE Srv!SafetySpec => []Srv!ConnectedAfterListening
<1>1. ServerInv => Srv!ConnectedAfterListening
  BY DEF ServerInv, FileFollowsServer, Serving, Srv!ConnectedAfterListening
<1> QED BY <1>1, ServerInvariant, PTL

\* When `server stop` says so, the server is on its way out, and unless a server
\* was killed, no client is sent to it once it has gone.
THEOREM StopsForGood == ASSUME Srv!ServerAssumption PROVE Srv!SafetySpec => []Srv!StoppedForGood
<1>1. ServerInv => Srv!StoppedForGood
  BY DEF ServerInv, StopsAsAsked, Srv!StoppedForGood, Srv!ServerTypeOK
<1> QED BY <1>1, ServerInvariant, PTL

-----------------------------------------------------------------------------
\* Requests to the store server

AsksBody(r) == r.url = "requestPackage"
AsksFiles(r) == r.url = "packageFilesResponse"

\* An answer that has the files, and a call that ended with them, come after a
\* fetch that succeeded.
FilesAreThere ==
  /\ \A a \in answers : AsksFiles(a.to) /\ a.res = "ok" => fetched[a.to.id] = "ok"
  /\ Req!AnsweredFilesAreFetched

\* The files of a call are asked for after its body came.
InTurn ==
  /\ \A r \in handlers : AsksFiles(r) => asked[r.id] \notin {"new", "body"}
  /\ \A a \in answers : AsksFiles(a.to) => asked[a.to.id] \notin {"new", "body"}
  /\ \A r \in handlers : asked[r.id] # "new"
  /\ \A a \in answers : asked[a.to.id] # "new"

\* As long as no connection breaks, the server has one request of each call, or
\* its answer is on the way; so it takes no promise after it delivered one.
OneRequestEach ==
  lost = 0 =>
    /\ \A r \in handlers : r.try = 0
    /\ \A r \in handlers : AsksBody(r) => asked[r.id] = "body"
    /\ \A r \in handlers, a \in answers : AsksBody(r) /\ AsksBody(a.to) => r.id # a.to.id
    /\ \A a \in answers : AsksFiles(a.to) /\ a.res = "ok" => a.to.id \notin filesPromises
    /\ Req!DeliveredPromisesAreDropped

RequestsInv ==
  /\ Req!RequestsTypeOK
  /\ \A c \in Calls : try[c] <= lost
  /\ FilesAreThere
  /\ InTurn
  /\ OneRequestEach

LEMMA RequestsStart == ASSUME Req!RequestsAssumption, Req!Init PROVE RequestsInv
<1> USE DEF Req!RequestsAssumption, Req!Init
<1>1. Req!RequestsTypeOK
  BY DEF Req!RequestsTypeOK
<1>2. FilesAreThere
  BY DEF FilesAreThere, Req!AnsweredFilesAreFetched
<1>3. InTurn
  BY DEF InTurn
<1>4. OneRequestEach
  BY DEF OneRequestEach, Req!DeliveredPromisesAreDropped
<1>5. \A c \in Calls : try[c] <= lost
  OBVIOUS
<1> QED BY <1>1, <1>2, <1>3, <1>4, <1>5 DEF RequestsInv

\* A request is told from others by its call, its url and its try.
LEMMA RequestsDiffer ==
  ASSUME NEW q \in Req!Requests, NEW r \in Req!Requests, q.id = r.id, q.url = r.url, q.try = r.try
  PROVE  q = r
BY DEF Req!Requests

LEMMA NewRequest ==
  ASSUME RequestsInv, NEW c \in Calls, NEW u \in Req!Urls
  PROVE  /\ Req!Request(c, u) \in Req!Requests
         /\ Req!Request(c, u).id = c /\ Req!Request(c, u).url = u /\ Req!Request(c, u).try = try[c]
BY DEF RequestsInv, Req!RequestsTypeOK, Req!Requests, Req!Request

LEMMA AskKeeps ==
  ASSUME Req!RequestsAssumption, RequestsInv, NEW c \in Calls, Req!Ask(c)
  PROVE  RequestsInv'
<1> USE DEF RequestsInv, Req!RequestsTypeOK, Req!RequestsAssumption, AsksBody, AsksFiles
<1> DEFINE q == Req!Request(c, "requestPackage")
<1> HIDE DEF q
<1>1. /\ q \in Req!Requests /\ q.id = c /\ q.url = "requestPackage" /\ q.try = try[c]
      /\ asked[c] = "new" /\ asked' = [asked EXCEPT ![c] = "body"] /\ handlers' = handlers \cup {q}
      /\ UNCHANGED <<try, answers, filesPromises, fetched, lost>>
  BY NewRequest DEF Req!Ask, Req!Urls, q
<1>2. /\ \A r \in handlers : r \in Req!Requests /\ r.id \in Calls /\ r.id # c
      /\ \A a \in answers : a.to \in Req!Requests /\ a.to.id \in Calls /\ a.to.id # c
  BY <1>1 DEF InTurn, Req!Requests
<1>3. Req!RequestsTypeOK'
  BY <1>1
<1>4. FilesAreThere'
  BY <1>1, <1>2 DEF FilesAreThere, Req!AnsweredFilesAreFetched
<1>5. InTurn'
  BY <1>1, <1>2 DEF InTurn
<1>6. OneRequestEach'
  BY <1>1, <1>2 DEF OneRequestEach, Req!DeliveredPromisesAreDropped
<1>7. \A d \in Calls : try'[d] <= lost'
  BY <1>1
<1> QED BY <1>3, <1>4, <1>5, <1>6, <1>7

LEMMA BodyArrivesKeeps ==
  ASSUME Req!RequestsAssumption, RequestsInv, NEW a \in answers, Req!BodyArrives(a)
  PROVE  RequestsInv'
<1> USE DEF RequestsInv, Req!RequestsTypeOK, Req!RequestsAssumption, AsksBody, AsksFiles
<1> DEFINE c == a.to.id
           q == Req!Request(c, "packageFilesResponse")
<1>0. a.to \in Req!Requests /\ c \in Calls
  BY DEF Req!Requests
<1>1. /\ q \in Req!Requests /\ q.id = c /\ q.url = "packageFilesResponse" /\ q.try = try[c]
      /\ a.to.url = "requestPackage" /\ asked[c] = "body"
      /\ handlers' \in {handlers, handlers \cup {q}}
      /\ \/ asked' = [asked EXCEPT ![c] = "failed"] /\ handlers' = handlers
         \/ asked' = [asked EXCEPT ![c] = "done"] /\ c \in SkipFetch /\ handlers' = handlers
         \/ asked' = [asked EXCEPT ![c] = "files"]
      /\ answers' = answers \ {a}
      /\ UNCHANGED <<try, filesPromises, fetched, lost>>
  BY <1>0, NewRequest DEF Req!BodyArrives, Req!Urls
<1> HIDE DEF q, c
<1>2. /\ \A r \in handlers : r \in Req!Requests /\ r.id \in Calls
      /\ \A b \in answers : b.to \in Req!Requests /\ b.to.id \in Calls
  BY DEF Req!Requests
<1>3. Req!RequestsTypeOK'
  BY <1>0, <1>1
<1>4. FilesAreThere'
  BY <1>0, <1>1, <1>2 DEF FilesAreThere, Req!AnsweredFilesAreFetched
<1>5. InTurn'
  BY <1>0, <1>1, <1>2 DEF InTurn
<1>6. OneRequestEach'
  <2> SUFFICES ASSUME lost = 0 PROVE OneRequestEach'
    BY <1>1 DEF OneRequestEach
  <2>1. try[c] = 0
    BY <1>0
  <2>2. \A r \in handlers : AsksBody(r) => r.id # c
    BY <1>1 DEF OneRequestEach, c
  <2>3. \A r \in handlers' : r.try = 0 /\ (AsksBody(r) => r \in handlers)
    BY <1>1, <2>1 DEF OneRequestEach
  <2>4. \A r \in handlers' : AsksBody(r) => asked'[r.id] = "body"
    BY <1>0, <1>1, <1>2, <2>2, <2>3 DEF OneRequestEach
  <2>5. Req!DeliveredPromisesAreDropped'
    BY <1>0, <1>1 DEF OneRequestEach, Req!DeliveredPromisesAreDropped
  <2> QED BY <1>1, <2>3, <2>4, <2>5 DEF OneRequestEach
<1>7. \A d \in Calls : try'[d] <= lost'
  BY <1>1
<1> QED BY <1>3, <1>4, <1>5, <1>6, <1>7

LEMMA FilesArriveKeeps ==
  ASSUME Req!RequestsAssumption, RequestsInv, NEW a \in answers, Req!FilesArrive(a)
  PROVE  RequestsInv'
<1> USE DEF RequestsInv, Req!RequestsTypeOK, Req!RequestsAssumption, AsksBody, AsksFiles
<1> DEFINE c == a.to.id
<1>0. a.to \in Req!Requests /\ c \in Calls
  BY DEF Req!Requests
<1>1. /\ a.to.url = "packageFilesResponse" /\ asked[c] = "files"
      /\ asked' = [asked EXCEPT ![c] = IF a.res = "ok" THEN "done" ELSE "failed"]
      /\ answers' = answers \ {a}
      /\ UNCHANGED <<try, handlers, filesPromises, fetched, lost>>
  BY DEF Req!FilesArrive
<1>2. /\ \A r \in handlers : r \in Req!Requests /\ r.id \in Calls
      /\ \A b \in answers : b.to \in Req!Requests /\ b.to.id \in Calls
  BY DEF Req!Requests
<1>3. Req!RequestsTypeOK'
  BY <1>0, <1>1
<1>4. FilesAreThere'
  BY <1>0, <1>1, <1>2 DEF FilesAreThere, Req!AnsweredFilesAreFetched
<1>5. InTurn'
  BY <1>0, <1>1, <1>2 DEF InTurn
<1>6. OneRequestEach'
  <2> SUFFICES ASSUME lost = 0 PROVE OneRequestEach'
    BY <1>1 DEF OneRequestEach
  <2>1. Req!DeliveredPromisesAreDropped'
    BY <1>0, <1>1 DEF OneRequestEach, Req!DeliveredPromisesAreDropped
  <2>2. \A r \in handlers : AsksBody(r) => asked'[r.id] = "body"
    BY <1>0, <1>1, <1>2 DEF OneRequestEach
  <2> QED BY <1>1, <2>1, <2>2 DEF OneRequestEach
<1>7. \A d \in Calls : try'[d] <= lost'
  BY <1>1
<1> QED BY <1>3, <1>4, <1>5, <1>6, <1>7

LEMMA ConnectionBreaksKeeps ==
  ASSUME Req!RequestsAssumption, RequestsInv, NEW r \in Req!Requests, Req!ConnectionBreaks(r)
  PROVE  RequestsInv'
<1> USE DEF RequestsInv, Req!RequestsTypeOK, Req!RequestsAssumption, AsksBody, AsksFiles
<1> DEFINE q == [r EXCEPT !.try = lost + 1]
<1>1. /\ q \in Req!Requests /\ q.id = r.id /\ q.url = r.url /\ r.id \in Calls
  BY DEF Req!Requests, Req!ConnectionBreaks
<1>2. /\ r \in handlers \/ (\E a \in answers : a.to = r)
      /\ answers' \subseteq answers
      /\ try' = [try EXCEPT ![r.id] = lost + 1] /\ lost' = lost + 1 /\ lost' \in 0..MaxLost
      /\ handlers' = handlers \cup {q}
      /\ UNCHANGED <<asked, filesPromises, fetched>>
  BY DEF Req!ConnectionBreaks
<1> HIDE DEF q
<1>3. Req!RequestsTypeOK'
  BY <1>1, <1>2
<1>4. FilesAreThere'
  BY <1>1, <1>2 DEF FilesAreThere, Req!AnsweredFilesAreFetched
<1>5. InTurn'
  BY <1>1, <1>2 DEF InTurn
<1>6. OneRequestEach'
  BY <1>2 DEF OneRequestEach
<1>7. \A d \in Calls : try'[d] <= lost'
  BY <1>1, <1>2
<1> QED BY <1>3, <1>4, <1>5, <1>6, <1>7

\* What an answer is, or that it goes nowhere.
LEMMA AnswerAdds ==
  ASSUME RequestsInv, NEW r \in handlers, NEW res \in Req!Results, Req!Answer(r, res)
  PROVE  /\ r \in Req!Requests /\ r.id \in Calls
         /\ handlers' = handlers \ {r}
         /\ answers' \subseteq [to : Req!Requests, res : Req!Results]
         /\ \A a \in answers' : a \in answers \/ (a.to = r /\ a.res = res)
BY DEF RequestsInv, Req!RequestsTypeOK, Req!Requests, Req!Answer

LEMMA HandleRequestKeeps ==
  ASSUME Req!RequestsAssumption, RequestsInv, NEW r \in handlers, Req!HandleRequest(r)
  PROVE  RequestsInv'
<1> USE DEF RequestsInv, Req!RequestsTypeOK, Req!RequestsAssumption, AsksBody, AsksFiles
<1>1. PICK res \in Req!Results : Req!Answer(r, res)
  BY DEF Req!HandleRequest, Req!Results
<1>2. /\ r \in Req!Requests /\ r.id \in Calls
      /\ handlers' = handlers \ {r}
      /\ answers' \subseteq [to : Req!Requests, res : Req!Results]
      /\ \A a \in answers' : a \in answers \/ (a.to = r /\ a.res = res)
  BY <1>1, AnswerAdds
<1>3. /\ r.url = "requestPackage"
      /\ filesPromises' \in {filesPromises, filesPromises \cup {r.id}}
      /\ fetched' \in [Calls -> {"none", "running", "ok", "failed"}]
      /\ \A c \in Calls : fetched[c] = "ok" => fetched'[c] = "ok"
      /\ UNCHANGED <<asked, try, lost>>
  BY <1>2 DEF Req!HandleRequest
<1>4. /\ \A q \in handlers : q \in Req!Requests /\ q.id \in Calls
      /\ \A a \in answers : a.to \in Req!Requests /\ a.to.id \in Calls
  BY DEF Req!Requests
<1>5. Req!RequestsTypeOK'
  BY <1>2, <1>3
<1>6. FilesAreThere'
  BY <1>2, <1>3, <1>4 DEF FilesAreThere, Req!AnsweredFilesAreFetched
<1>7. InTurn'
  BY <1>2, <1>3, <1>4 DEF InTurn
<1>8. OneRequestEach'
  <2> SUFFICES ASSUME lost = 0 PROVE OneRequestEach'
    BY <1>3 DEF OneRequestEach
  <2>1. asked[r.id] = "body" /\ r.try = 0
    BY <1>3 DEF OneRequestEach
  <2>2. \A q \in handlers' : AsksBody(q) => q.id # r.id
    <3> SUFFICES ASSUME NEW q \in handlers, q # r, AsksBody(q), q.id = r.id PROVE FALSE
      BY <1>2
    <3>1. q.try = 0
      BY DEF OneRequestEach
    <3> QED BY <1>2, <1>3, <1>4, <2>1, <3>1, RequestsDiffer
  <2>3. \A a \in answers : AsksFiles(a.to) => a.to.id # r.id
    BY <2>1 DEF InTurn
  <2>4. \A q \in handlers', a \in answers' : AsksBody(q) /\ AsksBody(a.to) => q.id # a.to.id
    BY <1>2, <2>2 DEF OneRequestEach
  <2>5. \A a \in answers' : AsksFiles(a.to) /\ a.res = "ok" => a.to.id \notin filesPromises'
    BY <1>2, <1>3, <2>3 DEF OneRequestEach
  <2>6. Req!DeliveredPromisesAreDropped'
    BY <1>3, <2>1 DEF OneRequestEach, Req!DeliveredPromisesAreDropped
  <2> QED BY <1>2, <1>3, <2>4, <2>5, <2>6 DEF OneRequestEach
<1>9. \A d \in Calls : try'[d] <= lost'
  BY <1>3
<1> QED BY <1>5, <1>6, <1>7, <1>8, <1>9

LEMMA HandleFilesKeeps ==
  ASSUME Req!RequestsAssumption, RequestsInv, NEW r \in handlers, Req!HandleFiles(r)
  PROVE  RequestsInv'
<1> USE DEF RequestsInv, Req!RequestsTypeOK, Req!RequestsAssumption, AsksBody, AsksFiles
<1>1. PICK res \in Req!Results :
        /\ Req!Answer(r, res)
        /\ res = "ok" => fetched[r.id] = "ok" /\ filesPromises' = filesPromises \ {r.id}
        /\ filesPromises' \subseteq filesPromises
  BY DEF Req!HandleFiles, Req!Results
<1>2. /\ r \in Req!Requests /\ r.id \in Calls
      /\ handlers' = handlers \ {r}
      /\ answers' \subseteq [to : Req!Requests, res : Req!Results]
      /\ \A a \in answers' : a \in answers \/ (a.to = r /\ a.res = res)
  BY <1>1, AnswerAdds
<1>3. r.url = "packageFilesResponse" /\ UNCHANGED <<asked, try, fetched, lost>>
  BY DEF Req!HandleFiles
<1>5. Req!RequestsTypeOK'
  BY <1>1, <1>2, <1>3
<1>6. FilesAreThere'
  BY <1>1, <1>2, <1>3 DEF FilesAreThere, Req!AnsweredFilesAreFetched
<1>7. InTurn'
  BY <1>2, <1>3 DEF InTurn
<1>8. OneRequestEach'
  BY <1>1, <1>2, <1>3 DEF OneRequestEach, Req!DeliveredPromisesAreDropped
<1>9. \A d \in Calls : try'[d] <= lost'
  BY <1>3
<1> QED BY <1>5, <1>6, <1>7, <1>8, <1>9

LEMMA FetchEndsKeeps ==
  ASSUME Req!RequestsAssumption, RequestsInv, NEW c \in Calls, Req!FetchEnds(c)
  PROVE  RequestsInv'
<1> USE DEF RequestsInv, Req!RequestsTypeOK, Req!RequestsAssumption, Req!FetchEnds
<1>1. \A a \in answers : a.to.id \in Calls
  BY DEF Req!Requests
<1>2. \A d \in Calls : fetched[d] = "ok" => fetched'[d] = "ok"
  OBVIOUS
<1>3. Req!RequestsTypeOK'
  OBVIOUS
<1>4. FilesAreThere'
  BY <1>1, <1>2 DEF FilesAreThere, Req!AnsweredFilesAreFetched
<1>5. InTurn'
  BY DEF InTurn
<1>6. OneRequestEach'
  BY DEF OneRequestEach, Req!DeliveredPromisesAreDropped
<1> QED BY <1>3, <1>4, <1>5, <1>6

LEMMA RequestsInvariant == ASSUME Req!RequestsAssumption PROVE Req!SafetySpec => []RequestsInv
<1>1. Req!Init => RequestsInv
  BY RequestsStart
<1>2. RequestsInv /\ [Req!Next]_(Req!reqVars) => RequestsInv'
  <2> SUFFICES ASSUME RequestsInv, [Req!Next]_(Req!reqVars) PROVE RequestsInv'
    OBVIOUS
  <2>1. CASE UNCHANGED Req!reqVars
    BY <2>1 DEF RequestsInv, Req!reqVars, Req!RequestsTypeOK, FilesAreThere, InTurn, OneRequestEach,
                Req!AnsweredFilesAreFetched, Req!DeliveredPromisesAreDropped
  <2> QED
    BY <2>1, AskKeeps, BodyArrivesKeeps, FilesArriveKeeps, ConnectionBreaksKeeps, HandleRequestKeeps,
       HandleFilesKeeps, FetchEndsKeeps
    DEF Req!Next, Req!Step, Req!AllSettled
<1> QED BY <1>1, <1>2, PTL DEF Req!SafetySpec

\* A client is told that its files are there only when they are: whatever was
\* repeated, and however the two requests of a call overlap.
THEOREM AnswersAreTrue ==
  ASSUME Req!RequestsAssumption PROVE Req!SafetySpec => []Req!AnsweredFilesAreFetched
<1>1. RequestsInv => Req!AnsweredFilesAreFetched
  BY DEF RequestsInv, FilesAreThere
<1> QED BY <1>1, RequestsInvariant, PTL

\* As long as no connection breaks, the server holds no promise of a call that
\* was given its files.
THEOREM PromisesAreDropped ==
  ASSUME Req!RequestsAssumption PROVE Req!SafetySpec => []Req!DeliveredPromisesAreDropped
<1>1. RequestsInv => Req!DeliveredPromisesAreDropped
  <2> SUFFICES ASSUME RequestsInv PROVE Req!DeliveredPromisesAreDropped
    OBVIOUS
  <2>1. CASE lost = 0
    BY <2>1 DEF RequestsInv, OneRequestEach
  <2>2. CASE lost # 0
    BY <2>2 DEF Req!DeliveredPromisesAreDropped
  <2> QED BY <2>1, <2>2
<1> QED BY <1>1, RequestsInvariant, PTL

-----------------------------------------------------------------------------
\* store prune

Processes == Prunes \cup Installs
Wants(i) == FilesOf[PackageOf[i]]
Operands == (UNION {Prn!Entries(f) : f \in Prn!Hashes}) \cup {Prn!Index(k) : k \in Prn!Packages}
PruneOps == UNION {[D -> {"stat", "unlink", "load", "remove"}] : D \in SUBSET Operands}

PruneRecord ==
  [at : {"idle", "files", "indexes", "failed", "ok", "over", "killed"}, listed : SUBSET Prn!Packages,
   dirs : SUBSET Prn!Hashes, ops : PruneOps, removed : SUBSET Prn!Hashes]

JobRecord ==
  [at : {"idle", "load", "verify", "add", "import", "done", "failed", "gone", "killed"},
   todo : SUBSET Prn!Hashes, temp : SUBSET Prn!Hashes]

PruneTypes ==
  /\ Prn!PruneTypeOK
  /\ shared \in [Installs -> SUBSET Prn!Hashes]
  /\ job \in [Installs -> JobRecord]
  /\ prune \in [Prunes -> PruneRecord]
  /\ beside \in [Processes -> SUBSET Processes]

\* Who is at work at the same time was beside the other.
WhoIsBeside ==
  /\ \A x, y \in Processes : x \in beside[y] => y \in beside[x]
  /\ \A x, y \in Prn!Active : x # y => x \in beside[y]
  /\ \A i \in Installs : job[i].at = "idle" => beside[i] = {}
  /\ \A p \in Prunes : prune[p].at = "idle" => beside[p] = {}

\* With no prune beside it an install finds again what it found or put there.
InstallGoesOn(i) ==
  /\ job[i].todo \subseteq Wants(i)
  /\ job[i].at \in {"idle", "load", "verify", "add"} => shared[i] = {}
  /\ job[i].at \in {"idle", "load", "verify"} => job[i].temp = {}
  /\ beside[i] \cap Prunes = {} =>
       /\ job[i].at \in {"verify", "add"} => Wants(i) \ job[i].todo \subseteq Prn!Stored
       /\ job[i].at = "add" => \A f \in job[i].temp : Prn!Temp(i, f) \in files
       /\ job[i].at = "import" => Wants(i) \subseteq Prn!Stored
       /\ job[i].at # "failed"
InstallsGoOn == \A i \in Installs : InstallGoesOn(i)

\* Nobody is about to replace or remove what an install linked that was alone.
Linked(i) == job[i].at \in {"import", "done"} /\ beside[i] = {}
LinksStay ==
  \A i \in Installs : Linked(i) =>
    /\ \A j \in Installs : job[j].at = "add" => job[j].temp \cap shared[i] = {}
    /\ \A p \in Prunes, f \in shared[i] :
         p \in Prn!Active => ~Prn!Working(p, Prn!File(f), "unlink")
    /\ job[i].at = "import" => Wants(i) \ job[i].todo \subseteq shared[i]
    /\ job[i].at = "done" => shared[i] = Wants(i)

\* What a prune works on, and that it is there if the prune is alone.
PruneGoesOn(p) ==
  /\ prune[p].at = "files" =>
       \A e \in DOMAIN prune[p].ops : prune[p].ops[e] \in {"stat", "unlink"}
  /\ prune[p].at = "indexes" =>
       /\ prune[p].dirs = {}
       /\ \A e \in DOMAIN prune[p].ops :
            prune[p].ops[e] \in {"load", "remove"} /\ \E k \in prune[p].listed : e = Prn!Index(k)
  /\ beside[p] = {} =>
       /\ prune[p].at = "files" => DOMAIN prune[p].ops \subseteq files /\ prune[p].listed \subseteq indexes
       /\ prune[p].at = "indexes" =>
            \A k \in Prn!Packages : Prn!Index(k) \in DOMAIN prune[p].ops => k \in indexes
       /\ prune[p].at \in {"failed", "over"} => ~(prune[p].listed \subseteq DOMAIN Manifest)
PrunesGoOn == \A p \in Prunes : PruneGoesOn(p)

\* As long as prunes go well and no install runs beside them, an index whose
\* package.json is gone is one that the prune which removed it will remove.
Orderly ==
  \A p \in Prunes : beside[p] \cap Installs = {} /\ prune[p].at \in {"idle", "files", "indexes", "ok"}
Forgets(p, k) ==
  \/ prune[p].at = "files" /\ k \in prune[p].listed /\ Manifest[k] \in prune[p].removed
  \/ prune[p].at = "indexes" /\ Prn!Working(p, Prn!Index(k), "remove")
  \/ prune[p].at = "indexes" /\ Prn!Working(p, Prn!Index(k), "load") /\ Manifest[k] \in prune[p].removed
ManifestsStay ==
  Orderly =>
    /\ \A k \in indexes : k \in DOMAIN Manifest =>
         Manifest[k] \in Prn!Stored \/ \E p \in Prunes : Forgets(p, k)
    /\ \A p \in Prunes : prune[p].at = "files" => indexes \subseteq prune[p].listed

PruneInv == PruneTypes /\ WhoIsBeside /\ InstallsGoOn /\ LinksStay /\ PrunesGoOn /\ ManifestsStay

-----------------------------------------------------------------------------
LEMMA Labels ==
  /\ \A f, g : Prn!File(f) = Prn!File(g) => f = g
  /\ \A k, l : Prn!Index(k) = Prn!Index(l) => k = l
  /\ \A f, i, g : Prn!File(f) # Prn!Temp(i, g)
  /\ \A i, f, j, g : Prn!Temp(i, f) = Prn!Temp(j, g) => i = j /\ f = g
  /\ \A k, f : Prn!Index(k) # Prn!File(f)
  /\ \A k, i, f : Prn!Index(k) # Prn!Temp(i, f)
<1>1. /\ \A f : Prn!File(f)[1] = "file" /\ Prn!File(f)[2] = f
      /\ \A k : Prn!Index(k)[1] = "index" /\ Prn!Index(k)[2] = k
      /\ \A i, f : Prn!Temp(i, f)[1] = "temp" /\ Prn!Temp(i, f)[2] = i /\ Prn!Temp(i, f)[3] = f
  BY DEF Prn!File, Prn!Index, Prn!Temp
<1> QED BY <1>1

LEMMA InitialOps == <<>> \in PruneOps
  BY DEF PruneOps

LEMMA OpsRestricted ==
  ASSUME NEW o \in PruneOps, NEW S \in SUBSET DOMAIN o
  PROVE  /\ Prn!Restrict(o, S) \in PruneOps /\ DOMAIN Prn!Restrict(o, S) = S
         /\ \A e \in S : Prn!Restrict(o, S)[e] = o[e]
  BY DEF PruneOps, Prn!Restrict

LEMMA OpsUpdated ==
  ASSUME NEW o \in PruneOps, NEW e \in DOMAIN o, NEW op \in {"unlink", "remove"}
  PROVE  /\ [o EXCEPT ![e] = op] \in PruneOps /\ DOMAIN [o EXCEPT ![e] = op] = DOMAIN o
         /\ [o EXCEPT ![e] = op][e] = op
         /\ \A d \in DOMAIN o \ {e} : [o EXCEPT ![e] = op][d] = o[d]
  BY DEF PruneOps

\* A prune after an operation on e.
LEMMA DoneFacts ==
  ASSUME PruneTypes, NEW p \in Prunes, NEW e \in DOMAIN prune[p].ops
  PROVE  LET r == Prn!Done(p, e) IN
         /\ r \in PruneRecord
         /\ r.at = prune[p].at /\ r.listed = prune[p].listed /\ r.dirs = prune[p].dirs
         /\ r.removed = prune[p].removed
         /\ DOMAIN r.ops = DOMAIN prune[p].ops \ {e}
         /\ \A d \in DOMAIN prune[p].ops \ {e} : r.ops[d] = prune[p].ops[d]
<1> DEFINE o == prune[p].ops
<1>1. prune[p] \in PruneRecord /\ o \in PruneOps
  BY DEF PruneTypes, PruneRecord
<1>2. /\ Prn!Restrict(o, DOMAIN o \ {e}) \in PruneOps
      /\ DOMAIN Prn!Restrict(o, DOMAIN o \ {e}) = DOMAIN o \ {e}
      /\ \A d \in DOMAIN o \ {e} : Prn!Restrict(o, DOMAIN o \ {e})[d] = o[d]
  BY <1>1, OpsRestricted
<1>3. Prn!Done(p, e) = [prune[p] EXCEPT !.ops = Prn!Restrict(o, DOMAIN o \ {e})]
  BY DEF Prn!Done
<1>4. ASSUME NEW t \in PruneOps
      PROVE  LET r == [prune[p] EXCEPT !.ops = t] IN
             /\ r \in PruneRecord /\ r.at = prune[p].at /\ r.listed = prune[p].listed
             /\ r.dirs = prune[p].dirs /\ r.removed = prune[p].removed /\ r.ops = t
  BY <1>1 DEF PruneRecord
<1> QED BY <1>2, <1>3, <1>4

\* A step of a prune at work, by what it does to its own state and what it
\* removes.
LEMMA PruneMoves ==
  ASSUME Prn!PruneAssumption, PruneInv, NEW p \in Prunes,
         prune[p].at \in {"files", "indexes", "failed"},
         UNCHANGED <<job, beside>>,
         prune' \in [Prunes -> PruneRecord], \A q \in Prunes \ {p} : prune'[q] = prune[q],
         prune'[p].at # "idle", prune[p].at = "failed" => prune'[p].at \in {"failed", "over"},
         prune'[p].at = "files" =>
           prune[p].at = "files" /\ prune'[p].listed = prune[p].listed,
         files' \subseteq files, indexes' \subseteq indexes, dead' \in 0..MaxDead,
         shared' \in [Installs -> SUBSET Prn!Hashes],
         \A i \in Installs : shared'[i] \subseteq shared[i] \cap Prn!Stored',
         \A i \in Installs : \A f \in shared[i] \ shared'[i] : Prn!Working(p, Prn!File(f), "unlink"),
         \A f \in Prn!Hashes : Prn!Working(p, Prn!File(f), "unlink")' =>
           Prn!Working(p, Prn!File(f), "unlink") \/ \A i \in Installs : f \notin shared[i],
         PruneGoesOn(p)',
         \A k \in indexes' : k \in DOMAIN Manifest /\ Orderly /\ Orderly' =>
           /\ Forgets(p, k) => Forgets(p, k)'
           /\ Manifest[k] \in Prn!Stored \ Prn!Stored' =>
                prune[p].at = "files" /\ prune'[p].at = "files" /\ Manifest[k] \in prune'[p].removed
  PROVE  PruneInv'
<1> USE DEF PruneInv
<1>1. p \in Prn!Active /\ Prn!Active' \subseteq Prn!Active
  BY DEF Prn!Active, Prn!PruneAssumption
<1>2. PruneTypes'
  <2>1. PruneTypes /\ Prn!PruneTypeOK
    BY DEF PruneTypes
  <2>2. files' \subseteq UNION {Prn!Entries(f) : f \in Prn!Hashes} /\ indexes' \subseteq Prn!Packages
    BY <2>1 DEF Prn!PruneTypeOK
  <2>3. \A i \in Installs : shared'[i] \subseteq FilesOf[PackageOf[i]] \cap Prn!Stored'
    BY <2>1 DEF Prn!PruneTypeOK
  <2>4. \A q \in Prunes : prune'[q].listed \subseteq Prn!Packages /\ prune'[q].removed \subseteq Prn!Hashes
    BY DEF PruneRecord
  <2>5. Prn!PruneTypeOK'
    BY <2>2, <2>3, <2>4 DEF Prn!PruneTypeOK
  <2> QED BY <2>1, <2>5 DEF PruneTypes
<1>3. WhoIsBeside'
  BY <1>1 DEF WhoIsBeside
<1>4. InstallsGoOn'
  <2> SUFFICES ASSUME NEW i \in Installs PROVE InstallGoesOn(i)'
    BY DEF InstallsGoOn, InstallGoesOn
  <2>1. InstallGoesOn(i) /\ i # p
    BY DEF InstallsGoOn, Prn!PruneAssumption
  <2>2. CASE i \in Prn!Active
    <3>1. p \in beside[i]
      BY <1>1, <2>1, <2>2 DEF WhoIsBeside
    <3> QED BY <2>1, <3>1 DEF InstallGoesOn
  <2>3. CASE i \notin Prn!Active
    <3>1. job[i].at \notin {"load", "verify", "add", "import"}
      BY <2>3 DEF Prn!Active
    <3> QED BY <2>1, <3>1 DEF InstallGoesOn
  <2> QED BY <2>2, <2>3
<1>5. LinksStay'
  <2> SUFFICES ASSUME NEW i \in Installs, Linked(i)'
               PROVE  /\ \A j \in Installs : job'[j].at = "add" => job'[j].temp \cap shared'[i] = {}
                      /\ \A q \in Prunes, f \in shared'[i] :
                           q \in Prn!Active' => ~Prn!Working(q, Prn!File(f), "unlink")'
                      /\ job'[i].at = "import" => Wants(i) \ job'[i].todo \subseteq shared'[i]
                      /\ job'[i].at = "done" => shared'[i] = Wants(i)
    BY DEF LinksStay, Linked
  <2>1. Linked(i)
    BY DEF Linked
  <2>2. shared'[i] = shared[i]
    <3>1. \A f \in shared[i] : ~Prn!Working(p, Prn!File(f), "unlink")
      BY <1>1, <2>1 DEF LinksStay
    <3>2. \A f \in shared[i] : f \in shared'[i]
      BY <3>1
    <3> QED BY <3>2
  <2>3. ASSUME NEW q \in Prunes, NEW f \in shared'[i], q \in Prn!Active'
        PROVE  ~Prn!Working(q, Prn!File(f), "unlink")'
    <3>1. ~Prn!Working(q, Prn!File(f), "unlink")
      BY <1>1, <2>1, <2>2, <2>3 DEF LinksStay
    <3>2. CASE q = p
      <4>1. f \in Prn!Hashes
        BY <2>2, <2>3 DEF PruneTypes
      <4> QED BY <2>2, <2>3, <3>1, <3>2, <4>1
    <3>3. CASE q # p
      BY <3>1, <3>3 DEF Prn!Working
    <3> QED BY <3>2, <3>3
  <2> QED BY <2>1, <2>2, <2>3 DEF LinksStay
<1>6. PrunesGoOn'
  <2> SUFFICES ASSUME NEW q \in Prunes PROVE PruneGoesOn(q)'
    BY DEF PrunesGoOn, PruneGoesOn
  <2>1. CASE q = p
    BY <2>1 DEF PruneGoesOn
  <2>2. CASE q # p
    <3>1. PruneGoesOn(q) /\ prune'[q] = prune[q] /\ beside' = beside
      BY <2>2 DEF PrunesGoOn
    <3>2. prune[q].at \in {"files", "indexes"} => beside[q] # {}
      BY <1>1, <2>2 DEF WhoIsBeside, Prn!Active
    <3> QED BY <3>1, <3>2 DEF PruneGoesOn
  <2> QED BY <2>1, <2>2
<1>7. ManifestsStay'
  <2> SUFFICES ASSUME Orderly'
               PROVE  /\ \A k \in indexes' : k \in DOMAIN Manifest =>
                           Manifest[k] \in Prn!Stored' \/ \E q \in Prunes : Forgets(q, k)'
                      /\ \A q \in Prunes : prune'[q].at = "files" => indexes' \subseteq prune'[q].listed
    BY DEF ManifestsStay, Forgets, Prn!Working
  <2>1. Orderly
    <3>1. prune'[p].at \in {"idle", "files", "indexes", "ok"}
      BY DEF Orderly
    <3> QED BY <3>1 DEF Orderly
  <2>2. ASSUME NEW k \in indexes', k \in DOMAIN Manifest, Manifest[k] \notin Prn!Stored'
        PROVE  \E q \in Prunes : Forgets(q, k)'
    <3>1. CASE Manifest[k] \in Prn!Stored
      <4>1. prune[p].at = "files" /\ prune'[p].at = "files" /\ Manifest[k] \in prune'[p].removed
        BY <2>1, <2>2, <3>1
      <4>2. k \in prune'[p].listed
        BY <2>1, <2>2, <4>1 DEF ManifestsStay
      <4> QED BY <4>1, <4>2 DEF Forgets
    <3>2. CASE Manifest[k] \notin Prn!Stored
      <4>1. PICK q \in Prunes : Forgets(q, k)
        BY <2>1, <2>2, <3>2 DEF ManifestsStay
      <4>2. CASE q = p
        BY <2>1, <2>2, <4>1, <4>2
      <4>3. CASE q # p
        BY <4>1, <4>3 DEF Forgets, Prn!Working
      <4> QED BY <4>2, <4>3
    <3> QED BY <3>1, <3>2
  <2>3. ASSUME NEW q \in Prunes, prune'[q].at = "files" PROVE indexes' \subseteq prune'[q].listed
    BY <2>1, <2>3 DEF ManifestsStay
  <2> QED BY <2>2, <2>3
<1> QED BY <1>2, <1>3, <1>4, <1>5, <1>6, <1>7

-----------------------------------------------------------------------------
\* The steps of a prune

LEMMA SamePlace ==
  ASSUME PruneTypes, UNCHANGED <<files, shared>>
  PROVE  /\ files' \subseteq files /\ shared' \in [Installs -> SUBSET Prn!Hashes]
         /\ \A i \in Installs : shared'[i] \subseteq shared[i] \cap Prn!Stored'
         /\ \A i \in Installs : shared[i] \ shared'[i] = {}
         /\ Prn!Stored' = Prn!Stored
  BY DEF PruneTypes, Prn!PruneTypeOK, Prn!Stored

LEMMA ReadDirKeeps ==
  ASSUME Prn!PruneAssumption, PruneInv, NEW p \in Prunes, NEW f \in Prn!Hashes, Prn!ReadDir(p, f)
  PROVE  PruneInv'
<1> USE DEF PruneInv
<1> DEFINE r == prune[p]
           new == Prn!Entries(f) \cap files
           o == [e \in new \cup DOMAIN r.ops |-> IF e \in new THEN "stat" ELSE r.ops[e]]
<1>1. /\ prune' = [prune EXCEPT ![p] = [r EXCEPT !.dirs = @ \ {f}, !.ops = o]]
      /\ f \in r.dirs /\ p \in Prn!Active /\ UNCHANGED <<files, indexes, shared, job, beside, dead>>
  BY DEF Prn!ReadDir, Prn!Became, Prn!PruneKeeps
<1>2. r \in PruneRecord /\ r.at \in {"files", "indexes", "failed"}
  BY <1>1 DEF PruneTypes, Prn!Active, Prn!PruneAssumption
<1>3. o \in PruneOps /\ DOMAIN o = new \cup DOMAIN r.ops
  <2>1. r.ops \in PruneOps
    BY <1>2 DEF PruneRecord
  <2>2. new \subseteq Operands
    BY DEF Operands
  <2>3. PICK D \in SUBSET Operands : r.ops \in [D -> {"stat", "unlink", "load", "remove"}]
    BY <2>1 DEF PruneOps
  <2>4. DOMAIN r.ops = D /\ new \cup D \in SUBSET Operands
    BY <2>2, <2>3
  <2>5. o \in [new \cup D -> {"stat", "unlink", "load", "remove"}]
    BY <2>3, <2>4
  <2> QED BY <2>4, <2>5 DEF PruneOps
<1>4. \A t \in PruneOps : [r EXCEPT !.dirs = @ \ {f}, !.ops = t] \in PruneRecord
  BY <1>2 DEF PruneRecord
<1>5. /\ prune' \in [Prunes -> PruneRecord] /\ \A q \in Prunes \ {p} : prune'[q] = prune[q]
      /\ prune'[p].at = r.at /\ prune'[p].listed = r.listed /\ prune'[p].removed = r.removed
      /\ prune'[p].dirs = r.dirs \ {f} /\ prune'[p].ops = o
  BY <1>1, <1>2, <1>3, <1>4 DEF PruneTypes, PruneRecord
<1>6. \A e : e \in DOMAIN o =>
        (e \in new /\ o[e] = "stat") \/ (e \in DOMAIN r.ops /\ o[e] = r.ops[e])
  BY <1>3
<1>7. r.at # "indexes"
  BY <1>1 DEF PrunesGoOn, PruneGoesOn
<1>8. PruneGoesOn(p)'
  <2>1. PruneGoesOn(p)
    BY DEF PrunesGoOn
  <2> QED BY <1>1, <1>3, <1>5, <1>6, <1>7, <2>1 DEF PruneGoesOn
<1>9. \A g : Prn!Working(p, Prn!File(g), "unlink")' => Prn!Working(p, Prn!File(g), "unlink")
  BY <1>5, <1>6 DEF Prn!Working
<1>10. \A k : Forgets(p, k) => Forgets(p, k)'
  BY <1>5, <1>7 DEF Forgets
<1>11. dead' \in 0..MaxDead
  BY <1>1 DEF PruneTypes, Prn!PruneTypeOK
<1> QED BY <1>1, <1>2, <1>5, <1>8, <1>9, <1>10, <1>11, SamePlace, PruneMoves

\* An operation on an entry that is there no more.
LEMMA FailsKeeps ==
  ASSUME Prn!PruneAssumption, PruneInv, NEW p \in Prunes,
         prune[p].at \in {"files", "indexes", "failed"}, NEW e \in DOMAIN prune[p].ops,
         Prn!Fails(p, e), UNCHANGED <<files, indexes, shared, job, beside, dead>>,
         beside[p] = {} => ~(prune[p].listed \subseteq DOMAIN Manifest)
  PROVE  PruneInv'
<1> USE DEF PruneInv
<1> DEFINE d == Prn!Done(p, e)
<1>1. /\ d \in PruneRecord /\ d.listed = prune[p].listed
      /\ DOMAIN d.ops = DOMAIN prune[p].ops \ {e}
      /\ \A x \in DOMAIN prune[p].ops \ {e} : d.ops[x] = prune[p].ops[x]
  BY DoneFacts
<1>2. prune' = [prune EXCEPT ![p] = [d EXCEPT !.at = "failed"]]
  BY DEF Prn!Fails, Prn!Became
<1> HIDE DEF d
<1>3. /\ prune' \in [Prunes -> PruneRecord] /\ \A q \in Prunes \ {p} : prune'[q] = prune[q]
      /\ prune'[p].at = "failed" /\ prune'[p].listed = prune[p].listed /\ prune'[p].ops = d.ops
  BY <1>1, <1>2 DEF PruneTypes, PruneRecord
<1>4. PruneGoesOn(p)'
  BY <1>3 DEF PruneGoesOn
<1>5. \A g : Prn!Working(p, Prn!File(g), "unlink")' => Prn!Working(p, Prn!File(g), "unlink")
  BY <1>1, <1>3 DEF Prn!Working
<1>6. ~Orderly'
  BY <1>3 DEF Orderly
<1>7. dead' \in 0..MaxDead
  BY DEF PruneTypes, Prn!PruneTypeOK
<1> QED BY <1>3, <1>4, <1>5, <1>6, <1>7, SamePlace, PruneMoves

\* An operation that changes nothing but the prune itself ended.
LEMMA DoneKeeps ==
  ASSUME Prn!PruneAssumption, PruneInv, NEW p \in Prunes,
         prune[p].at \in {"files", "indexes", "failed"}, NEW e \in DOMAIN prune[p].ops,
         Prn!Became(p, Prn!Done(p, e)), UNCHANGED <<files, indexes, shared, job, beside, dead>>,
         \A k \in indexes : k \in DOMAIN Manifest /\ Forgets(p, k) => Forgets(p, k)'
  PROVE  PruneInv'
<1> USE DEF PruneInv
<1> DEFINE d == Prn!Done(p, e)
<1>1. /\ d \in PruneRecord /\ d.listed = prune[p].listed /\ d.at = prune[p].at
      /\ d.dirs = prune[p].dirs /\ d.removed = prune[p].removed
      /\ DOMAIN d.ops = DOMAIN prune[p].ops \ {e}
      /\ \A x \in DOMAIN prune[p].ops \ {e} : d.ops[x] = prune[p].ops[x]
  BY DoneFacts
<1>2. prune' = [prune EXCEPT ![p] = d]
  BY DEF Prn!Became
<1> HIDE DEF d
<1>3. /\ prune' \in [Prunes -> PruneRecord] /\ \A q \in Prunes \ {p} : prune'[q] = prune[q]
      /\ prune'[p] = d
  BY <1>1, <1>2 DEF PruneTypes
<1>4. PruneGoesOn(p)'
  <2>1. PruneGoesOn(p)
    BY DEF PrunesGoOn
  <2> QED BY <1>1, <1>3, <2>1 DEF PruneGoesOn
<1>5. \A g : Prn!Working(p, Prn!File(g), "unlink")' => Prn!Working(p, Prn!File(g), "unlink")
  BY <1>1, <1>3 DEF Prn!Working
<1>6. dead' \in 0..MaxDead
  BY DEF PruneTypes, Prn!PruneTypeOK
<1> QED BY <1>1, <1>3, <1>4, <1>5, <1>6, SamePlace, PruneMoves

LEMMA StatKeeps ==
  ASSUME Prn!PruneAssumption, PruneInv, NEW p \in Prunes, NEW e, Prn!Stat(p, e)
  PROVE  PruneInv'
<1> USE DEF PruneInv
<1> DEFINE r == prune[p]
<1>1. /\ p \in Prn!Active /\ e \in DOMAIN r.ops /\ r.ops[e] = "stat"
      /\ UNCHANGED <<files, indexes, shared, job, beside, dead>>
  BY DEF Prn!Stat, Prn!PruneKeeps, Prn!Working
<1>2. r \in PruneRecord /\ r.at \in {"files", "indexes", "failed"}
  BY <1>1 DEF PruneTypes, Prn!Active, Prn!PruneAssumption
<1>3. PruneGoesOn(p) /\ r.at # "indexes"
  BY <1>1 DEF PrunesGoOn, PruneGoesOn
<1>4. CASE e \notin files /\ Prn!Fails(p, e)
  <2>1. beside[p] = {} => ~(r.listed \subseteq DOMAIN Manifest)
    BY <1>1, <1>2, <1>3, <1>4 DEF PruneGoesOn
  <2> QED BY <1>1, <1>2, <1>4, <2>1, FailsKeeps
<1>5. CASE Prn!Became(p, Prn!Done(p, e))
  <2>1. ASSUME NEW k, Forgets(p, k) PROVE Forgets(p, k)'
    <3>1. Prn!Done(p, e) \in PruneRecord /\ prune'[p] = Prn!Done(p, e)
      BY <1>1, <1>5, DoneFacts DEF Prn!Became, PruneTypes
    <3>2. prune'[p].at = r.at /\ prune'[p].listed = r.listed /\ prune'[p].removed = r.removed
      BY <1>1, <3>1, DoneFacts
    <3> QED BY <1>3, <2>1, <3>2 DEF Forgets
  <2> QED BY <1>1, <1>2, <1>5, <2>1, DoneKeeps
<1>6. CASE Prn!OnlyInStore(e) /\ Prn!Became(p, [r EXCEPT !.ops[e] = "unlink"])
  <2> DEFINE o == [r.ops EXCEPT ![e] = "unlink"]
  <2>1. /\ o \in PruneOps /\ DOMAIN o = DOMAIN r.ops /\ o[e] = "unlink"
        /\ \A d \in DOMAIN r.ops \ {e} : o[d] = r.ops[d]
    BY <1>1, <1>2, OpsUpdated DEF PruneRecord
  <2>2. prune' = [prune EXCEPT ![p] = [r EXCEPT !.ops = o]]
    BY <1>6 DEF Prn!Became
  <2> HIDE DEF o
  <2>3. /\ prune' \in [Prunes -> PruneRecord] /\ \A q \in Prunes \ {p} : prune'[q] = prune[q]
        /\ prune'[p].at = r.at /\ prune'[p].listed = r.listed /\ prune'[p].removed = r.removed
        /\ prune'[p].dirs = r.dirs /\ prune'[p].ops = o
    BY <1>2, <2>1, <2>2 DEF PruneTypes, PruneRecord
  <2>4. PruneGoesOn(p)'
    BY <1>1, <1>3, <2>1, <2>3 DEF PruneGoesOn
  <2>5. ASSUME NEW f, Prn!Working(p, Prn!File(f), "unlink")'
        PROVE  Prn!Working(p, Prn!File(f), "unlink") \/ \A i \in Installs : f \notin shared[i]
    <3>1. CASE Prn!File(f) = e
      BY <1>6, <3>1 DEF Prn!OnlyInStore
    <3>2. CASE Prn!File(f) # e
      BY <2>1, <2>3, <2>5, <3>2 DEF Prn!Working
    <3> QED BY <3>1, <3>2
  <2>6. \A k : Forgets(p, k) => Forgets(p, k)'
    BY <1>3, <2>3 DEF Forgets
  <2>7. dead' \in 0..MaxDead
    BY <1>1 DEF PruneTypes, Prn!PruneTypeOK
  <2> QED BY <1>1, <1>2, <1>3, <2>3, <2>4, <2>5, <2>6, <2>7, SamePlace, PruneMoves
<1> QED BY <1>4, <1>5, <1>6 DEF Prn!Stat

LEMMA UnlinkKeeps ==
  ASSUME Prn!PruneAssumption, PruneInv, NEW p \in Prunes, NEW e, Prn!Unlink(p, e)
  PROVE  PruneInv'
<1> USE DEF PruneInv
<1> DEFINE r == prune[p]
           d == Prn!Done(p, e)
           gone == {f \in Prn!Hashes : Prn!File(f) = e}
<1>1. /\ p \in Prn!Active /\ e \in DOMAIN r.ops /\ r.ops[e] = "unlink"
      /\ UNCHANGED <<indexes, job, beside, dead>>
  BY DEF Prn!Unlink, Prn!Working
<1>2. r \in PruneRecord /\ r.at \in {"files", "indexes", "failed"}
  BY <1>1 DEF PruneTypes, Prn!Active, Prn!PruneAssumption
<1>3. PruneGoesOn(p) /\ r.at # "indexes"
  BY <1>1 DEF PrunesGoOn, PruneGoesOn
<1>4. CASE e \notin files /\ Prn!Fails(p, e) /\ UNCHANGED <<files, shared>>
  <2>1. beside[p] = {} => ~(r.listed \subseteq DOMAIN Manifest)
    BY <1>1, <1>2, <1>3, <1>4 DEF PruneGoesOn
  <2> QED BY <1>1, <1>2, <1>4, <2>1, FailsKeeps
<1>5. CASE /\ files' = files \ {e}
           /\ shared' = [i \in Installs |-> {f \in shared[i] : Prn!File(f) # e}]
           /\ Prn!Became(p, [d EXCEPT !.removed = @ \cup gone])
  <2>1. /\ d \in PruneRecord /\ d.listed = r.listed /\ d.at = r.at
        /\ d.dirs = r.dirs /\ d.removed = r.removed
        /\ DOMAIN d.ops = DOMAIN r.ops \ {e}
        /\ \A x \in DOMAIN r.ops \ {e} : d.ops[x] = r.ops[x]
    BY <1>1, DoneFacts
  <2>2. prune' = [prune EXCEPT ![p] = [d EXCEPT !.removed = @ \cup gone]]
    BY <1>5 DEF Prn!Became
  <2> HIDE DEF d
  <2>3. /\ prune' \in [Prunes -> PruneRecord] /\ \A q \in Prunes \ {p} : prune'[q] = prune[q]
        /\ prune'[p].at = r.at /\ prune'[p].listed = r.listed /\ prune'[p].removed = r.removed \cup gone
        /\ prune'[p].dirs = r.dirs /\ prune'[p].ops = d.ops
    BY <2>1, <2>2 DEF PruneTypes, PruneRecord
  <2>4. PruneGoesOn(p)'
    BY <1>1, <1>3, <1>5, <2>1, <2>3 DEF PruneGoesOn
  <2>5. \A f : Prn!Working(p, Prn!File(f), "unlink")' => Prn!Working(p, Prn!File(f), "unlink")
    BY <2>1, <2>3 DEF Prn!Working
  <2>6. \A k : Forgets(p, k) => Forgets(p, k)'
    BY <1>3, <2>3 DEF Forgets
  <2>7. \A f \in Prn!Stored : f \in Prn!Stored' \/ f \in gone
    BY <1>5 DEF Prn!Stored
  <2>8. \A i \in Installs : shared'[i] \subseteq shared[i] \cap Prn!Stored'
    <3>1. \A i \in Installs : shared[i] \subseteq Prn!Stored
      BY DEF PruneTypes, Prn!PruneTypeOK
    <3> QED BY <1>5, <2>7, <3>1
  <2>9. \A i \in Installs : \A f \in shared[i] \ shared'[i] : Prn!Working(p, Prn!File(f), "unlink")
    BY <1>1, <1>5 DEF Prn!Working
  <2>10. dead' \in 0..MaxDead /\ files' \subseteq files /\ indexes' \subseteq indexes
    BY <1>1, <1>5 DEF PruneTypes, Prn!PruneTypeOK
  <2>11. shared' \in [Installs -> SUBSET Prn!Hashes]
    BY <1>5 DEF PruneTypes
  <2>12. Orderly => r.at = "files"
    BY <1>2, <1>3 DEF Orderly
  <2>13. \A k : Manifest[k] \in Prn!Stored \ Prn!Stored' => Manifest[k] \in prune'[p].removed
    BY <2>3, <2>7
  <2> QED BY <1>1, <1>2, <1>3, <2>3, <2>4, <2>5, <2>6, <2>8, <2>9, <2>10, <2>11, <2>12, <2>13,
             PruneMoves
<1> QED BY <1>4, <1>5 DEF Prn!Unlink

LEMMA StartIndexesKeeps ==
  ASSUME Prn!PruneAssumption, PruneInv, NEW p \in Prunes, Prn!StartIndexes(p)
  PROVE  PruneInv'
<1> USE DEF PruneInv
<1> DEFINE r == prune[p]
           o == [e \in {Prn!Index(k) : k \in r.listed} |-> "load"]
<1>1. /\ r.at = "files" /\ r.dirs = {}
      /\ prune' = [prune EXCEPT ![p] = [r EXCEPT !.at = "indexes", !.ops = o]]
      /\ UNCHANGED <<files, indexes, shared, job, beside, dead>>
  BY DEF Prn!StartIndexes, Prn!Became, Prn!PruneKeeps
<1>2. r \in PruneRecord /\ r.listed \subseteq Prn!Packages
  BY DEF PruneTypes, PruneRecord
<1>3. o \in PruneOps
  <2>1. {Prn!Index(k) : k \in r.listed} \in SUBSET Operands
    BY <1>2 DEF Operands
  <2>2. o \in [{Prn!Index(k) : k \in r.listed} -> {"stat", "unlink", "load", "remove"}]
    OBVIOUS
  <2> QED BY <2>1, <2>2 DEF PruneOps
<1>4. DOMAIN o = {Prn!Index(k) : k \in r.listed} /\ \A k \in r.listed : o[Prn!Index(k)] = "load"
  OBVIOUS
<1> HIDE DEF o
<1>5. /\ prune' \in [Prunes -> PruneRecord] /\ \A q \in Prunes \ {p} : prune'[q] = prune[q]
      /\ prune'[p].at = "indexes" /\ prune'[p].listed = r.listed
      /\ prune'[p].removed = r.removed /\ prune'[p].dirs = {} /\ prune'[p].ops = o
  BY <1>1, <1>2, <1>3 DEF PruneTypes, PruneRecord
<1>6. PruneGoesOn(p)'
  <2>1. PruneGoesOn(p)
    BY DEF PrunesGoOn
  <2>2. \A k : Prn!Index(k) \in DOMAIN o => k \in r.listed
    BY <1>4, Labels
  <2>3. \A e \in DOMAIN o : o[e] = "load" /\ \E k \in r.listed : e = Prn!Index(k)
    BY <1>4
  <2> QED BY <1>1, <1>5, <2>1, <2>2, <2>3 DEF PruneGoesOn
<1>7. \A f : ~Prn!Working(p, Prn!File(f), "unlink")'
  BY <1>4, <1>5, Labels DEF Prn!Working
<1>8. ASSUME NEW k, Forgets(p, k) PROVE Forgets(p, k)'
  <2>1. k \in r.listed /\ Manifest[k] \in r.removed
    BY <1>1, <1>8 DEF Forgets
  <2> QED BY <1>4, <1>5, <2>1 DEF Forgets, Prn!Working
<1>9. dead' \in 0..MaxDead
  BY <1>1 DEF PruneTypes, Prn!PruneTypeOK
<1> QED BY <1>1, <1>5, <1>6, <1>7, <1>8, <1>9, SamePlace, PruneMoves

LEMMA LoadKeeps ==
  ASSUME Prn!PruneAssumption, PruneInv, NEW p \in Prunes, NEW k \in Prn!Packages, Prn!Load(p, k)
  PROVE  PruneInv'
<1> USE DEF PruneInv
<1> DEFINE r == prune[p]
           e == Prn!Index(k)
<1>1. /\ p \in Prn!Active /\ e \in DOMAIN r.ops /\ r.ops[e] = "load"
      /\ UNCHANGED <<files, indexes, shared, job, beside, dead>>
  BY DEF Prn!Load, Prn!PruneKeeps, Prn!Working
<1>2. r \in PruneRecord /\ r.at \in {"files", "indexes", "failed"}
  BY <1>1 DEF PruneTypes, Prn!Active, Prn!PruneAssumption
<1>3. PruneGoesOn(p) /\ r.at # "files"
  BY <1>1 DEF PrunesGoOn, PruneGoesOn
<1>4. CASE (k \notin indexes \/ k \notin DOMAIN Manifest) /\ Prn!Fails(p, e)
  <2>1. ASSUME r.at = "indexes", beside[p] = {} PROVE k \in r.listed /\ k \notin DOMAIN Manifest
    <3>1. k \in indexes
      BY <1>1, <1>3, <2>1 DEF PruneGoesOn
    <3>2. PICK l \in r.listed : e = Prn!Index(l)
      BY <1>1, <1>3, <2>1 DEF PruneGoesOn
    <3>3. k = l
      BY <3>2, Labels
    <3> QED BY <1>4, <3>1, <3>2, <3>3
  <2>2. beside[p] = {} => ~(r.listed \subseteq DOMAIN Manifest)
    BY <1>2, <1>3, <2>1 DEF PruneGoesOn
  <2> QED BY <1>1, <1>2, <1>4, <2>2, FailsKeeps
<1>5. CASE ~Prn!Pruned(p, k) /\ Prn!Became(p, Prn!Done(p, e))
  <2>1. ASSUME NEW l, Forgets(p, l) PROVE Forgets(p, l)'
    <3>1. /\ prune'[p].at = r.at /\ prune'[p].removed = r.removed
          /\ DOMAIN prune'[p].ops = DOMAIN r.ops \ {e}
          /\ \A d \in DOMAIN r.ops \ {e} : prune'[p].ops[d] = r.ops[d]
      <4>1. prune'[p] = Prn!Done(p, e)
        BY <1>5 DEF Prn!Became, PruneTypes
      <4> QED BY <1>1, <4>1, DoneFacts
    <3>2. l # k
      BY <1>1, <1>3, <1>5, <2>1 DEF Forgets, Prn!Pruned, Prn!Working
    <3>3. Prn!Index(l) # e
      BY <3>2, Labels
    <3> QED BY <1>3, <2>1, <3>1, <3>3 DEF Forgets, Prn!Working
  <2> QED BY <1>1, <1>2, <1>5, <2>1, DoneKeeps
<1>6. CASE Prn!Pruned(p, k) /\ Prn!Became(p, [r EXCEPT !.ops[e] = "remove"])
  <2> DEFINE o == [r.ops EXCEPT ![e] = "remove"]
  <2>1. /\ o \in PruneOps /\ DOMAIN o = DOMAIN r.ops /\ o[e] = "remove"
        /\ \A d \in DOMAIN r.ops \ {e} : o[d] = r.ops[d]
    BY <1>1, <1>2, OpsUpdated DEF PruneRecord
  <2>2. prune' = [prune EXCEPT ![p] = [r EXCEPT !.ops = o]]
    BY <1>6 DEF Prn!Became
  <2> HIDE DEF o
  <2>3. /\ prune' \in [Prunes -> PruneRecord] /\ \A q \in Prunes \ {p} : prune'[q] = prune[q]
        /\ prune'[p].at = r.at /\ prune'[p].listed = r.listed /\ prune'[p].removed = r.removed
        /\ prune'[p].dirs = r.dirs /\ prune'[p].ops = o
    BY <1>2, <2>1, <2>2 DEF PruneTypes, PruneRecord
  <2>4. PruneGoesOn(p)'
    BY <1>1, <1>3, <2>1, <2>3 DEF PruneGoesOn
  <2>5. ASSUME NEW f, Prn!Working(p, Prn!File(f), "unlink")'
        PROVE  Prn!Working(p, Prn!File(f), "unlink")
    <3>1. Prn!File(f) # e
      BY Labels
    <3> QED BY <2>1, <2>3, <2>5, <3>1 DEF Prn!Working
  <2>6. ASSUME NEW l, Forgets(p, l) PROVE Forgets(p, l)'
    <3>1. CASE l = k
      BY <1>1, <1>3, <2>1, <2>3, <2>6, <3>1 DEF Forgets, Prn!Working
    <3>2. CASE Prn!Index(l) # e
      BY <1>3, <2>1, <2>3, <2>6, <3>2 DEF Forgets, Prn!Working
    <3> QED BY <3>1, <3>2, Labels
  <2>7. dead' \in 0..MaxDead
    BY <1>1 DEF PruneTypes, Prn!PruneTypeOK
  <2> QED BY <1>1, <1>2, <1>3, <2>3, <2>4, <2>5, <2>6, <2>7, SamePlace, PruneMoves
<1> QED BY <1>4, <1>5, <1>6 DEF Prn!Load

LEMMA RemoveIndexKeeps ==
  ASSUME Prn!PruneAssumption, PruneInv, NEW p \in Prunes, NEW k \in Prn!Packages,
         Prn!RemoveIndex(p, k)
  PROVE  PruneInv'
<1> USE DEF PruneInv
<1> DEFINE r == prune[p]
           e == Prn!Index(k)
           d == Prn!Done(p, e)
<1>1. /\ p \in Prn!Active /\ e \in DOMAIN r.ops /\ r.ops[e] = "remove"
      /\ UNCHANGED <<files, shared, job, beside, dead>> /\ indexes' = indexes \ {k}
  BY DEF Prn!RemoveIndex, Prn!PruneKeeps, Prn!Working
<1>2. r \in PruneRecord /\ r.at \in {"files", "indexes", "failed"}
  BY <1>1 DEF PruneTypes, Prn!Active, Prn!PruneAssumption
<1>3. PruneGoesOn(p) /\ r.at # "files"
  BY <1>1 DEF PrunesGoOn, PruneGoesOn
<1>4. CASE k \notin indexes /\ Prn!Fails(p, e)
  <2>1. beside[p] = {} => ~(r.listed \subseteq DOMAIN Manifest)
    BY <1>1, <1>2, <1>3, <1>4 DEF PruneGoesOn
  <2>2. indexes' = indexes
    BY <1>1, <1>4
  <2> QED BY <1>1, <1>2, <1>4, <2>1, <2>2, FailsKeeps
<1>5. CASE Prn!Became(p, d)
  <2>1. /\ d \in PruneRecord /\ d.listed = r.listed /\ d.at = r.at
        /\ d.dirs = r.dirs /\ d.removed = r.removed
        /\ DOMAIN d.ops = DOMAIN r.ops \ {e}
        /\ \A x \in DOMAIN r.ops \ {e} : d.ops[x] = r.ops[x]
    BY <1>1, DoneFacts
  <2>2. prune' = [prune EXCEPT ![p] = d]
    BY <1>5 DEF Prn!Became
  <2> HIDE DEF d
  <2>3. /\ prune' \in [Prunes -> PruneRecord] /\ \A q \in Prunes \ {p} : prune'[q] = prune[q]
        /\ prune'[p] = d
    BY <2>1, <2>2 DEF PruneTypes
  <2>4. \A l : l # k => Prn!Index(l) # e
    BY Labels
  <2>5. PruneGoesOn(p)'
    BY <1>1, <1>3, <2>1, <2>3 DEF PruneGoesOn
  <2>6. \A f : Prn!Working(p, Prn!File(f), "unlink")' => Prn!Working(p, Prn!File(f), "unlink")
    BY <2>1, <2>3 DEF Prn!Working
  <2>7. \A l \in indexes' : Forgets(p, l) => Forgets(p, l)'
    BY <1>1, <1>3, <2>1, <2>3, <2>4 DEF Forgets, Prn!Working
  <2>8. dead' \in 0..MaxDead
    BY <1>1 DEF PruneTypes, Prn!PruneTypeOK
  <2>9. indexes' \subseteq indexes
    BY <1>1
  <2> QED BY <1>1, <1>2, <1>3, <2>1, <2>3, <2>5, <2>6, <2>7, <2>8, <2>9, SamePlace, PruneMoves
<1> QED BY <1>4, <1>5 DEF Prn!RemoveIndex

\* A prune ends, well or not.
LEMMA EndKeeps ==
  ASSUME Prn!PruneAssumption, PruneInv, NEW p \in Prunes,
         Prn!EndPrune(p) \/ Prn!Exit(p) \/ Prn!KillPrune(p)
  PROVE  PruneInv'
<1> USE DEF PruneInv
<1> DEFINE r == prune[p]
<1>1. PICK new \in {[Prn!Idle EXCEPT !.at = "ok"], [Prn!Idle EXCEPT !.at = "over", !.listed = r.listed],
                    [Prn!Idle EXCEPT !.at = "killed"]} :
        /\ prune' = [prune EXCEPT ![p] = new] /\ UNCHANGED <<files, indexes, shared, job, beside>>
        /\ \/ r.at = "indexes" /\ r.ops = <<>> /\ new.at = "ok" /\ dead' = dead
           \/ r.at = "failed" /\ new.at = "over" /\ dead' = dead
           \/ r.at \in {"files", "indexes"} /\ new.at = "killed" /\ dead < MaxDead /\ dead' = dead + 1
  BY DEF Prn!EndPrune, Prn!Exit, Prn!KillPrune, Prn!Became, Prn!PruneKeeps, Prn!Idle
<1>2. r \in PruneRecord /\ r.at \in {"files", "indexes", "failed"}
  BY <1>1 DEF PruneTypes
<1>3. /\ new \in PruneRecord /\ new.at \in {"ok", "over", "killed"} /\ new.ops = <<>>
      /\ new.at = "over" => new.listed = r.listed
  BY <1>1, <1>2, InitialOps DEF PruneRecord, Prn!Idle
<1>4. /\ prune' \in [Prunes -> PruneRecord] /\ \A q \in Prunes \ {p} : prune'[q] = prune[q]
      /\ prune'[p] = new
  BY <1>1, <1>3 DEF PruneTypes
<1>5. PruneGoesOn(p)'
  <2>1. PruneGoesOn(p)
    BY DEF PrunesGoOn
  <2> QED BY <1>1, <1>3, <1>4, <2>1 DEF PruneGoesOn
<1>6. \A f : ~Prn!Working(p, Prn!File(f), "unlink")'
  BY <1>3, <1>4 DEF Prn!Working
<1>7. ASSUME NEW k, Orderly', Forgets(p, k) PROVE FALSE
  <2>1. new.at = "ok"
    BY <1>3, <1>4, <1>7 DEF Orderly
  <2> QED BY <1>1, <1>7, <2>1 DEF Forgets, Prn!Working
<1>8. dead' \in 0..MaxDead
  BY <1>1 DEF PruneTypes, Prn!PruneTypeOK, Prn!PruneAssumption
<1> QED BY <1>1, <1>2, <1>3, <1>4, <1>5, <1>6, <1>7, <1>8, SamePlace, PruneMoves

-----------------------------------------------------------------------------
\* Beginnings

LEMMA BesideStarts ==
  ASSUME Prn!PruneAssumption, PruneTypes, WhoIsBeside, NEW x \in Processes, x \notin Prn!Active,
         beside[x] = {}, Prn!Begin(x)
  PROVE  /\ beside' \in [Processes -> SUBSET Processes] /\ dead' = dead
         /\ beside'[x] = Prn!Active
         /\ \A y \in Processes \ {x} :
              beside'[y] = IF y \in Prn!Active THEN beside[y] \cup {x} ELSE beside[y]
         /\ \A y, z \in Processes : y \in beside'[z] => z \in beside'[y]
<1>1. Prn!Active \subseteq Processes /\ DOMAIN beside = Processes
  BY DEF Prn!Active, Processes, PruneTypes
<1>2. /\ beside' = [y \in Processes |->
           IF y = x THEN Prn!Active ELSE IF y \in Prn!Active THEN beside[y] \cup {x} ELSE beside[y]]
      /\ dead' = dead
  BY <1>1 DEF Prn!Begin
<1>3. /\ beside'[x] = Prn!Active
      /\ \A y \in Processes \ {x} :
           beside'[y] = IF y \in Prn!Active THEN beside[y] \cup {x} ELSE beside[y]
  BY <1>2
<1>4. \A y \in Processes : x \notin beside[y]
  BY DEF WhoIsBeside
<1>5. ASSUME NEW y \in Processes, NEW z \in Processes, y \in beside'[z] PROVE z \in beside'[y]
  <2>1. CASE y = x
    <3>1. z \in Prn!Active /\ z # x
      BY <1>3, <1>4, <1>5, <2>1
    <3> QED BY <1>3, <2>1, <3>1
  <2>2. CASE y # x /\ z = x
    BY <1>3, <1>5, <2>2
  <2>3. CASE y # x /\ z # x
    <3>1. y \in beside[z]
      BY <1>3, <1>5, <2>3
    <3>2. z \in beside[y]
      BY <3>1 DEF WhoIsBeside
    <3> QED BY <1>3, <2>3, <3>2
  <2> QED BY <2>1, <2>2, <2>3
<1>6. beside' \in [Processes -> SUBSET Processes]
  BY <1>1, <1>2 DEF PruneTypes
<1> QED BY <1>2, <1>3, <1>5, <1>6

\* What is true of a process that has nobody beside it was so before another
\* began.
LEMMA BesideGrows ==
  ASSUME Prn!PruneAssumption, PruneTypes, WhoIsBeside, NEW x \in Processes, x \notin Prn!Active,
         beside[x] = {}, Prn!Begin(x)
  PROVE  \A y \in Processes : beside[y] \subseteq beside'[y]
  BY BesideStarts

LEMMA StartPruneKeeps ==
  ASSUME Prn!PruneAssumption, PruneInv, NEW p \in Prunes, Prn!StartPrune(p)
  PROVE  PruneInv'
<1> USE DEF PruneInv
<1> DEFINE new == [Prn!Idle EXCEPT !.at = "files", !.listed = indexes, !.dirs = Prn!Hashes]
<1>1. /\ prune[p].at = "idle" /\ Prn!Begin(p) /\ UNCHANGED <<files, indexes, shared, job>>
      /\ prune' = [prune EXCEPT ![p] = new]
  BY DEF Prn!StartPrune, Prn!Became
<1>2. p \in Processes /\ p \notin Installs /\ p \notin Prn!Active /\ beside[p] = {}
  BY <1>1 DEF Prn!Active, Prn!PruneAssumption, Processes, WhoIsBeside
<1>3. /\ new.at = "files" /\ new.listed = indexes /\ new.ops = <<>>
      /\ new \in PruneRecord
  BY InitialOps DEF Prn!Idle, PruneRecord, PruneTypes, Prn!PruneTypeOK
<1> HIDE DEF new
<1>4. /\ prune' \in [Prunes -> PruneRecord] /\ \A q \in Prunes \ {p} : prune'[q] = prune[q]
      /\ prune'[p] = new
  BY <1>1, <1>3 DEF PruneTypes
<1>5. Prn!Active' = Prn!Active \cup {p}
  BY <1>1, <1>2, <1>3, <1>4 DEF Prn!Active
<1>6. \A y \in Processes : beside[y] \subseteq beside'[y]
  BY <1>1, <1>2, BesideGrows
<1>7. PruneTypes'
  <2>1. beside' \in [Processes -> SUBSET Processes] /\ dead' = dead
    BY <1>1, <1>2, BesideStarts
  <2>2. \A q \in Prunes : prune'[q].listed \subseteq Prn!Packages /\ prune'[q].removed \subseteq Prn!Hashes
    BY <1>4 DEF PruneRecord
  <2>3. Prn!PruneTypeOK'
    BY <1>1, <2>1, <2>2 DEF PruneTypes, Prn!PruneTypeOK, Prn!Stored
  <2> QED BY <1>1, <1>4, <2>1, <2>3 DEF PruneTypes
<1>8. WhoIsBeside'
  <2>1. /\ beside'[p] = Prn!Active
        /\ \A y \in Processes \ {p} :
             beside'[y] = IF y \in Prn!Active THEN beside[y] \cup {p} ELSE beside[y]
        /\ \A y, z \in Processes : y \in beside'[z] => z \in beside'[y]
    BY <1>1, <1>2, BesideStarts
  <2>2. Prn!Active \subseteq Processes
    BY DEF Prn!Active, Processes
  <2>3. ASSUME NEW y \in Prn!Active', NEW z \in Prn!Active', y # z PROVE y \in beside'[z]
    <3>1. CASE y # p /\ z # p
      BY <1>5, <1>6, <2>2, <2>3, <3>1 DEF WhoIsBeside
    <3>2. CASE y = p
      BY <1>5, <2>1, <2>2, <2>3, <3>2
    <3>3. CASE z = p
      BY <1>5, <2>1, <2>3, <3>3
    <3> QED BY <3>1, <3>2, <3>3
  <2>4. ASSUME NEW i \in Installs, job'[i].at = "idle" PROVE beside'[i] = {}
    <3>1. i \notin Prn!Active /\ i # p /\ i \in Processes
      BY <1>1, <1>2, <2>4 DEF Prn!Active, Prn!PruneAssumption, Processes
    <3> QED BY <1>1, <2>1, <2>4, <3>1 DEF WhoIsBeside
  <2>5. ASSUME NEW q \in Prunes, prune'[q].at = "idle" PROVE beside'[q] = {}
    <3>1. q # p /\ prune[q].at = "idle"
      BY <1>3, <1>4, <2>5
    <3>2. q \notin Prn!Active /\ q \in Processes
      BY <3>1 DEF Prn!Active, Prn!PruneAssumption, Processes
    <3> QED BY <2>1, <3>1, <3>2 DEF WhoIsBeside
  <2> QED BY <2>1, <2>3, <2>4, <2>5 DEF WhoIsBeside
<1>9. InstallsGoOn'
  BY <1>1, <1>6 DEF InstallsGoOn, InstallGoesOn, Processes, Prn!Stored
<1>10. LinksStay'
  <2> SUFFICES ASSUME NEW i \in Installs, Linked(i)'
               PROVE  /\ \A j \in Installs : job'[j].at = "add" => job'[j].temp \cap shared'[i] = {}
                      /\ \A q \in Prunes, f \in shared'[i] :
                           q \in Prn!Active' => ~Prn!Working(q, Prn!File(f), "unlink")'
                      /\ job'[i].at = "import" => Wants(i) \ job'[i].todo \subseteq shared'[i]
                      /\ job'[i].at = "done" => shared'[i] = Wants(i)
    BY DEF LinksStay, Linked
  <2>1. Linked(i)
    BY <1>1, <1>6 DEF Linked, Processes
  <2>2. ASSUME NEW q \in Prunes, NEW f \in shared'[i], q \in Prn!Active'
        PROVE  ~Prn!Working(q, Prn!File(f), "unlink")'
    <3>1. CASE q = p
      BY <1>3, <1>4, <3>1 DEF Prn!Working
    <3>2. CASE q # p
      BY <1>1, <1>4, <1>5, <2>1, <2>2, <3>2 DEF LinksStay, Prn!Working
    <3> QED BY <3>1, <3>2
  <2> QED BY <1>1, <2>1, <2>2 DEF LinksStay
<1>11. PrunesGoOn'
  <2> SUFFICES ASSUME NEW q \in Prunes PROVE PruneGoesOn(q)'
    BY DEF PrunesGoOn, PruneGoesOn
  <2>1. CASE q = p
    BY <1>1, <1>3, <1>4, <2>1 DEF PruneGoesOn
  <2>2. CASE q # p
    <3>1. PruneGoesOn(q) /\ beside[q] \subseteq beside'[q] /\ prune'[q] = prune[q]
      BY <1>4, <1>6, <2>2 DEF PrunesGoOn, Processes
    <3> QED BY <1>1, <3>1 DEF PruneGoesOn
  <2> QED BY <2>1, <2>2
<1>12. ManifestsStay'
  <2> SUFFICES ASSUME Orderly'
               PROVE  /\ \A k \in indexes' : k \in DOMAIN Manifest =>
                           Manifest[k] \in Prn!Stored' \/ \E q \in Prunes : Forgets(q, k)'
                      /\ \A q \in Prunes : prune'[q].at = "files" => indexes' \subseteq prune'[q].listed
    BY DEF ManifestsStay, Forgets, Prn!Working
  <2>1. Orderly
    <3> SUFFICES ASSUME NEW q \in Prunes
                 PROVE  beside[q] \cap Installs = {} /\ prune[q].at \in {"idle", "files", "indexes", "ok"}
      BY DEF Orderly
    <3>1. beside[q] \subseteq beside'[q] /\ beside'[q] \cap Installs = {}
      BY <1>6 DEF Orderly, Processes
    <3>2. prune[q].at \in {"idle", "files", "indexes", "ok"}
      BY <1>1, <1>4 DEF Orderly
    <3> QED BY <3>1, <3>2
  <2>2. ASSUME NEW k \in indexes', k \in DOMAIN Manifest, Manifest[k] \notin Prn!Stored'
        PROVE  \E q \in Prunes : Forgets(q, k)'
    <3>1. k \in indexes /\ Manifest[k] \notin Prn!Stored
      BY <1>1, <2>2 DEF Prn!Stored
    <3>2. PICK q \in Prunes : Forgets(q, k)
      BY <2>1, <2>2, <3>1 DEF ManifestsStay
    <3>3. q # p
      BY <1>1, <3>2 DEF Forgets
    <3> QED BY <1>4, <3>2, <3>3 DEF Forgets, Prn!Working
  <2>3. ASSUME NEW q \in Prunes, prune'[q].at = "files" PROVE indexes' \subseteq prune'[q].listed
    BY <1>1, <1>3, <1>4, <2>1, <2>3 DEF ManifestsStay
  <2> QED BY <2>2, <2>3
<1> QED BY <1>7, <1>8, <1>9, <1>10, <1>11, <1>12

LEMMA StartInstallKeeps ==
  ASSUME Prn!PruneAssumption, PruneInv, NEW i \in Installs, Prn!StartInstall(i)
  PROVE  PruneInv'
<1> USE DEF PruneInv
<1>1. /\ job[i].at = "idle" /\ Prn!Begin(i) /\ UNCHANGED <<files, indexes, shared, prune>>
      /\ job' = [job EXCEPT ![i].at = "load", ![i].todo = Wants(i)]
  BY DEF Prn!StartInstall, Prn!At, Prn!Goto, Wants
<1>2. i \in Processes /\ i \notin Prunes /\ i \notin Prn!Active /\ beside[i] = {}
  BY <1>1 DEF Prn!Active, Prn!PruneAssumption, Processes, WhoIsBeside
<1>3. Wants(i) \subseteq Prn!Hashes
  BY DEF Wants, Prn!Hashes, Prn!Packages, Prn!PruneAssumption
<1>4. /\ \A j \in Installs \ {i} : job'[j] = job[j]
      /\ job'[i].at = "load" /\ job'[i].temp = job[i].temp /\ job'[i].todo = Wants(i)
  BY <1>1, <1>3 DEF PruneTypes, JobRecord
<1>5. Prn!Active' = Prn!Active \cup {i}
  BY <1>1, <1>2, <1>4 DEF Prn!Active
<1>6. \A y \in Processes : beside[y] \subseteq beside'[y]
  BY <1>1, <1>2, BesideGrows
<1>7. PruneTypes'
  <2>1. beside' \in [Processes -> SUBSET Processes] /\ dead' = dead
    BY <1>1, <1>2, BesideStarts
  <2>2. Prn!PruneTypeOK'
    BY <1>1, <2>1 DEF PruneTypes, Prn!PruneTypeOK, Prn!Stored
  <2>3. [job[i] EXCEPT !.at = "load", !.todo = Wants(i)] \in JobRecord
    BY <1>3 DEF PruneTypes, JobRecord
  <2>4. job' = [job EXCEPT ![i] = [job[i] EXCEPT !.at = "load", !.todo = Wants(i)]]
    BY <1>1 DEF PruneTypes
  <2>5. job' \in [Installs -> JobRecord]
    BY <2>3, <2>4 DEF PruneTypes
  <2> QED BY <1>1, <2>1, <2>2, <2>5 DEF PruneTypes
<1>8. WhoIsBeside'
  <2>1. /\ beside'[i] = Prn!Active
        /\ \A y \in Processes \ {i} :
             beside'[y] = IF y \in Prn!Active THEN beside[y] \cup {i} ELSE beside[y]
        /\ \A y, z \in Processes : y \in beside'[z] => z \in beside'[y]
    BY <1>1, <1>2, BesideStarts
  <2>2. Prn!Active \subseteq Processes
    BY DEF Prn!Active, Processes
  <2>3. ASSUME NEW y \in Prn!Active', NEW z \in Prn!Active', y # z PROVE y \in beside'[z]
    <3>1. CASE y # i /\ z # i
      BY <1>5, <1>6, <2>2, <2>3, <3>1 DEF WhoIsBeside
    <3>2. CASE y = i
      BY <1>5, <2>1, <2>2, <2>3, <3>2
    <3>3. CASE z = i
      BY <1>5, <2>1, <2>3, <3>3
    <3> QED BY <3>1, <3>2, <3>3
  <2>4. ASSUME NEW j \in Installs, job'[j].at = "idle" PROVE beside'[j] = {}
    <3>1. j # i /\ job[j].at = "idle"
      BY <1>4, <2>4
    <3>2. j \notin Prn!Active /\ j \in Processes
      BY <3>1 DEF Prn!Active, Prn!PruneAssumption, Processes
    <3> QED BY <2>1, <3>1, <3>2 DEF WhoIsBeside
  <2>5. ASSUME NEW q \in Prunes, prune'[q].at = "idle" PROVE beside'[q] = {}
    <3>1. q \notin Prn!Active /\ q # i /\ q \in Processes
      BY <1>1, <1>2, <2>5 DEF Prn!Active, Prn!PruneAssumption, Processes
    <3> QED BY <1>1, <2>1, <2>5, <3>1 DEF WhoIsBeside
  <2> QED BY <2>1, <2>3, <2>4, <2>5 DEF WhoIsBeside
<1>9. InstallsGoOn'
  <2> SUFFICES ASSUME NEW j \in Installs PROVE InstallGoesOn(j)'
    BY DEF InstallsGoOn, InstallGoesOn
  <2>1. InstallGoesOn(j) /\ beside[j] \subseteq beside'[j] /\ Prn!Stored' = Prn!Stored
    BY <1>1, <1>6 DEF InstallsGoOn, Processes, Prn!Stored
  <2>2. CASE j = i
    BY <1>1, <1>4, <2>1, <2>2 DEF InstallGoesOn
  <2>3. CASE j # i
    BY <1>1, <1>4, <2>1, <2>3 DEF InstallGoesOn
  <2> QED BY <2>2, <2>3
<1>10. LinksStay'
  <2> SUFFICES ASSUME NEW j \in Installs, Linked(j)'
               PROVE  /\ \A l \in Installs : job'[l].at = "add" => job'[l].temp \cap shared'[j] = {}
                      /\ \A q \in Prunes, f \in shared'[j] :
                           q \in Prn!Active' => ~Prn!Working(q, Prn!File(f), "unlink")'
                      /\ job'[j].at = "import" => Wants(j) \ job'[j].todo \subseteq shared'[j]
                      /\ job'[j].at = "done" => shared'[j] = Wants(j)
    BY DEF LinksStay, Linked
  <2>1. j # i /\ Linked(j)
    BY <1>4, <1>6 DEF Linked, Processes
  <2>2. \A q \in Prunes : q \in Prn!Active' => q \in Prn!Active
    BY <1>2, <1>5
  <2>3. ASSUME NEW l \in Installs, job'[l].at = "add" PROVE job'[l].temp \cap shared'[j] = {}
    <3>1. l # i /\ job'[l] = job[l]
      BY <1>4, <2>3
    <3> QED BY <1>1, <2>1, <2>3, <3>1 DEF LinksStay
  <2>4. ASSUME NEW q \in Prunes, NEW f \in shared'[j], q \in Prn!Active'
        PROVE  ~Prn!Working(q, Prn!File(f), "unlink")'
    <3>1. ~Prn!Working(q, Prn!File(f), "unlink")
      BY <1>1, <2>1, <2>2, <2>4 DEF LinksStay
    <3> QED BY <1>1, <3>1 DEF Prn!Working
  <2>5. /\ job[j].at = "import" => Wants(j) \ job[j].todo \subseteq shared[j]
        /\ job[j].at = "done" => shared[j] = Wants(j)
    BY <2>1 DEF LinksStay
  <2> QED BY <1>1, <1>4, <2>1, <2>3, <2>4, <2>5
<1>11. PrunesGoOn'
  <2> SUFFICES ASSUME NEW q \in Prunes PROVE PruneGoesOn(q)'
    BY DEF PrunesGoOn, PruneGoesOn
  <2>1. PruneGoesOn(q) /\ beside[q] \subseteq beside'[q]
    BY <1>6 DEF PrunesGoOn, Processes
  <2> QED BY <1>1, <2>1 DEF PruneGoesOn
<1>12. ManifestsStay'
  <2>1. Orderly' => Orderly
    <3> SUFFICES ASSUME Orderly', NEW q \in Prunes
                 PROVE  beside[q] \cap Installs = {} /\ prune[q].at \in {"idle", "files", "indexes", "ok"}
      BY DEF Orderly
    <3>1. beside[q] \subseteq beside'[q] /\ beside'[q] \cap Installs = {}
      BY <1>6 DEF Orderly, Processes
    <3> QED BY <1>1, <3>1 DEF Orderly
  <2> QED BY <1>1, <2>1 DEF ManifestsStay, Forgets, Prn!Working, Prn!Stored
<1> QED BY <1>7, <1>8, <1>9, <1>10, <1>11, <1>12

-----------------------------------------------------------------------------
\* The steps of an install

\* A step of an install at work, by what it does to its own state and what it
\* adds to the store.
LEMMA InstallMoves ==
  ASSUME Prn!PruneAssumption, PruneInv, NEW i \in Installs,
         job[i].at \in {"load", "verify", "add", "import"},
         UNCHANGED <<prune, beside>>, dead' \in 0..MaxDead,
         job' \in [Installs -> JobRecord], \A j \in Installs \ {i} : job'[j] = job[j],
         job'[i].at # "idle",
         files' \subseteq UNION {Prn!Entries(f) : f \in Prn!Hashes}, Prn!Stored \subseteq Prn!Stored',
         \A j \in Installs \ {i} : \A f : Prn!Temp(j, f) \in files => Prn!Temp(j, f) \in files',
         indexes \subseteq indexes', indexes' \subseteq Prn!Packages,
         \A k \in indexes' \ indexes :
           beside[i] \cap Prunes = {} /\ k \in DOMAIN Manifest => Manifest[k] \in Prn!Stored',
         shared' \in [Installs -> SUBSET Prn!Hashes],
         \A j \in Installs : shared'[j] \subseteq Wants(j) \cap Prn!Stored',
         \A j \in Installs \ {i} :
           /\ shared'[j] \subseteq shared[j]
           /\ Linked(j) => /\ shared'[j] = shared[j]
                           /\ job'[i].at = "add" => job'[i].temp \cap shared[j] = {},
         InstallGoesOn(i)',
         beside[i] = {} =>
           /\ job'[i].at = "import" => Wants(i) \ job'[i].todo \subseteq shared'[i]
           /\ job'[i].at = "done" => shared'[i] = Wants(i)
  PROVE  PruneInv'
<1> USE DEF PruneInv
<1>1. i \in Prn!Active /\ i \in Processes /\ i \notin Prunes
  BY DEF Prn!Active, Processes, Prn!PruneAssumption
<1>2. /\ Prn!Active' \subseteq Prn!Active
      /\ \A q \in Prunes : q \in Prn!Active' <=> q \in Prn!Active
  BY <1>1 DEF Prn!Active, Prn!PruneAssumption
<1>3. ASSUME NEW y \in Processes, y \in Prn!Active, y # i PROVE i \in beside[y] /\ y \in beside[i]
  BY <1>1, <1>3 DEF WhoIsBeside
<1>4. PruneTypes'
  <2>1. \A q \in Prunes : prune'[q].listed \subseteq Prn!Packages /\ prune'[q].removed \subseteq Prn!Hashes
    BY DEF PruneTypes, PruneRecord
  <2>2. Prn!PruneTypeOK'
    BY <2>1 DEF Prn!PruneTypeOK, Wants
  <2> QED BY <2>2 DEF PruneTypes, JobRecord
<1>5. WhoIsBeside'
  BY <1>2 DEF WhoIsBeside
<1>6. InstallsGoOn'
  <2> SUFFICES ASSUME NEW j \in Installs PROVE InstallGoesOn(j)'
    BY DEF InstallsGoOn, InstallGoesOn
  <2>1. CASE j = i
    BY <2>1 DEF InstallGoesOn
  <2>2. CASE j # i
    <3>1. InstallGoesOn(j) /\ job'[j] = job[j] /\ shared'[j] \subseteq shared[j]
      BY <2>2 DEF InstallsGoOn
    <3>2. \A f : Prn!Temp(j, f) \in files => Prn!Temp(j, f) \in files'
      BY <2>2
    <3> QED BY <3>1, <3>2 DEF InstallGoesOn
  <2> QED BY <2>1, <2>2
<1>7. LinksStay'
  <2> SUFFICES ASSUME NEW j \in Installs, Linked(j)'
               PROVE  /\ \A l \in Installs : job'[l].at = "add" => job'[l].temp \cap shared'[j] = {}
                      /\ \A q \in Prunes, f \in shared'[j] :
                           q \in Prn!Active' => ~Prn!Working(q, Prn!File(f), "unlink")'
                      /\ job'[j].at = "import" => Wants(j) \ job'[j].todo \subseteq shared'[j]
                      /\ job'[j].at = "done" => shared'[j] = Wants(j)
    BY DEF LinksStay, Linked
  <2>1. CASE j = i
    <3>1. beside[i] = {} /\ job'[i].at # "add"
      BY <2>1 DEF Linked
    <3>2. \A l \in Installs : job'[l].at # "add"
      <4> SUFFICES ASSUME NEW l \in Installs, job'[l].at = "add" PROVE FALSE
        OBVIOUS
      <4>1. l # i /\ l \in Processes /\ l \in Prn!Active
        BY <3>1 DEF Processes, Prn!Active
      <4> QED BY <1>3, <3>1, <4>1
    <3>3. \A q \in Prunes : q \notin Prn!Active'
      BY <1>1, <1>2, <1>3, <3>1 DEF Processes
    <3> QED BY <2>1, <3>1, <3>2, <3>3
  <2>2. CASE j # i
    <3>1. Linked(j) /\ job'[j] = job[j]
      BY <2>2 DEF Linked
    <3>2. shared'[j] = shared[j] /\ (job'[i].at = "add" => job'[i].temp \cap shared[j] = {})
      BY <2>2, <3>1
    <3>3. ASSUME NEW l \in Installs, job'[l].at = "add" PROVE job'[l].temp \cap shared'[j] = {}
      <4>1. CASE l = i
        BY <3>2, <3>3, <4>1
      <4>2. CASE l # i
        <5>1. job'[l] = job[l]
          BY <4>2
        <5> QED BY <3>1, <3>2, <3>3, <5>1 DEF LinksStay
      <4> QED BY <4>1, <4>2
    <3>4. ASSUME NEW q \in Prunes, NEW f \in shared'[j], q \in Prn!Active'
          PROVE  ~Prn!Working(q, Prn!File(f), "unlink")'
      <4>1. ~Prn!Working(q, Prn!File(f), "unlink")
        BY <1>2, <3>1, <3>2, <3>4 DEF LinksStay
      <4> QED BY <4>1 DEF Prn!Working
    <3>5. /\ job[j].at = "import" => Wants(j) \ job[j].todo \subseteq shared[j]
          /\ job[j].at = "done" => shared[j] = Wants(j)
      BY <3>1 DEF LinksStay
    <3> QED BY <3>1, <3>2, <3>3, <3>4, <3>5
  <2> QED BY <2>1, <2>2
<1>8. PrunesGoOn'
  <2> SUFFICES ASSUME NEW q \in Prunes PROVE PruneGoesOn(q)'
    BY DEF PrunesGoOn, PruneGoesOn
  <2>1. PruneGoesOn(q) /\ prune'[q] = prune[q] /\ beside'[q] = beside[q]
    BY DEF PrunesGoOn
  <2>2. prune[q].at \in {"files", "indexes"} => beside[q] # {}
    <3>1. prune[q].at \in {"files", "indexes"} => q \in Prn!Active
      BY DEF Prn!Active
    <3> QED BY <1>1, <1>3, <3>1 DEF Processes
  <2> QED BY <2>1, <2>2 DEF PruneGoesOn
<1>9. ManifestsStay'
  <2> SUFFICES ASSUME Orderly'
               PROVE  /\ \A k \in indexes' : k \in DOMAIN Manifest =>
                           Manifest[k] \in Prn!Stored' \/ \E q \in Prunes : Forgets(q, k)'
                      /\ \A q \in Prunes : prune'[q].at = "files" => indexes' \subseteq prune'[q].listed
    BY DEF ManifestsStay, Forgets, Prn!Working
  <2>1. Orderly
    BY DEF Orderly
  <2>2. beside[i] \cap Prunes = {}
    BY <1>1, <2>1 DEF Orderly, WhoIsBeside, Processes
  <2>3. ASSUME NEW k \in indexes', k \in DOMAIN Manifest, Manifest[k] \notin Prn!Stored'
        PROVE  \E q \in Prunes : Forgets(q, k)'
    <3>1. k \in indexes /\ Manifest[k] \notin Prn!Stored
      BY <2>2, <2>3
    <3>2. PICK q \in Prunes : Forgets(q, k)
      BY <2>1, <2>3, <3>1 DEF ManifestsStay
    <3> QED BY <3>2 DEF Forgets, Prn!Working
  <2>4. ASSUME NEW q \in Prunes, prune'[q].at = "files" PROVE FALSE
    <3>1. q \in Prn!Active /\ q \in Processes /\ q # i
      BY <1>1, <2>4 DEF Prn!Active, Processes
    <3>2. i \in beside[q]
      BY <1>3, <3>1
    <3> QED BY <2>1, <3>2 DEF Orderly
  <2> QED BY <2>3, <2>4
<1> QED BY <1>4, <1>5, <1>6, <1>7, <1>8, <1>9

LEMMA WantsAreHashes ==
  ASSUME Prn!PruneAssumption, NEW i \in Installs
  PROVE  Wants(i) \subseteq Prn!Hashes /\ PackageOf[i] \in Prn!Packages
  BY DEF Wants, Prn!Hashes, Prn!Packages, Prn!PruneAssumption

\* What an install does next, and what is left to do.
LEMMA Goes ==
  ASSUME Prn!PruneAssumption, PruneTypes, NEW i \in Installs,
         NEW stg \in {"load", "verify", "add", "import", "done", "failed", "gone", "killed"},
         Prn!Goto(i, stg)
  PROVE  /\ job' \in [Installs -> JobRecord] /\ \A j \in Installs \ {i} : job'[j] = job[j]
         /\ job'[i].at = stg /\ job'[i].todo = Wants(i) /\ job'[i].temp = job[i].temp
<1>1. job[i] \in JobRecord /\ Wants(i) \in SUBSET Prn!Hashes /\ job[i].temp \in SUBSET Prn!Hashes
  BY WantsAreHashes DEF PruneTypes, JobRecord
<1>2. job' = [job EXCEPT ![i].at = stg, ![i].todo = Wants(i)]
  BY DEF Prn!Goto, Wants
<1>3. job' \in [Installs -> JobRecord]
  BY <1>1, <1>2 DEF PruneTypes, JobRecord
<1> QED BY <1>1, <1>2, <1>3 DEF PruneTypes, JobRecord

LEMMA PruneDoes ==
  ASSUME PruneTypes, NEW i \in Installs, NEW f, Prn!Did(i, f), job[i].at # "idle"
  PROVE  /\ job' \in [Installs -> JobRecord] /\ \A j \in Installs \ {i} : job'[j] = job[j]
         /\ job'[i].at = job[i].at /\ job'[i].todo = job[i].todo \ {f} /\ job'[i].temp = job[i].temp
<1>1. /\ job[i] \in JobRecord /\ job[i].todo \ {f} \in SUBSET Prn!Hashes /\ job[i].temp \in SUBSET Prn!Hashes
      /\ job[i].at \in {"load", "verify", "add", "import", "done", "failed", "gone", "killed"}
  BY DEF PruneTypes, JobRecord
<1>2. job' = [job EXCEPT ![i].todo = job[i].todo \ {f}]
  BY DEF Prn!Did
<1>3. job' \in [Installs -> JobRecord]
  BY <1>1, <1>2 DEF PruneTypes, JobRecord
<1> QED BY <1>1, <1>2, <1>3 DEF PruneTypes, JobRecord

\* The store, where an install leaves it alone.
LEMMA StoreKept ==
  ASSUME Prn!PruneAssumption, PruneInv, UNCHANGED <<files, shared>>
  PROVE  /\ files' \subseteq UNION {Prn!Entries(f) : f \in Prn!Hashes} /\ Prn!Stored' = Prn!Stored
         /\ shared' \in [Installs -> SUBSET Prn!Hashes]
         /\ \A j \in Installs : shared'[j] = shared[j] /\ shared'[j] \subseteq Wants(j) \cap Prn!Stored'
  BY DEF PruneInv, PruneTypes, Prn!PruneTypeOK, Prn!Stored, Wants

LEMMA DeadKept ==
  ASSUME PruneInv, dead' = dead PROVE dead' \in 0..MaxDead
  BY DEF PruneInv, PruneTypes, Prn!PruneTypeOK

LEMMA IndexesTyped == ASSUME PruneInv PROVE indexes \subseteq Prn!Packages
  BY DEF PruneInv, PruneTypes, Prn!PruneTypeOK

LEMMA LoadIndexFileKeeps ==
  ASSUME Prn!PruneAssumption, PruneInv, NEW i \in Installs, Prn!LoadIndexFile(i)
  PROVE  PruneInv'
<1>1. job[i].at = "load" /\ UNCHANGED <<files, indexes, shared, prune, beside, dead>>
  BY DEF Prn!LoadIndexFile, Prn!At, Prn!InstallKeeps
<1>2. PICK stg \in {"verify", "add"} : Prn!Goto(i, stg)
  BY DEF Prn!LoadIndexFile
<1>3. /\ job' \in [Installs -> JobRecord] /\ \A j \in Installs \ {i} : job'[j] = job[j]
      /\ job'[i].at = stg /\ job'[i].todo = Wants(i) /\ job'[i].temp = job[i].temp
  BY <1>2, Goes DEF PruneInv
<1>4. InstallGoesOn(i)' /\ job'[i].temp = {}
  BY <1>1, <1>2, <1>3 DEF PruneInv, InstallsGoOn, InstallGoesOn
<1> QED BY <1>1, <1>2, <1>3, <1>4, StoreKept, DeadKept, IndexesTyped, InstallMoves

LEMMA VerifyKeeps ==
  ASSUME Prn!PruneAssumption, PruneInv, NEW i \in Installs, Prn!Verify(i)
  PROVE  PruneInv'
<1>1. job[i].at = "verify" /\ UNCHANGED <<files, indexes, shared, prune, beside, dead>>
  BY DEF Prn!Verify, Prn!At, Prn!InstallKeeps
<1>2. InstallGoesOn(i) /\ job[i].temp = {} /\ Prn!Stored' = Prn!Stored
  BY <1>1, StoreKept DEF PruneInv, InstallsGoOn, InstallGoesOn
<1>3. CASE job[i].todo = {} /\ Prn!Goto(i, "import")
  <2>1. /\ job' \in [Installs -> JobRecord] /\ \A j \in Installs \ {i} : job'[j] = job[j]
        /\ job'[i].at = "import" /\ job'[i].todo = Wants(i) /\ job'[i].temp = job[i].temp
    BY <1>3, Goes DEF PruneInv
  <2>2. InstallGoesOn(i)'
    BY <1>1, <1>2, <1>3, <2>1 DEF InstallGoesOn
  <2> QED BY <1>1, <2>1, <2>2, StoreKept, DeadKept, IndexesTyped, InstallMoves
<1>4. ASSUME NEW f \in job[i].todo, Prn!Verified(f), Prn!Did(i, f) PROVE PruneInv'
  <2>1. /\ job' \in [Installs -> JobRecord] /\ \A j \in Installs \ {i} : job'[j] = job[j]
        /\ job'[i].at = "verify" /\ job'[i].todo = job[i].todo \ {f} /\ job'[i].temp = job[i].temp
    BY <1>1, <1>4, PruneDoes DEF PruneInv
  <2>2. f \in Prn!Stored
    BY <1>4 DEF Prn!Verified
  <2>3. InstallGoesOn(i)'
    BY <1>1, <1>2, <2>1, <2>2 DEF InstallGoesOn
  <2> QED BY <1>1, <2>1, <2>3, StoreKept, DeadKept, IndexesTyped, InstallMoves
<1>5. CASE Prn!Goto(i, "add")
  <2>1. /\ job' \in [Installs -> JobRecord] /\ \A j \in Installs \ {i} : job'[j] = job[j]
        /\ job'[i].at = "add" /\ job'[i].todo = Wants(i) /\ job'[i].temp = job[i].temp
    BY <1>5, Goes DEF PruneInv
  <2>2. InstallGoesOn(i)'
    BY <1>1, <1>2, <2>1 DEF InstallGoesOn
  <2> QED BY <1>1, <1>2, <2>1, <2>2, StoreKept, DeadKept, IndexesTyped, InstallMoves
<1> QED BY <1>3, <1>4, <1>5 DEF Prn!Verify

LEMMA AddKnownKeeps ==
  ASSUME Prn!PruneAssumption, PruneInv, NEW i \in Installs, NEW f, Prn!AddKnown(i, f)
  PROVE  PruneInv'
<1>1. /\ job[i].at = "add" /\ job[i].temp = {} /\ f \in job[i].todo \cap Prn!Stored
      /\ Prn!Did(i, f) /\ UNCHANGED <<files, indexes, shared, prune, beside, dead>>
  BY DEF Prn!AddKnown, Prn!At, Prn!InstallKeeps
<1>2. InstallGoesOn(i) /\ Prn!Stored' = Prn!Stored
  BY <1>1, StoreKept DEF PruneInv, InstallsGoOn
<1>3. /\ job' \in [Installs -> JobRecord] /\ \A j \in Installs \ {i} : job'[j] = job[j]
      /\ job'[i].at = "add" /\ job'[i].todo = job[i].todo \ {f} /\ job'[i].temp = {}
  BY <1>1, PruneDoes DEF PruneInv
<1>4. InstallGoesOn(i)'
  BY <1>1, <1>2, <1>3 DEF InstallGoesOn
<1> QED BY <1>1, <1>3, <1>4, StoreKept, DeadKept, IndexesTyped, InstallMoves

LEMMA AddTempKeeps ==
  ASSUME Prn!PruneAssumption, PruneInv, NEW i \in Installs, NEW f \in Prn!Hashes, Prn!WriteTemp(i, f)
  PROVE  PruneInv'
<1>1. /\ job[i].at = "add" /\ job[i].temp = {} /\ f \in job[i].todo \ Prn!Stored
      /\ job' = [job EXCEPT ![i].temp = {f}] /\ files' = files \cup {Prn!Temp(i, f)}
      /\ UNCHANGED <<indexes, shared, prune, beside, dead>>
  BY DEF Prn!WriteTemp, Prn!At, Prn!InstallKeeps
<1>2. InstallGoesOn(i) /\ PruneTypes
  BY DEF PruneInv, InstallsGoOn
<1>3. Prn!Stored' = Prn!Stored
  BY <1>1, Labels DEF Prn!Stored
<1>4. /\ job' \in [Installs -> JobRecord] /\ \A j \in Installs \ {i} : job'[j] = job[j]
      /\ job'[i].at = "add" /\ job'[i].todo = job[i].todo /\ job'[i].temp = {f}
  <2>1. job[i] \in JobRecord /\ {f} \in SUBSET Prn!Hashes
    BY <1>2 DEF PruneTypes
  <2>2. job' \in [Installs -> JobRecord]
    BY <1>1, <1>2, <2>1 DEF PruneTypes, JobRecord
  <2> QED BY <1>1, <1>2, <2>1, <2>2 DEF PruneTypes, JobRecord
<1>5. InstallGoesOn(i)'
  BY <1>1, <1>2, <1>3, <1>4 DEF InstallGoesOn
<1>6. files' \subseteq UNION {Prn!Entries(g) : g \in Prn!Hashes}
  <2>1. Prn!Temp(i, f) \in Prn!Entries(f)
    BY DEF Prn!Entries
  <2> QED BY <1>1, <1>2, <2>1 DEF PruneTypes, Prn!PruneTypeOK
<1>7. \A j \in Installs : shared[j] \subseteq Wants(j) \cap Prn!Stored
  BY <1>2 DEF PruneTypes, Prn!PruneTypeOK, Wants
<1>8. shared' \in [Installs -> SUBSET Prn!Hashes]
  BY <1>1, <1>2 DEF PruneTypes
<1>9. /\ \A j \in Installs : shared'[j] = shared[j] /\ shared'[j] \subseteq Wants(j) \cap Prn!Stored'
      /\ \A j \in Installs : job'[i].temp \cap shared[j] = {}
      /\ \A j \in Installs \ {i} : \A g : Prn!Temp(j, g) \in files => Prn!Temp(j, g) \in files'
  BY <1>1, <1>3, <1>4, <1>7
<1> QED BY <1>1, <1>3, <1>4, <1>5, <1>6, <1>8, <1>9, DeadKept, IndexesTyped, InstallMoves

LEMMA RenameTempKeeps ==
  ASSUME Prn!PruneAssumption, PruneInv, NEW i \in Installs, Prn!RenameTemp(i)
  PROVE  PruneInv'
<1>1. PICK f \in job[i].temp :
        /\ job' = [job EXCEPT ![i].temp = {}, ![i].todo = @ \ {f},
                              ![i].at = IF {Prn!Temp(i, f), Prn!File(f)} \cap files # {} THEN "add" ELSE "failed"]
        /\ IF Prn!Temp(i, f) \in files
           THEN /\ files' = (files \ {Prn!Temp(i, f)}) \cup {Prn!File(f)}
                /\ shared' = [j \in Installs |-> shared[j] \ {f}]
           ELSE UNCHANGED <<files, shared>>
  BY DEF Prn!RenameTemp
<1>2. job[i].at = "add" /\ UNCHANGED <<indexes, prune, beside, dead>>
  BY DEF Prn!RenameTemp, Prn!At, Prn!InstallKeeps
<1>3. PruneTypes /\ InstallGoesOn(i) /\ job[i] \in JobRecord /\ f \in Prn!Hashes
  BY <1>1 DEF PruneInv, PruneTypes, JobRecord, InstallsGoOn
<1> DEFINE stg == IF {Prn!Temp(i, f), Prn!File(f)} \cap files # {} THEN "add" ELSE "failed"
<1>4. /\ job' \in [Installs -> JobRecord] /\ \A j \in Installs \ {i} : job'[j] = job[j]
      /\ job'[i].at = stg /\ job'[i].todo = job[i].todo \ {f} /\ job'[i].temp = {}
  <2>1. stg \in {"add", "failed"} /\ job[i].todo \ {f} \in SUBSET Prn!Hashes
    BY <1>3 DEF JobRecord
  <2>2. job' = [job EXCEPT ![i].temp = {}, ![i].todo = @ \ {f}, ![i].at = stg]
    BY <1>1
  <2> HIDE DEF stg
  <2>3. job' \in [Installs -> JobRecord]
    BY <1>3, <2>1, <2>2 DEF PruneTypes, JobRecord
  <2> QED BY <1>3, <2>1, <2>2, <2>3 DEF PruneTypes, JobRecord
<1>5. /\ \A j \in Installs : shared'[j] \subseteq shared[j] /\ (f \notin shared[j] => shared'[j] = shared[j])
      /\ shared' \in [Installs -> SUBSET Prn!Hashes]
  <2>1. shared \in [Installs -> SUBSET Prn!Hashes]
    BY <1>3 DEF PruneTypes
  <2>2. shared' = [j \in Installs |-> shared[j] \ {f}] \/ shared' = shared
    BY <1>1
  <2>3. CASE shared' = [j \in Installs |-> shared[j] \ {f}]
    BY <2>1, <2>3
  <2>4. CASE shared' = shared
    BY <2>1, <2>4
  <2> QED BY <2>2, <2>3, <2>4
<1>6. /\ files' \subseteq files \cup {Prn!File(f)} /\ Prn!Stored \subseteq Prn!Stored'
      /\ Prn!Temp(i, f) \in files => f \in Prn!Stored'
      /\ \A j \in Installs \ {i} : \A g : Prn!Temp(j, g) \in files => Prn!Temp(j, g) \in files'
  BY <1>1, <1>3, Labels DEF Prn!Stored
<1>7. files' \subseteq UNION {Prn!Entries(g) : g \in Prn!Hashes}
  <2>1. Prn!File(f) \in Prn!Entries(f)
    BY DEF Prn!Entries
  <2> QED BY <1>3, <1>6, <2>1 DEF PruneTypes, Prn!PruneTypeOK
<1>8. \A j \in Installs : shared'[j] \subseteq Wants(j) \cap Prn!Stored'
  <2>1. \A j \in Installs : shared[j] \subseteq Wants(j) \cap Prn!Stored
    BY <1>3 DEF PruneTypes, Prn!PruneTypeOK, Wants
  <2> QED BY <1>5, <1>6, <2>1
<1>9. \A j \in Installs : Linked(j) => shared'[j] = shared[j]
  <2>1. \A j \in Installs : Linked(j) => job[i].temp \cap shared[j] = {}
    BY <1>2 DEF PruneInv, LinksStay
  <2> QED BY <1>1, <1>5, <2>1
<1>10. InstallGoesOn(i)'
  <2>1. CASE beside[i] \cap Prunes = {}
    <3>1. Prn!Temp(i, f) \in files
      BY <1>1, <1>2, <1>3, <2>1 DEF InstallGoesOn
    <3>2. stg = "add" /\ f \in Prn!Stored'
      BY <1>6, <3>1
    <3> QED BY <1>2, <1>3, <1>4, <1>5, <1>6, <2>1, <3>2 DEF InstallGoesOn
  <2>2. CASE beside[i] \cap Prunes # {}
    <3>1. stg \in {"add", "failed"}
      OBVIOUS
    <3>2. shared'[i] = {} /\ job'[i].todo \subseteq Wants(i)
      BY <1>2, <1>3, <1>4, <1>5 DEF InstallGoesOn
    <3> QED BY <1>2, <1>4, <2>2, <3>1, <3>2 DEF InstallGoesOn
  <2> QED BY <2>1, <2>2
<1>11. job'[i].at \in {"add", "failed"} /\ \A j \in Installs : job'[i].temp \cap shared[j] = {}
  BY <1>4
<1> QED BY <1>2, <1>4, <1>5, <1>6, <1>7, <1>8, <1>9, <1>10, <1>11, DeadKept, IndexesTyped, InstallMoves

LEMMA WriteIndexKeeps ==
  ASSUME Prn!PruneAssumption, PruneInv, NEW i \in Installs, Prn!WriteIndex(i)
  PROVE  PruneInv'
<1>1. /\ job[i].at = "add" /\ job[i].todo = {} /\ job[i].temp = {}
      /\ indexes' = indexes \cup {PackageOf[i]} /\ Prn!Goto(i, "import")
      /\ UNCHANGED <<files, shared, prune, beside, dead>>
  BY DEF Prn!WriteIndex, Prn!At, Prn!InstallKeeps
<1>2. InstallGoesOn(i) /\ Prn!Stored' = Prn!Stored
  BY <1>1, StoreKept DEF PruneInv, InstallsGoOn
<1>3. /\ job' \in [Installs -> JobRecord] /\ \A j \in Installs \ {i} : job'[j] = job[j]
      /\ job'[i].at = "import" /\ job'[i].todo = Wants(i) /\ job'[i].temp = {}
  BY <1>1, Goes DEF PruneInv
<1>4. InstallGoesOn(i)'
  BY <1>1, <1>2, <1>3 DEF InstallGoesOn
<1>5. indexes \subseteq indexes' /\ indexes' \subseteq Prn!Packages
  BY <1>1, WantsAreHashes, IndexesTyped
<1>6. ASSUME NEW k \in indexes' \ indexes, beside[i] \cap Prunes = {}, k \in DOMAIN Manifest
      PROVE  Manifest[k] \in Prn!Stored'
  <2>1. k = PackageOf[i] /\ Manifest[k] \in Wants(i)
    BY <1>1, <1>6 DEF Prn!PruneAssumption, Wants
  <2> QED BY <1>1, <1>2, <1>6, <2>1 DEF InstallGoesOn
<1> QED BY <1>1, <1>2, <1>3, <1>4, <1>5, <1>6, StoreKept, DeadKept, InstallMoves

LEMMA LinkFilesKeeps ==
  ASSUME Prn!PruneAssumption, PruneInv, NEW i \in Installs, Prn!Import(i)
  PROVE  PruneInv'
<1>1. job[i].at = "import" /\ UNCHANGED <<files, indexes, prune, beside, dead>>
  BY DEF Prn!Import, Prn!At, Prn!InstallKeeps
<1>2. /\ InstallGoesOn(i) /\ PruneTypes /\ Prn!Stored' = Prn!Stored
      /\ \A j \in Installs : shared[j] \subseteq Wants(j) \cap Prn!Stored
      /\ files' \subseteq UNION {Prn!Entries(f) : f \in Prn!Hashes}
  BY <1>1 DEF PruneInv, InstallsGoOn, PruneTypes, Prn!PruneTypeOK, Prn!Stored, Wants
<1>3. beside[i] = {} => Wants(i) \ job[i].todo \subseteq shared[i]
  BY <1>1 DEF PruneInv, LinksStay, Linked
<1>4. CASE job[i].todo = {} /\ Prn!Goto(i, "done") /\ UNCHANGED shared
  <2>1. /\ job' \in [Installs -> JobRecord] /\ \A j \in Installs \ {i} : job'[j] = job[j]
        /\ job'[i].at = "done" /\ job'[i].todo = Wants(i)
    BY <1>2, <1>4, Goes
  <2>2. InstallGoesOn(i)'
    BY <2>1 DEF InstallGoesOn
  <2>3. beside[i] = {} => shared'[i] = Wants(i)
    BY <1>2, <1>3, <1>4
  <2> QED BY <1>1, <1>4, <2>1, <2>2, <2>3, StoreKept, DeadKept, IndexesTyped, InstallMoves
<1>5. ASSUME NEW f \in job[i].todo, f \in Prn!Stored, Prn!Did(i, f), shared' = [shared EXCEPT ![i] = @ \cup {f}]
      PROVE  PruneInv'
  <2>1. /\ job' \in [Installs -> JobRecord] /\ \A j \in Installs \ {i} : job'[j] = job[j]
        /\ job'[i].at = "import" /\ job'[i].todo = job[i].todo \ {f}
    BY <1>1, <1>2, <1>5, PruneDoes
  <2>2. f \in Wants(i) /\ f \in Prn!Hashes
    BY <1>2, <1>5, WantsAreHashes DEF InstallGoesOn
  <2>3. /\ shared' \in [Installs -> SUBSET Prn!Hashes] /\ shared'[i] = shared[i] \cup {f}
        /\ \A j \in Installs \ {i} : shared'[j] = shared[j]
    BY <1>2, <1>5, <2>2 DEF PruneTypes
  <2>4. InstallGoesOn(i)'
    BY <1>1, <1>2, <2>1 DEF InstallGoesOn
  <2>5. \A j \in Installs : shared'[j] \subseteq Wants(j) \cap Prn!Stored'
    BY <1>2, <1>5, <2>2, <2>3
  <2>6. beside[i] = {} => Wants(i) \ job'[i].todo \subseteq shared'[i]
    BY <1>3, <2>1, <2>3
  <2> QED BY <1>1, <1>2, <2>1, <2>3, <2>4, <2>5, <2>6, DeadKept, IndexesTyped, InstallMoves
<1>6. ASSUME NEW f \in job[i].todo, f \notin Prn!Stored, Prn!Goto(i, "failed"), shared' = [shared EXCEPT ![i] = {}]
      PROVE  PruneInv'
  <2>1. /\ job' \in [Installs -> JobRecord] /\ \A j \in Installs \ {i} : job'[j] = job[j]
        /\ job'[i].at = "failed" /\ job'[i].todo = Wants(i)
    BY <1>2, <1>6, Goes
  <2>2. /\ shared' \in [Installs -> SUBSET Prn!Hashes] /\ shared'[i] = {}
        /\ \A j \in Installs \ {i} : shared'[j] = shared[j]
    BY <1>2, <1>6 DEF PruneTypes
  <2>3. beside[i] \cap Prunes # {}
    BY <1>1, <1>2, <1>6 DEF InstallGoesOn
  <2>4. InstallGoesOn(i)'
    BY <1>1, <2>1, <2>2, <2>3 DEF InstallGoesOn
  <2>5. \A j \in Installs : shared'[j] \subseteq Wants(j) \cap Prn!Stored'
    BY <1>2, <2>2
  <2> QED BY <1>1, <1>2, <2>1, <2>2, <2>4, <2>5, DeadKept, IndexesTyped, InstallMoves
<1> QED BY <1>4, <1>5, <1>6 DEF Prn!Import

LEMMA KillInstallKeeps ==
  ASSUME Prn!PruneAssumption, PruneInv, NEW i \in Installs, Prn!KillInstall(i)
  PROVE  PruneInv'
<1>1. /\ i \in Prn!Active /\ dead < MaxDead /\ dead' = dead + 1 /\ job' = [job EXCEPT ![i].at = "killed"]
      /\ UNCHANGED <<files, indexes, shared, prune, beside>>
  BY DEF Prn!KillInstall
<1>2. PruneTypes /\ InstallGoesOn(i)
  BY DEF PruneInv, InstallsGoOn
<1>3. job[i].at \in {"load", "verify", "add", "import"}
  BY <1>1 DEF Prn!Active, Prn!PruneAssumption
<1>4. dead' \in 0..MaxDead
  BY <1>1, <1>2 DEF PruneTypes, Prn!PruneTypeOK, Prn!PruneAssumption
<1>5. /\ job' \in [Installs -> JobRecord] /\ \A j \in Installs \ {i} : job'[j] = job[j]
      /\ job'[i].at = "killed" /\ job'[i].todo = job[i].todo
  BY <1>1, <1>2 DEF PruneTypes, JobRecord
<1>6. InstallGoesOn(i)'
  BY <1>2, <1>5 DEF InstallGoesOn
<1> QED BY <1>1, <1>3, <1>4, <1>5, <1>6, StoreKept, IndexesTyped, InstallMoves

LEMMA UninstallKeeps ==
  ASSUME Prn!PruneAssumption, PruneInv, NEW i \in Installs, Prn!Uninstall(i)
  PROVE  PruneInv'
<1> USE DEF PruneInv
<1>1. /\ job[i].at = "done" /\ Prn!Goto(i, "gone") /\ shared' = [shared EXCEPT ![i] = {}]
      /\ UNCHANGED <<files, indexes, prune, beside, dead>>
  BY DEF Prn!Uninstall, Prn!At, Prn!InstallKeeps
<1>2. /\ job' \in [Installs -> JobRecord] /\ \A j \in Installs \ {i} : job'[j] = job[j]
      /\ job'[i].at = "gone" /\ job'[i].todo = Wants(i)
  BY <1>1, Goes
<1>3. /\ shared' \in [Installs -> SUBSET Prn!Hashes] /\ shared'[i] = {}
      /\ \A j \in Installs \ {i} : shared'[j] = shared[j]
  BY <1>1 DEF PruneTypes
<1>4. Prn!Active' = Prn!Active /\ Prn!Stored' = Prn!Stored
  BY <1>1, <1>2 DEF Prn!Active, Prn!Stored
<1>5. PruneTypes'
  <2>1. Prn!PruneTypeOK'
    BY <1>1, <1>3, <1>4 DEF PruneTypes, Prn!PruneTypeOK
  <2> QED BY <1>1, <1>2, <1>3, <2>1 DEF PruneTypes, JobRecord
<1>6. WhoIsBeside'
  BY <1>1, <1>2, <1>4 DEF WhoIsBeside
<1>7. InstallsGoOn'
  <2> SUFFICES ASSUME NEW j \in Installs PROVE InstallGoesOn(j)'
    BY DEF InstallsGoOn, InstallGoesOn
  <2>1. CASE j = i
    BY <1>2, <2>1 DEF InstallGoesOn
  <2>2. CASE j # i
    BY <1>1, <1>2, <1>3, <1>4, <2>2 DEF InstallsGoOn, InstallGoesOn
  <2> QED BY <2>1, <2>2
<1>8. LinksStay'
  <2> SUFFICES ASSUME NEW j \in Installs, Linked(j)'
               PROVE  /\ \A l \in Installs : job'[l].at = "add" => job'[l].temp \cap shared'[j] = {}
                      /\ \A q \in Prunes, f \in shared'[j] :
                           q \in Prn!Active' => ~Prn!Working(q, Prn!File(f), "unlink")'
                      /\ job'[j].at = "import" => Wants(j) \ job'[j].todo \subseteq shared'[j]
                      /\ job'[j].at = "done" => shared'[j] = Wants(j)
    BY DEF LinksStay, Linked
  <2>1. j # i /\ Linked(j) /\ job'[j] = job[j] /\ shared'[j] = shared[j]
    BY <1>1, <1>2, <1>3 DEF Linked
  <2>2. ASSUME NEW l \in Installs, job'[l].at = "add" PROVE job'[l].temp \cap shared'[j] = {}
    <3>1. l # i /\ job'[l] = job[l]
      BY <1>2, <2>2
    <3> QED BY <2>1, <2>2, <3>1 DEF LinksStay
  <2>3. ASSUME NEW q \in Prunes, NEW f \in shared'[j], q \in Prn!Active'
        PROVE  ~Prn!Working(q, Prn!File(f), "unlink")'
    <3>1. ~Prn!Working(q, Prn!File(f), "unlink")
      BY <1>4, <2>1, <2>3 DEF LinksStay
    <3> QED BY <1>1, <3>1 DEF Prn!Working
  <2>4. /\ job[j].at = "import" => Wants(j) \ job[j].todo \subseteq shared[j]
        /\ job[j].at = "done" => shared[j] = Wants(j)
    BY <2>1 DEF LinksStay
  <2> QED BY <2>1, <2>2, <2>3, <2>4
<1>9. PrunesGoOn'
  BY <1>1 DEF PrunesGoOn, PruneGoesOn
<1>10. ManifestsStay'
  BY <1>1, <1>4 DEF ManifestsStay, Orderly, Forgets, Prn!Working
<1> QED BY <1>5, <1>6, <1>7, <1>8, <1>9, <1>10

-----------------------------------------------------------------------------
LEMMA PruneStarts == ASSUME Prn!PruneAssumption, Prn!Init PROVE PruneInv
<1>1. /\ files = {} /\ indexes = {} /\ shared = [i \in Installs |-> {}]
      /\ job = [i \in Installs |-> [at |-> "idle", todo |-> {}, temp |-> {}]]
      /\ prune = [p \in Prunes |-> Prn!Idle]
      /\ beside = [x \in Processes |-> {}] /\ dead = 0
  BY DEF Prn!Init, Processes
<1>2. Prn!Idle \in PruneRecord /\ Prn!Idle.at = "idle" /\ Prn!Idle.listed = {} /\ Prn!Idle.removed = {}
  BY InitialOps DEF Prn!Idle, PruneRecord
<1>3. \A i \in Installs : job[i].at = "idle" /\ job[i].todo = {} /\ job[i].temp = {}
  BY <1>1
<1>4. \A p \in Prunes : prune[p] \in PruneRecord /\ prune[p].at = "idle" /\ prune[p].listed = {} /\ prune[p].removed = {}
  BY <1>1, <1>2
<1>5. Prn!Active = {}
  BY <1>3, <1>4 DEF Prn!Active
<1>6. PruneTypes
  <2>1. Prn!PruneTypeOK
    BY <1>1, <1>4 DEF Prn!PruneTypeOK, Prn!PruneAssumption
  <2>2. job \in [Installs -> JobRecord]
    BY <1>1 DEF JobRecord
  <2>3. prune \in [Prunes -> PruneRecord]
    BY <1>1, <1>2
  <2> QED BY <1>1, <2>1, <2>2, <2>3 DEF PruneTypes
<1>7. WhoIsBeside
  BY <1>1, <1>5 DEF WhoIsBeside, Processes
<1>8. InstallsGoOn /\ LinksStay
  BY <1>1, <1>3 DEF InstallsGoOn, InstallGoesOn, LinksStay, Linked
<1>9. PrunesGoOn
  BY <1>4 DEF PrunesGoOn, PruneGoesOn
<1>10. ManifestsStay
  BY <1>1, <1>4 DEF ManifestsStay
<1> QED BY <1>6, <1>7, <1>8, <1>9, <1>10 DEF PruneInv

LEMMA PruneNext == ASSUME Prn!PruneAssumption, PruneInv, [Prn!Next]_Prn!pruneVars PROVE PruneInv'
<1>1. CASE UNCHANGED Prn!pruneVars
  BY <1>1 DEF Prn!pruneVars, PruneInv, PruneTypes, WhoIsBeside, InstallsGoOn, InstallGoesOn, LinksStay,
              Linked, PrunesGoOn, PruneGoesOn, ManifestsStay, Orderly, Forgets, Prn!PruneTypeOK,
              Prn!Stored, Prn!Active, Prn!Working
<1>2. CASE Prn!AtRest
  BY <1>1, <1>2 DEF Prn!AtRest
<1>3. ASSUME NEW i \in Installs, Prn!InstallStep(i) PROVE PruneInv'
  BY <1>3, StartInstallKeeps, LoadIndexFileKeeps, VerifyKeeps, RenameTempKeeps, WriteIndexKeeps,
     LinkFilesKeeps, UninstallKeeps, KillInstallKeeps, AddKnownKeeps, AddTempKeeps DEF Prn!InstallStep
<1>4. ASSUME NEW p \in Prunes, Prn!PruneStep(p) PROVE PruneInv'
  BY <1>4, StartPruneKeeps, StartIndexesKeeps, EndKeeps, ReadDirKeeps, StatKeeps, UnlinkKeeps,
     LoadKeeps, RemoveIndexKeeps DEF Prn!PruneStep
<1> QED BY <1>1, <1>2, <1>3, <1>4 DEF Prn!Next

LEMMA PruneInvariant == ASSUME Prn!PruneAssumption PROVE Prn!Spec => []PruneInv
BY PruneStarts, PruneNext, PTL DEF Prn!Spec

\* What an install shares is wanted by it and in the store, and a prune lists
\* packages and removes hashes only.
THEOREM PruneTypeCorrect == ASSUME Prn!PruneAssumption PROVE Prn!Spec => []Prn!PruneTypeOK
<1>1. PruneInv => Prn!PruneTypeOK
  BY DEF PruneInv, PruneTypes
<1> QED BY <1>1, PruneInvariant, PTL

\* Whatever prunes and installs, killed ones too, left behind in the store, an
\* install that had no prune beside it never fails.
THEOREM InstallsSucceed == ASSUME Prn!PruneAssumption PROVE Prn!Spec => []Prn!InstallAloneSucceeds
<1>1. PruneInv => Prn!InstallAloneSucceeds
  BY DEF PruneInv, InstallsGoOn, InstallGoesOn, Prn!InstallAloneSucceeds, Prn!At
<1> QED BY <1>1, PruneInvariant, PTL

\* All that an install linked that had nobody beside it is still the file of the
\* store, whatever other installs and prunes do until node_modules is removed.
THEOREM LinkedFilesStay == ASSUME Prn!PruneAssumption PROVE Prn!Spec => []Prn!LinkedFilesAreKept
<1>1. PruneInv => Prn!LinkedFilesAreKept
  BY DEF PruneInv, LinksStay, Linked, Wants, Prn!LinkedFilesAreKept, Prn!At
<1> QED BY <1>1, PruneInvariant, PTL

\* After prunes that ended well and had no install beside them no index is left
\* whose package.json is gone, also when the prunes ran at the same time.
THEOREM ManifestsAreThere == ASSUME Prn!PruneAssumption PROVE Prn!Spec => []Prn!IndexesHaveManifests
<1>1. PruneInv => Prn!IndexesHaveManifests
  <2> SUFFICES ASSUME PruneInv, \A p \in Prunes : prune[p].at \in {"idle", "ok"} /\ beside[p] \cap Installs = {},
                      NEW k \in indexes, k \in DOMAIN Manifest
               PROVE  Manifest[k] \in Prn!Stored
    BY DEF Prn!IndexesHaveManifests
  <2>1. Orderly
    BY DEF Orderly
  <2>2. \A p \in Prunes : ~Forgets(p, k)
    BY DEF Forgets
  <2> QED BY <2>1, <2>2 DEF PruneInv, ManifestsStay
<1> QED BY <1>1, PruneInvariant, PTL

\* A prune fails only when another process was beside it, or when a package that
\* it listed has no package.json.
THEOREM PrunesSucceed == ASSUME Prn!PruneAssumption PROVE Prn!Spec => []Prn!PruneAloneSucceeds
<1>1. PruneInv => Prn!PruneAloneSucceeds
  BY DEF PruneInv, PrunesGoOn, PruneGoesOn, Prn!PruneAloneSucceeds
<1> QED BY <1>1, PruneInvariant, PTL

-----------------------------------------------------------------------------
\* The cache of pnpm dlx

CacheLinks == [to : Runs \cup {"none"}, at : 0 .. MaxTime]
CleanRecord ==
  [st : {"idle", "stat", "removeAll", "statOrphans", "removeOrphaned", "readTarget", "readChildren",
         "removeChildren", "done", "dead"},
   now : 0 .. MaxTime, target : Runs \cup {"none"}, rest : SUBSET (Runs \cup {"pkg"}), kept : CacheLinks]

DlxTypes == Dlx!DlxTypeOK /\ clean \in [Cleans -> CleanRecord]

\* A clean that is not crossed is alone.
OthersAreCrossed ==
  \A c \in Cleans : Dlx!CleanAtWork(c) => \A p \in Dlx!AllAtWork : p # c => p \in crossed /\ c \in crossed

\* What a process does with a directory that it made, and the link with one that
\* it no longer installs into.
OwnDirs ==
  \A r \in Runs :
    /\ dlx[r].st \in {"adding", "linking", "replacing"} => dlx[r].dir = r
    /\ dlx[r].st = "running" => dlx[r].dir # "none"
    /\ link.to = r => dlx[r].st \in {"running", "done", "dead"}
    /\ dlx[r].st = "idle" => dirs[r] = "none"

\* What a clean has yet to remove.
RestIsRead ==
  \A c \in Cleans :
    /\ clean[c].st \notin {"removeAll", "removeOrphaned", "removeChildren", "dead"} => clean[c].rest = {}
    /\ clean[c].st = "removeChildren" => "pkg" \notin clean[c].rest
    /\ clean[c].now <= clock

\* A directory that is or will be linked is partial only while a clean removes
\* it, or when the link is no longer valid.
Removes(c, r) == Dlx!CleanAtWork(c) /\ r \in clean[c].rest
PartialIsRemoved ==
  ~spoiled => \A r \in Runs :
    dirs[r] = "partial" /\ (dlx[r].st \in {"linking", "replacing"} \/ link.to = r) =>
      (\E c \in Cleans : Removes(c, r)) \/ (link.to = r /\ Dlx!Outdated(link, clock))

\* No clean was there to remove what such a process uses.
RunGoesOn(r) ==
  /\ dlx[r].st = "adding" => dirs[r] = "partial"
  /\ dlx[r].st \in {"linking", "replacing"} => dirs[r] = "whole"
  /\ dlx[r].st = "running" => dirs[dlx[r].dir] = "whole"
  /\ dlx[r].st # "failed"
  /\ dlx[r].st = "done" => dlx[r].saw = "whole"
RunsGoOn == ~spoiled => \A r \in Runs \ crossed : RunGoesOn(r)

\* Nobody but it changed what such a clean has read.
CleanGoesOn(c) ==
  /\ clean[c].st = "removeAll" => link.to = "none" \/ Dlx!Outdated(link, clean[c].now)
  /\ clean[c].st = "removeOrphaned" => link.to = "none"
  /\ clean[c].st \in {"statOrphans", "removeOrphaned", "readTarget", "readChildren", "removeChildren"} =>
       link.to = "none" \/ ~Dlx!Outdated(link, clean[c].now)
  /\ clean[c].st = "readChildren" =>
       /\ clean[c].target \in {link.to, "none"}
       /\ \A r \in Runs : dirs[r] # "none" /\ r = link.to => r = clean[c].target
  /\ clean[c].st = "removeChildren" =>
       /\ link.to \notin clean[c].rest
       /\ \A r \in Runs : dirs[r] # "none" => r = link.to \/ r \in clean[c].rest
  /\ clean[c].kept.to # "none" =>
       /\ link = clean[c].kept /\ ~Dlx!Outdated(link, clean[c].now)
       /\ ~spoiled => dirs[link.to] = "whole"
CleansGoOn == \A c \in Cleans \ crossed : Dlx!CleanAtWork(c) => CleanGoesOn(c)

DlxInv ==
  DlxTypes /\ OthersAreCrossed /\ OwnDirs /\ RestIsRead /\ PartialIsRemoved /\ RunsGoOn /\ CleansGoOn

-----------------------------------------------------------------------------
LEMMA RunMoves ==
  ASSUME Dlx!DlxAssumption, DlxInv, NEW r \in Runs, Dlx!RunAtWork(r),
         UNCHANGED <<clean, clock, crossed>>, DlxTypes', \A q \in Runs \ {r} : dlx'[q] = dlx[q],
         dlx'[r].st # "idle", spoiled => spoiled',
         \A q \in Runs : dirs[q] = "whole" => dirs'[q] = "whole",
         \A q \in Runs \ {r} : dirs'[q] = dirs[q],
         OwnDirs', PartialIsRemoved', ~spoiled' /\ r \notin crossed => RunGoesOn(r)'
  PROVE  DlxInv'
<1> USE DEF DlxInv
<1>1. r \in Dlx!AllAtWork /\ \A c \in Cleans : r # c
  BY DEF Dlx!AllAtWork, Dlx!DlxAssumption
<1>2. Dlx!AllAtWork' \subseteq Dlx!AllAtWork
  BY DEF Dlx!AllAtWork, Dlx!RunAtWork, Dlx!CleanAtWork
<1>3. OthersAreCrossed'
  BY <1>2 DEF OthersAreCrossed, Dlx!CleanAtWork
<1>4. RestIsRead'
  BY DEF RestIsRead
<1>5. RunsGoOn'
  <2> SUFFICES ASSUME ~spoiled', NEW q \in Runs \ crossed PROVE RunGoesOn(q)'
    BY DEF RunsGoOn, RunGoesOn
  <2>1. CASE q = r
    BY <2>1 DEF RunGoesOn
  <2>2. CASE q # r
    <3>1. RunGoesOn(q) /\ dlx'[q] = dlx[q] /\ dirs'[q] = dirs[q]
      BY <2>2 DEF RunsGoOn
    <3>2. dlx[q].st = "running" => dlx[q].dir \in Runs
      BY DEF OwnDirs, DlxTypes, Dlx!DlxTypeOK
    <3> QED BY <3>1, <3>2 DEF RunGoesOn
  <2> QED BY <2>1, <2>2
<1>6. CleansGoOn'
  <2>1. \A c \in Cleans : Dlx!CleanAtWork(c) => c \in crossed
    BY <1>1 DEF OthersAreCrossed
  <2> QED BY <2>1 DEF CleansGoOn, Dlx!CleanAtWork
<1> QED BY <1>3, <1>4, <1>5, <1>6

LEMMA CleanMoves ==
  ASSUME Dlx!DlxAssumption, DlxInv, NEW c \in Cleans, Dlx!CleanAtWork(c),
         UNCHANGED <<dlx, clock, crossed>>, DlxTypes', \A d \in Cleans \ {c} : clean'[d] = clean[d],
         clean'[c].st # "idle", spoiled => spoiled', link' \in {link, Dlx!NoLink},
         \A r \in Runs : dirs[r] = "none" => dirs'[r] = "none",
         RestIsRead',
         ~spoiled' => \A r \in Runs :
           /\ dirs'[r] = "partial" /\ (dirs[r] # "partial" \/ Removes(c, r))
           /\ dlx[r].st \in {"linking", "replacing"} \/ link'.to = r
           => Removes(c, r)' \/ (link'.to = r /\ Dlx!Outdated(link', clock)),
         c \notin crossed /\ Dlx!CleanAtWork(c)' => CleanGoesOn(c)'
  PROVE  DlxInv'
<1> USE DEF DlxInv
<1>1. c \in Dlx!AllAtWork
  BY DEF Dlx!AllAtWork
<1>2. Dlx!AllAtWork' \subseteq Dlx!AllAtWork
  BY DEF Dlx!AllAtWork, Dlx!RunAtWork, Dlx!CleanAtWork
<1>3. OthersAreCrossed'
  BY <1>2 DEF OthersAreCrossed, Dlx!CleanAtWork, Dlx!AllAtWork
<1>4. \A r \in Runs : link'.to = r => link' = link
  BY DEF Dlx!NoLink, Dlx!DlxAssumption
<1>5. OwnDirs'
  BY <1>4 DEF OwnDirs
<1>6. PartialIsRemoved'
  <2> SUFFICES ASSUME ~spoiled', NEW r \in Runs, dirs'[r] = "partial",
                      dlx[r].st \in {"linking", "replacing"} \/ link'.to = r
               PROVE  (\E d \in Cleans : Removes(d, r)') \/ (link'.to = r /\ Dlx!Outdated(link', clock))
    BY DEF PartialIsRemoved, Removes, Dlx!Outdated
  <2>1. CASE dirs[r] # "partial" \/ Removes(c, r)
    BY <2>1
  <2>2. CASE dirs[r] = "partial" /\ ~Removes(c, r)
    <3>1. (\E d \in Cleans : Removes(d, r)) \/ (link.to = r /\ Dlx!Outdated(link, clock))
      BY <1>4, <2>2 DEF PartialIsRemoved
    <3>2. CASE link.to = r /\ Dlx!Outdated(link, clock)
      <4>1. dlx[r].st \notin {"linking", "replacing"}
        BY <3>2 DEF OwnDirs
      <4> QED BY <1>4, <3>2, <4>1
    <3>3. ASSUME NEW d \in Cleans, Removes(d, r) PROVE Removes(d, r)'
      BY <2>2, <3>3 DEF Removes, Dlx!CleanAtWork
    <3> QED BY <3>1, <3>2, <3>3
  <2> QED BY <2>1, <2>2
<1>7. RunsGoOn'
  <2> SUFFICES ASSUME ~spoiled', NEW r \in Runs \ crossed PROVE RunGoesOn(r)'
    BY DEF RunsGoOn, RunGoesOn
  <2>1. RunGoesOn(r) /\ dlx'[r] = dlx[r]
    BY DEF RunsGoOn
  <2>2. dlx[r].st \notin {"adding", "linking", "replacing", "running"}
    BY DEF OthersAreCrossed, Dlx!AllAtWork, Dlx!RunAtWork, Dlx!DlxAssumption
  <2> QED BY <2>1, <2>2 DEF RunGoesOn
<1>8. CleansGoOn'
  <2> SUFFICES ASSUME NEW d \in Cleans \ crossed, Dlx!CleanAtWork(d)' PROVE CleanGoesOn(d)'
    BY DEF CleansGoOn, CleanGoesOn, Dlx!Outdated
  <2>1. CASE d = c
    BY <2>1
  <2>2. CASE d # c
    <3>1. Dlx!CleanAtWork(d)
      BY <2>2 DEF Dlx!CleanAtWork
    <3> QED BY <1>1, <2>2, <3>1 DEF OthersAreCrossed
  <2> QED BY <2>1, <2>2
<1> QED BY <1>3, <1>5, <1>6, <1>7, <1>8

LEMMA ValidIsWhole ==
  ASSUME Dlx!DlxAssumption, DlxInv, Dlx!IsValid(link), ~spoiled,
         \A c \in Cleans : ~Dlx!CleanAtWork(c)
  PROVE  link.to \in Runs /\ dirs[link.to] = "whole" /\ ~Dlx!Outdated(link, clock)
<1>1. link.to \in Runs /\ dirs[link.to] \in {"partial", "whole"} /\ ~Dlx!Outdated(link, clock)
  BY DEF Dlx!IsValid, DlxInv, DlxTypes, Dlx!DlxTypeOK
<1>2. dirs[link.to] # "partial"
  BY <1>1 DEF DlxInv, PartialIsRemoved, Removes
<1> QED BY <1>1, <1>2

LEMMA FindCacheKeeps ==
  ASSUME Dlx!DlxAssumption, DlxInv, NEW r \in Runs, Dlx!FindCache(r)
  PROVE  DlxInv'
<1> USE DEF DlxInv
<1> DEFINE ran == [dlx[r] EXCEPT !.st = "running", !.dir = link.to]
           adds == [dlx[r] EXCEPT !.st = "adding", !.dir = r]
<1>1. /\ dlx[r].st = "idle" /\ Dlx!Crossing(r) /\ UNCHANGED <<link, clean, clock, kills, spoiled>>
      /\ \/ Dlx!IsValid(link) /\ dlx' = [dlx EXCEPT ![r] = ran] /\ UNCHANGED dirs
         \/ dlx' = [dlx EXCEPT ![r] = adds] /\ dirs' = [dirs EXCEPT ![r] = "partial"]
  BY DEF Dlx!FindCache
<1>2. /\ dirs \in [Runs -> {"none", "partial", "whole"}] /\ link.to \in Runs \cup {"none"}
      /\ dirs[r] = "none" /\ link.to # r
  BY <1>1 DEF DlxTypes, Dlx!DlxTypeOK, OwnDirs
<1> DEFINE DlxRecord ==
             [st : {"idle", "adding", "linking", "replacing", "running", "done", "failed", "dead"},
              dir : Runs \cup {"none"}, saw : {"none", "partial", "whole"}]
<1>3. dlx \in [Runs -> DlxRecord] /\ dlx[r] \in DlxRecord
  BY DEF DlxTypes, Dlx!DlxTypeOK
<1>4. /\ ran \in DlxRecord /\ ran.st = "running" /\ ran.dir = link.to
      /\ adds \in DlxRecord /\ adds.st = "adding" /\ adds.dir = r
  BY <1>2, <1>3
<1> HIDE DEF ran, adds, DlxRecord
<1>5. /\ \/ Dlx!IsValid(link) /\ dlx'[r] = ran /\ UNCHANGED dirs
         \/ dlx'[r] = adds /\ dirs' = [dirs EXCEPT ![r] = "partial"]
      /\ dlx' \in [Runs -> DlxRecord] /\ \A q \in Runs \ {r} : dlx'[q] = dlx[q]
  BY <1>1, <1>3, <1>4
<1>6. /\ dirs' \in [Runs -> {"none", "partial", "whole"}]
      /\ \A q \in Runs \ {r} : dirs'[q] = dirs[q]
  BY <1>2, <1>5
<1>7. /\ dlx'[r].st \in {"running", "adding"} /\ dlx'[r].dir # "none"
      /\ dlx'[r].st = "adding" => dlx'[r].dir = r
  BY <1>2, <1>4, <1>5 DEF Dlx!IsValid, Dlx!DlxAssumption
<1>8. /\ r \in Dlx!AllAtWork' /\ Dlx!AllAtWork' = Dlx!AllAtWork \cup {r}
      /\ Dlx!AllAtWork \subseteq Runs \cup Cleans
  BY <1>1, <1>5, <1>7 DEF Dlx!AllAtWork, Dlx!RunAtWork, Dlx!CleanAtWork
<1>9. /\ crossed \subseteq crossed' /\ crossed' \subseteq crossed \cup {r} \cup Dlx!AllAtWork
      /\ (\E c \in Cleans : Dlx!CleanAtWork(c)) => {r} \cup Dlx!AllAtWork \subseteq crossed'
  BY <1>1 DEF Dlx!Crossing
<1>10. DlxTypes'
  BY <1>1, <1>5, <1>6, <1>8, <1>9 DEF DlxTypes, Dlx!DlxTypeOK, DlxRecord
<1>11. OthersAreCrossed'
  BY <1>1, <1>8, <1>9 DEF OthersAreCrossed, Dlx!CleanAtWork, Dlx!AllAtWork
<1>12. OwnDirs'
  BY <1>1, <1>2, <1>5, <1>6, <1>7 DEF OwnDirs
<1>13. RestIsRead'
  BY <1>1 DEF RestIsRead
<1>14. PartialIsRemoved'
  <2> SUFFICES ASSUME ~spoiled', NEW q \in Runs, dirs'[q] = "partial",
                      dlx'[q].st \in {"linking", "replacing"} \/ link.to = q
               PROVE  (\E d \in Cleans : Removes(d, q)) \/ (link.to = q /\ Dlx!Outdated(link, clock))
    BY <1>1 DEF PartialIsRemoved, Removes, Dlx!CleanAtWork, Dlx!Outdated
  <2>1. q # r /\ dlx'[q] = dlx[q] /\ dirs'[q] = dirs[q]
    BY <1>2, <1>5, <1>6, <1>7
  <2> QED BY <1>1, <2>1 DEF PartialIsRemoved
<1>15. RunsGoOn'
  <2> SUFFICES ASSUME ~spoiled', NEW q \in Runs, q \notin crossed' PROVE RunGoesOn(q)'
    BY DEF RunsGoOn, RunGoesOn
  <2>1. CASE q # r
    <3>1. RunGoesOn(q) /\ dlx'[q] = dlx[q] /\ dirs'[q] = dirs[q]
      BY <1>1, <1>5, <1>6, <1>9, <2>1 DEF RunsGoOn
    <3>2. dlx[q].st = "running" => dlx[q].dir \in Runs
      BY <1>3 DEF OwnDirs, DlxRecord
    <3>3. dlx[q].st = "running" => dlx[q].dir # r
      BY <1>2, <3>1 DEF RunGoesOn
    <3>4. dlx[q].st = "running" => dirs'[dlx[q].dir] = "whole"
      BY <1>6, <3>1, <3>2, <3>3 DEF RunGoesOn
    <3> QED BY <3>1, <3>4 DEF RunGoesOn
  <2>2. CASE q = r
    <3>1. \A c \in Cleans : ~Dlx!CleanAtWork(c)
      BY <1>9, <2>2
    <3>2. CASE Dlx!IsValid(link) /\ dlx'[r] = ran /\ UNCHANGED dirs
      <4>1. dirs'[link.to] = "whole"
        BY <1>1, <3>1, <3>2, ValidIsWhole
      <4> QED BY <1>4, <2>2, <3>2, <4>1 DEF RunGoesOn
    <3>3. CASE dlx'[r] = adds /\ dirs' = [dirs EXCEPT ![r] = "partial"]
      BY <1>2, <1>4, <2>2, <3>3 DEF RunGoesOn
    <3> QED BY <1>5, <3>2, <3>3
  <2> QED BY <2>1, <2>2
<1>16. CleansGoOn'
  <2>1. \A c \in Cleans : Dlx!CleanAtWork(c) => c \in crossed'
    BY <1>9 DEF Dlx!AllAtWork
  <2> QED BY <1>1, <2>1 DEF CleansGoOn, Dlx!CleanAtWork
<1> QED BY <1>10, <1>11, <1>12, <1>13, <1>14, <1>15, <1>16

LEMMA BeginCleanKeeps ==
  ASSUME Dlx!DlxAssumption, DlxInv, NEW c \in Cleans, Dlx!BeginClean(c)
  PROVE  DlxInv'
<1> USE DEF DlxInv
<1> DEFINE kept == IF Dlx!IsValid(link) THEN link ELSE Dlx!NoLink
           new == [Dlx!Resting EXCEPT !.st = "stat", !.now = clock, !.kept = kept]
<1>1. /\ clean[c].st = "idle" /\ Dlx!Crossing(c) /\ UNCHANGED <<dirs, link, dlx, clock, kills, spoiled>>
      /\ clean' = [clean EXCEPT ![c] = new]
  BY DEF Dlx!BeginClean, Dlx!Set
<1>2. kept \in CacheLinks /\ clock \in 0 .. MaxTime
  BY DEF DlxTypes, Dlx!DlxTypeOK, CacheLinks, Dlx!NoLink, Dlx!DlxAssumption
<1>3. /\ new \in CleanRecord /\ new.st = "stat" /\ new.now = clock /\ new.rest = {} /\ new.kept = kept
  BY <1>2 DEF Dlx!Resting, CleanRecord
<1> HIDE DEF new
<1>4. /\ clean' \in [Cleans -> CleanRecord] /\ clean'[c] = new
      /\ \A d \in Cleans \ {c} : clean'[d] = clean[d]
  BY <1>1, <1>3 DEF DlxTypes
<1>5. c \notin Runs /\ ~Dlx!CleanAtWork(c)
  BY <1>1 DEF Dlx!CleanAtWork, Dlx!DlxAssumption
<1>6. /\ Dlx!AllAtWork' = Dlx!AllAtWork \cup {c} /\ Dlx!AllAtWork \subseteq Runs \cup Cleans
  BY <1>1, <1>3, <1>4 DEF Dlx!AllAtWork, Dlx!RunAtWork, Dlx!CleanAtWork
<1>7. /\ crossed \subseteq crossed' /\ crossed' \subseteq crossed \cup {c} \cup Dlx!AllAtWork
      /\ Dlx!AllAtWork # {} => {c} \cup Dlx!AllAtWork \subseteq crossed'
  BY <1>1, <1>5 DEF Dlx!Crossing
<1>8. DlxTypes'
  BY <1>1, <1>4, <1>6, <1>7 DEF DlxTypes, Dlx!DlxTypeOK, CleanRecord
<1>9. OthersAreCrossed'
  BY <1>6, <1>7 DEF OthersAreCrossed, Dlx!AllAtWork
<1>10. OwnDirs'
  BY <1>1 DEF OwnDirs
<1>11. RestIsRead'
  BY <1>1, <1>2, <1>3, <1>4 DEF RestIsRead
<1>12. PartialIsRemoved'
  <2>1. \A d \in Cleans, r \in Runs : Removes(d, r) => Removes(d, r)'
    BY <1>4, <1>5 DEF Removes, Dlx!CleanAtWork
  <2> QED BY <1>1, <2>1 DEF PartialIsRemoved, Dlx!Outdated
<1>13. RunsGoOn'
  BY <1>1, <1>7 DEF RunsGoOn, RunGoesOn
<1>14. CleansGoOn'
  <2> SUFFICES ASSUME NEW d \in Cleans, d \notin crossed', Dlx!CleanAtWork(d)' PROVE CleanGoesOn(d)'
    BY DEF CleansGoOn, CleanGoesOn, Dlx!Outdated
  <2>1. d = c
    BY <1>4, <1>7 DEF Dlx!AllAtWork, Dlx!CleanAtWork
  <2>2. \A e \in Cleans : ~Dlx!CleanAtWork(e)
    BY <1>7, <2>1 DEF Dlx!AllAtWork
  <2>3. CASE Dlx!IsValid(link)
    <3>1. kept = link /\ ~Dlx!Outdated(link, clock)
      BY <2>3 DEF Dlx!IsValid
    <3>2. ~spoiled => dirs[link.to] = "whole"
      BY <2>2, <2>3, ValidIsWhole
    <3> QED BY <1>1, <1>3, <1>4, <2>1, <3>1, <3>2 DEF CleanGoesOn, Dlx!Outdated
  <2>4. CASE ~Dlx!IsValid(link)
    <3>1. kept.to = "none"
      BY <2>4 DEF Dlx!NoLink
    <3> QED BY <1>1, <1>3, <1>4, <2>1, <3>1 DEF CleanGoesOn
  <2> QED BY <2>3, <2>4
<1> QED BY <1>8, <1>9, <1>10, <1>11, <1>12, <1>13, <1>14

LEMMA TickKeeps == ASSUME Dlx!DlxAssumption, DlxInv, Dlx!Tick PROVE DlxInv'
<1> USE DEF DlxInv
<1>1. clock < MaxTime /\ clock' = clock + 1 /\ UNCHANGED <<dirs, link, dlx, clean, kills, crossed, spoiled>>
  BY DEF Dlx!Tick
<1>2. clock \in 0 .. MaxTime /\ link.at \in 0 .. MaxTime /\ MaxTime \in Nat /\ MaxAge \in Nat
  BY DEF DlxTypes, Dlx!DlxTypeOK, Dlx!DlxAssumption
<1>3. DlxTypes'
  <2>1. clock' \in 0 .. MaxTime
    BY <1>1, <1>2
  <2> QED BY <1>1, <2>1 DEF DlxTypes, Dlx!DlxTypeOK
<1>4. OthersAreCrossed' /\ OwnDirs' /\ RunsGoOn'
  BY <1>1 DEF OthersAreCrossed, OwnDirs, RunsGoOn, RunGoesOn, Dlx!AllAtWork, Dlx!RunAtWork, Dlx!CleanAtWork
<1>5. RestIsRead'
  <2>1. \A c \in Cleans : clean[c].now \in Nat
    BY <1>2 DEF DlxTypes, CleanRecord
  <2> QED BY <1>1, <1>2, <2>1 DEF RestIsRead
<1>6. PartialIsRemoved'
  <2>1. Dlx!Outdated(link, clock) => Dlx!Outdated(link, clock')
    BY <1>1, <1>2 DEF Dlx!Outdated
  <2> QED BY <1>1, <2>1 DEF PartialIsRemoved, Removes, Dlx!CleanAtWork, Dlx!Outdated
<1>7. CleansGoOn'
  BY <1>1 DEF CleansGoOn, CleanGoesOn, Dlx!CleanAtWork, Dlx!Outdated
<1> QED BY <1>3, <1>4, <1>5, <1>6, <1>7

-----------------------------------------------------------------------------
\* The steps of a run

DlxRecord ==
  [st : {"idle", "adding", "linking", "replacing", "running", "done", "failed", "dead"},
   dir : Runs \cup {"none"}, saw : {"none", "partial", "whole"}]

LEMMA Becomes ==
  ASSUME DlxInv, NEW r \in Runs,
         NEW st \in {"linking", "replacing", "running", "failed", "dead"}, Dlx!Become(r, st)
  PROVE  /\ dlx' \in [Runs -> DlxRecord] /\ \A q \in Runs \ {r} : dlx'[q] = dlx[q]
         /\ dlx'[r].st = st /\ dlx'[r].dir = dlx[r].dir /\ dlx'[r].saw = dlx[r].saw
<1>1. dlx \in [Runs -> DlxRecord] /\ dlx[r] \in DlxRecord
  BY DEF DlxInv, DlxTypes, Dlx!DlxTypeOK, DlxRecord
<1>2. dlx' = [dlx EXCEPT ![r] = [dlx[r] EXCEPT !.st = st]]
  BY DEF Dlx!Become
<1>3. LET d == [dlx[r] EXCEPT !.st = st] IN
        d \in DlxRecord /\ d.st = st /\ d.dir = dlx[r].dir /\ d.saw = dlx[r].saw
  BY <1>1 DEF DlxRecord
<1> QED BY <1>1, <1>2, <1>3

LEMMA AddKeeps ==
  ASSUME Dlx!DlxAssumption, DlxInv, NEW r \in Runs, Dlx!Add(r) PROVE DlxInv'
<1>1. /\ dlx[r].st = "adding" /\ UNCHANGED <<link, clean, clock, kills, crossed>>
      /\ spoiled' = (spoiled \/ dirs'[r] = "partial")
  BY DEF Dlx!Add
<1>2. PICK st \in {"linking", "failed"} :
        /\ Dlx!Become(r, st)
        /\ \/ dirs[r] = "partial" /\ dirs' = [dirs EXCEPT ![r] = "whole"] /\ st = "linking"
           \/ dirs[r] = "none" /\ dirs' = dirs
           \/ dirs[r] = "none" /\ dirs' = [dirs EXCEPT ![r] = "partial"] /\ st = "linking"
  BY DEF Dlx!Add
<1>3. /\ dlx' \in [Runs -> DlxRecord] /\ \A q \in Runs \ {r} : dlx'[q] = dlx[q]
      /\ dlx'[r].st = st /\ dlx'[r].dir = dlx[r].dir /\ dlx'[r].saw = dlx[r].saw
  BY <1>2, Becomes
<1>4. /\ dirs \in [Runs -> {"none", "partial", "whole"}] /\ link.to # r /\ dlx[r].dir = r
      /\ ~spoiled /\ r \notin crossed => dirs[r] = "partial"
  BY <1>1 DEF DlxInv, DlxTypes, Dlx!DlxTypeOK, OwnDirs, RunsGoOn, RunGoesOn
<1>5. /\ dirs' \in [Runs -> {"none", "partial", "whole"}] /\ \A q \in Runs \ {r} : dirs'[q] = dirs[q]
      /\ \A q \in Runs : dirs[q] = "whole" => dirs'[q] = "whole"
      /\ dirs'[r] = "partial" => spoiled' = TRUE
      /\ dirs[r] = "partial" => dirs'[r] = "whole" /\ st = "linking"
  BY <1>1, <1>2, <1>4
<1>6. DlxTypes'
  BY <1>1, <1>3, <1>5 DEF DlxInv, DlxTypes, Dlx!DlxTypeOK, DlxRecord, CacheLinks
<1>7. OwnDirs'
  BY <1>1, <1>3, <1>4, <1>5 DEF DlxInv, OwnDirs
<1>8. PartialIsRemoved'
  <2> SUFFICES ASSUME ~spoiled', NEW q \in Runs, dirs'[q] = "partial",
                      dlx'[q].st \in {"linking", "replacing"} \/ link.to = q
               PROVE  (\E d \in Cleans : Removes(d, q)) \/ (link.to = q /\ Dlx!Outdated(link, clock))
    BY <1>1 DEF PartialIsRemoved, Removes, Dlx!CleanAtWork, Dlx!Outdated
  <2>1. q # r /\ ~spoiled
    BY <1>1, <1>5
  <2> QED BY <1>3, <1>5, <2>1 DEF DlxInv, PartialIsRemoved
<1>9. ~spoiled' /\ r \notin crossed => RunGoesOn(r)'
  <2> SUFFICES ASSUME ~spoiled', r \notin crossed PROVE RunGoesOn(r)'
    OBVIOUS
  <2>1. dirs'[r] = "whole" /\ dlx'[r].st = "linking"
    BY <1>1, <1>3, <1>4, <1>5
  <2> QED BY <2>1 DEF RunGoesOn
<1>10. Dlx!RunAtWork(r) /\ (spoiled => spoiled')
  BY <1>1 DEF Dlx!RunAtWork
<1> QED BY <1>1, <1>3, <1>5, <1>6, <1>7, <1>8, <1>9, <1>10, RunMoves

LEMMA SymlinkDirKeeps ==
  ASSUME Dlx!DlxAssumption, DlxInv, NEW r \in Runs, Dlx!SymlinkDir(r) PROVE DlxInv'
<1>1. dlx[r].st = "linking" /\ UNCHANGED <<dirs, clean, clock, kills, crossed, spoiled>>
  BY DEF Dlx!SymlinkDir
<1>2. PICK st \in {"running", "replacing"} :
        /\ Dlx!Become(r, st)
        /\ \/ link.to = "none" /\ link' = [to |-> r, at |-> clock] /\ st = "running"
           \/ link' = link /\ st = "replacing"
  BY DEF Dlx!SymlinkDir
<1>3. /\ dlx' \in [Runs -> DlxRecord] /\ \A q \in Runs \ {r} : dlx'[q] = dlx[q]
      /\ dlx'[r].st = st /\ dlx'[r].dir = dlx[r].dir /\ dlx'[r].saw = dlx[r].saw
  BY <1>2, Becomes
<1>4. dlx[r].dir = r /\ r # "none" /\ link.to # r /\ link \in CacheLinks /\ clock \in 0 .. MaxTime
  BY <1>1 DEF DlxInv, DlxTypes, Dlx!DlxTypeOK, OwnDirs, Dlx!DlxAssumption, CacheLinks
<1>5. /\ link' \in CacheLinks /\ (link'.to = r => st = "running" /\ link.to = "none")
      /\ \A q \in Runs \ {r} : link'.to = q => link' = link
  BY <1>2, <1>4 DEF CacheLinks
<1>6. DlxTypes'
  BY <1>1, <1>3, <1>5 DEF DlxInv, DlxTypes, Dlx!DlxTypeOK, DlxRecord, CacheLinks
<1>7. OwnDirs'
  BY <1>1, <1>2, <1>3, <1>4, <1>5 DEF DlxInv, OwnDirs
<1>8. PartialIsRemoved'
  <2> SUFFICES ASSUME ~spoiled, NEW q \in Runs, dirs[q] = "partial",
                      dlx'[q].st \in {"linking", "replacing"} \/ link'.to = q
               PROVE  (\E d \in Cleans : Removes(d, q)) \/ (link'.to = q /\ Dlx!Outdated(link', clock))
    BY <1>1 DEF PartialIsRemoved, Removes, Dlx!CleanAtWork, Dlx!Outdated
  <2>1. CASE q = r
    BY <1>1, <1>4, <2>1 DEF DlxInv, PartialIsRemoved
  <2>2. CASE q # r
    <3>1. dlx'[q] = dlx[q] /\ (link'.to = q => link' = link)
      BY <1>3, <1>5, <2>2
    <3>2. (\E d \in Cleans : Removes(d, q)) \/ (link.to = q /\ Dlx!Outdated(link, clock))
      BY <3>1 DEF DlxInv, PartialIsRemoved
    <3>3. link.to = q => dlx[q].st \notin {"linking", "replacing"}
      BY DEF DlxInv, OwnDirs
    <3> QED BY <3>1, <3>2, <3>3
  <2> QED BY <2>1, <2>2
<1>9. ~spoiled' /\ r \notin crossed => RunGoesOn(r)'
  <2> SUFFICES ASSUME ~spoiled', r \notin crossed PROVE RunGoesOn(r)'
    OBVIOUS
  <2>1. dirs[r] = "whole"
    BY <1>1 DEF DlxInv, RunsGoOn, RunGoesOn
  <2> QED BY <1>1, <1>3, <1>4, <2>1 DEF RunGoesOn
<1>10. Dlx!RunAtWork(r) /\ (spoiled => spoiled')
  BY <1>1 DEF Dlx!RunAtWork
<1> QED BY <1>1, <1>3, <1>6, <1>7, <1>8, <1>9, <1>10, RunMoves

LEMMA ReplaceLinkKeeps ==
  ASSUME Dlx!DlxAssumption, DlxInv, NEW r \in Runs, Dlx!ReplaceLink(r) PROVE DlxInv'
<1>1. dlx[r].st = "replacing" /\ UNCHANGED <<dirs, clean, clock, kills, crossed, spoiled>>
  BY DEF Dlx!ReplaceLink
<1>2. PICK st \in {"running", "linking"} : Dlx!Become(r, st) /\ link' \in {link, Dlx!NoLink}
  BY DEF Dlx!ReplaceLink
<1>3. /\ dlx' \in [Runs -> DlxRecord] /\ \A q \in Runs \ {r} : dlx'[q] = dlx[q]
      /\ dlx'[r].st = st /\ dlx'[r].dir = dlx[r].dir /\ dlx'[r].saw = dlx[r].saw
  BY <1>2, Becomes
<1>4. dlx[r].dir = r /\ r # "none" /\ link.to # r /\ link \in CacheLinks
  BY <1>1 DEF DlxInv, DlxTypes, Dlx!DlxTypeOK, OwnDirs, Dlx!DlxAssumption, CacheLinks
<1>5. /\ link' \in CacheLinks /\ link'.to # r /\ \A q \in Runs : link'.to = q => link' = link
  BY <1>2, <1>4 DEF CacheLinks, Dlx!NoLink, Dlx!DlxAssumption
<1>6. DlxTypes'
  BY <1>1, <1>3, <1>5 DEF DlxInv, DlxTypes, Dlx!DlxTypeOK, DlxRecord, CacheLinks
<1>7. OwnDirs'
  BY <1>1, <1>2, <1>3, <1>4, <1>5 DEF DlxInv, OwnDirs
<1>8. PartialIsRemoved'
  <2> SUFFICES ASSUME ~spoiled, NEW q \in Runs, dirs[q] = "partial",
                      dlx'[q].st \in {"linking", "replacing"} \/ link'.to = q
               PROVE  (\E d \in Cleans : Removes(d, q)) \/ (link'.to = q /\ Dlx!Outdated(link', clock))
    BY <1>1 DEF PartialIsRemoved, Removes, Dlx!CleanAtWork, Dlx!Outdated
  <2>1. dlx[q].st \in {"linking", "replacing"} \/ link.to = q
    BY <1>1, <1>3, <1>5
  <2>2. (\E d \in Cleans : Removes(d, q)) \/ (link.to = q /\ Dlx!Outdated(link, clock))
    BY <2>1 DEF DlxInv, PartialIsRemoved
  <2>3. link.to = q => dlx'[q].st \notin {"linking", "replacing"}
    BY <1>3, <1>4 DEF DlxInv, OwnDirs
  <2> QED BY <1>5, <2>2, <2>3
<1>9. ~spoiled' /\ r \notin crossed => RunGoesOn(r)'
  <2> SUFFICES ASSUME ~spoiled', r \notin crossed PROVE RunGoesOn(r)'
    OBVIOUS
  <2>1. dirs[r] = "whole"
    BY <1>1 DEF DlxInv, RunsGoOn, RunGoesOn
  <2> QED BY <1>1, <1>3, <1>4, <2>1 DEF RunGoesOn
<1>10. Dlx!RunAtWork(r) /\ (spoiled => spoiled')
  BY <1>1 DEF Dlx!RunAtWork
<1> QED BY <1>1, <1>3, <1>6, <1>7, <1>8, <1>9, <1>10, RunMoves

LEMMA ExecuteKeeps ==
  ASSUME Dlx!DlxAssumption, DlxInv, NEW r \in Runs, Dlx!Execute(r) PROVE DlxInv'
<1>1. /\ dlx[r].st = "running" /\ UNCHANGED <<dirs, link, clean, clock, kills, crossed, spoiled>>
      /\ dlx' = [dlx EXCEPT ![r] = [dlx[r] EXCEPT !.st = "done", !.saw = dirs[dlx[r].dir]]]
  BY DEF Dlx!Execute, DlxInv, DlxTypes, Dlx!DlxTypeOK
<1>2. dlx \in [Runs -> DlxRecord] /\ dlx[r] \in DlxRecord /\ dirs[dlx[r].dir] \in {"none", "partial", "whole"}
  BY <1>1 DEF DlxInv, DlxTypes, Dlx!DlxTypeOK, DlxRecord, OwnDirs
<1>3. \A t \in {"none", "partial", "whole"} :
        LET d == [dlx[r] EXCEPT !.st = "done", !.saw = t] IN
        d \in DlxRecord /\ d.st = "done" /\ d.dir = dlx[r].dir /\ d.saw = t
  BY <1>2 DEF DlxRecord
<1>4. /\ dlx' \in [Runs -> DlxRecord] /\ \A q \in Runs \ {r} : dlx'[q] = dlx[q]
      /\ dlx'[r].st = "done" /\ dlx'[r].saw = dirs[dlx[r].dir]
  BY <1>1, <1>2, <1>3
<1>5. DlxTypes'
  BY <1>1, <1>4 DEF DlxInv, DlxTypes, Dlx!DlxTypeOK, DlxRecord
<1>6. OwnDirs'
  BY <1>1, <1>4 DEF DlxInv, OwnDirs
<1>7. PartialIsRemoved'
  <2>1. \A q \in Runs : dlx'[q].st \in {"linking", "replacing"} => dlx[q].st \in {"linking", "replacing"}
    BY <1>1, <1>4
  <2> QED BY <1>1, <2>1 DEF DlxInv, PartialIsRemoved, Removes, Dlx!CleanAtWork, Dlx!Outdated
<1>8. ~spoiled' /\ r \notin crossed => RunGoesOn(r)'
  BY <1>1, <1>4 DEF DlxInv, RunsGoOn, RunGoesOn
<1>9. Dlx!RunAtWork(r) /\ (spoiled => spoiled')
  BY <1>1 DEF Dlx!RunAtWork
<1> QED BY <1>1, <1>4, <1>5, <1>6, <1>7, <1>8, <1>9, RunMoves

LEMMA KillRunKeeps ==
  ASSUME Dlx!DlxAssumption, DlxInv, NEW r \in Runs, Dlx!Kill(r) PROVE DlxInv'
<1>1. /\ r \in Dlx!AllAtWork /\ kills < MaxKills /\ kills' = kills + 1 /\ Dlx!Become(r, "dead")
      /\ UNCHANGED <<dirs, link, clean, clock, crossed, spoiled>>
  BY DEF Dlx!Kill
<1>2. /\ dlx' \in [Runs -> DlxRecord] /\ \A q \in Runs \ {r} : dlx'[q] = dlx[q]
      /\ dlx'[r].st = "dead"
  BY <1>1, Becomes
<1>3. Dlx!RunAtWork(r) /\ (spoiled => spoiled')
  BY <1>1 DEF Dlx!AllAtWork, Dlx!DlxAssumption
<1>4. DlxTypes'
  <2>1. kills' \in 0 .. MaxKills
    BY <1>1 DEF DlxInv, DlxTypes, Dlx!DlxTypeOK, Dlx!DlxAssumption
  <2> QED BY <1>1, <1>2, <2>1 DEF DlxInv, DlxTypes, Dlx!DlxTypeOK, DlxRecord
<1>5. OwnDirs'
  BY <1>1, <1>2 DEF DlxInv, OwnDirs
<1>6. PartialIsRemoved'
  <2>1. \A q \in Runs : dlx'[q].st \in {"linking", "replacing"} => dlx[q].st \in {"linking", "replacing"}
    BY <1>1, <1>2
  <2> QED BY <1>1, <2>1 DEF DlxInv, PartialIsRemoved, Removes, Dlx!CleanAtWork, Dlx!Outdated
<1>7. RunGoesOn(r)'
  BY <1>2 DEF RunGoesOn
<1> QED BY <1>1, <1>2, <1>3, <1>4, <1>5, <1>6, <1>7, RunMoves

-----------------------------------------------------------------------------
\* The steps of a clean

CleanStages ==
  {"idle", "stat", "removeAll", "statOrphans", "removeOrphaned", "readTarget", "readChildren",
   "removeChildren", "done", "dead"}

LEMMA CleanFields ==
  ASSUME DlxInv, NEW c \in Cleans, NEW st \in CleanStages, NEW target \in Runs \cup {"none"},
         NEW rest \in SUBSET (Runs \cup {"pkg"}),
         LET o == clean[c] IN
         clean' = [clean EXCEPT ![c] = [o EXCEPT !.st = st, !.target = target, !.rest = rest]]
  PROVE  /\ clean' \in [Cleans -> CleanRecord] /\ \A d \in Cleans \ {c} : clean'[d] = clean[d]
         /\ clean'[c].st = st /\ clean'[c].target = target /\ clean'[c].rest = rest
         /\ clean'[c].now = clean[c].now /\ clean'[c].kept = clean[c].kept
<1>1. clean \in [Cleans -> CleanRecord] /\ clean[c] \in CleanRecord
  BY DEF DlxInv, DlxTypes
<1>2. LET d == [clean[c] EXCEPT !.st = st, !.target = target, !.rest = rest] IN
        /\ d \in CleanRecord /\ d.st = st /\ d.target = target /\ d.rest = rest
        /\ d.now = clean[c].now /\ d.kept = clean[c].kept
  BY <1>1 DEF CleanRecord, CleanStages
<1> QED BY <1>1, <1>2

LEMMA CleanGoes ==
  ASSUME DlxInv, NEW c \in Cleans, NEW st \in CleanStages, Dlx!Go(c, st)
  PROVE  /\ clean' \in [Cleans -> CleanRecord] /\ \A d \in Cleans \ {c} : clean'[d] = clean[d]
         /\ clean'[c].st = st /\ clean'[c].target = clean[c].target /\ clean'[c].rest = clean[c].rest
         /\ clean'[c].now = clean[c].now /\ clean'[c].kept = clean[c].kept
<1>1. clean \in [Cleans -> CleanRecord] /\ clean[c] \in CleanRecord
  BY DEF DlxInv, DlxTypes
<1>2. LET d == [clean[c] EXCEPT !.st = st] IN
        /\ d \in CleanRecord /\ d.st = st /\ d.target = clean[c].target /\ d.rest = clean[c].rest
        /\ d.now = clean[c].now /\ d.kept = clean[c].kept
  BY <1>1 DEF CleanRecord, CleanStages
<1>3. clean' = [clean EXCEPT ![c] = [clean[c] EXCEPT !.st = st]]
  BY DEF Dlx!Go
<1> QED BY <1>1, <1>2, <1>3

LEMMA CleanReads ==
  ASSUME DlxInv, NEW c \in Cleans, NEW rest \in SUBSET (Runs \cup {"pkg"}),
         LET o == clean[c] IN clean' = [clean EXCEPT ![c] = [o EXCEPT !.rest = rest]]
  PROVE  /\ clean' \in [Cleans -> CleanRecord] /\ \A d \in Cleans \ {c} : clean'[d] = clean[d]
         /\ clean'[c].st = clean[c].st /\ clean'[c].target = clean[c].target /\ clean'[c].rest = rest
         /\ clean'[c].now = clean[c].now /\ clean'[c].kept = clean[c].kept
<1>1. clean \in [Cleans -> CleanRecord] /\ clean[c] \in CleanRecord
  BY DEF DlxInv, DlxTypes
<1>2. LET d == [clean[c] EXCEPT !.rest = rest] IN
        /\ d \in CleanRecord /\ d.st = clean[c].st /\ d.target = clean[c].target /\ d.rest = rest
        /\ d.now = clean[c].now /\ d.kept = clean[c].kept
  BY <1>1 DEF CleanRecord, CleanStages
<1> QED BY <1>1, <1>2

LEMMA ChildrenAreNames == Dlx!Children \in SUBSET (Runs \cup {"pkg"})
  BY DEF Dlx!Children

\* A step of a clean that removes nothing, and what it has removed so far.
LEMMA CleanLooks ==
  ASSUME Dlx!DlxAssumption, DlxInv, NEW c \in Cleans, Dlx!CleanAtWork(c), clean[c].rest = {},
         UNCHANGED <<dirs, link, dlx, clock, kills, crossed, spoiled>>,
         clean' \in [Cleans -> CleanRecord], \A d \in Cleans \ {c} : clean'[d] = clean[d],
         clean'[c].st # "idle", clean'[c].now = clean[c].now,
         clean'[c].st \notin {"removeAll", "removeOrphaned", "removeChildren", "dead"} =>
           clean'[c].rest = {},
         clean'[c].st = "removeChildren" => "pkg" \notin clean'[c].rest,
         c \notin crossed /\ Dlx!CleanAtWork(c)' => CleanGoesOn(c)'
  PROVE  DlxInv'
<1>1. DlxTypes'
  BY DEF DlxInv, DlxTypes, Dlx!DlxTypeOK, CleanRecord
<1>2. RestIsRead'
  BY DEF DlxInv, RestIsRead
<1>3. \A r \in Runs : ~Removes(c, r)
  BY DEF Removes
<1> QED BY <1>1, <1>2, <1>3, CleanMoves

LEMMA CleanGoesOnNow ==
  ASSUME DlxInv, NEW c \in Cleans, Dlx!CleanAtWork(c), c \notin crossed PROVE CleanGoesOn(c)
  BY DEF DlxInv, CleansGoOn

LEMMA StatLinkKeeps ==
  ASSUME Dlx!DlxAssumption, DlxInv, NEW c \in Cleans, Dlx!StatLink(c) PROVE DlxInv'
<1>1. clean[c].st = "stat" /\ UNCHANGED <<dirs, link, dlx, clock, kills, crossed, spoiled>>
  BY DEF Dlx!StatLink
<1>2. PICK st \in {"removeAll", "statOrphans"} :
        /\ Dlx!Go(c, st)
        /\ st = "removeAll" <=> link.to # "none" /\ Dlx!Outdated(link, clean[c].now)
  BY DEF Dlx!StatLink, Dlx!DlxAssumption
<1>3. /\ clean' \in [Cleans -> CleanRecord] /\ \A d \in Cleans \ {c} : clean'[d] = clean[d]
      /\ clean'[c].st = st /\ clean'[c].rest = clean[c].rest
      /\ clean'[c].now = clean[c].now /\ clean'[c].kept = clean[c].kept
  BY <1>2, CleanGoes DEF CleanStages
<1>4. clean[c].rest = {} /\ Dlx!CleanAtWork(c)
  BY <1>1 DEF DlxInv, RestIsRead, Dlx!CleanAtWork
<1>5. c \notin crossed => CleanGoesOn(c)'
  BY <1>1, <1>2, <1>3, <1>4, CleanGoesOnNow DEF CleanGoesOn, Dlx!Outdated
<1> QED BY <1>1, <1>3, <1>4, <1>5, CleanLooks

LEMMA ReadAllKeeps ==
  ASSUME Dlx!DlxAssumption, DlxInv, NEW c \in Cleans, Dlx!ReadAll(c) PROVE DlxInv'
<1>1. /\ clean[c].st \in {"removeAll", "removeOrphaned"} /\ clean[c].rest = {}
      /\ UNCHANGED <<dirs, link, dlx, clock, kills, crossed, spoiled>>
  BY DEF Dlx!ReadAll
<1>2. Dlx!CleanAtWork(c)
  BY <1>1 DEF Dlx!CleanAtWork
<1>3. CASE Dlx!Children # {}
  <2>1. clean' = [clean EXCEPT ![c] = [clean[c] EXCEPT !.rest = Dlx!Children]]
    BY <1>3 DEF Dlx!ReadAll, Dlx!Set
  <2>2. /\ clean' \in [Cleans -> CleanRecord] /\ \A d \in Cleans \ {c} : clean'[d] = clean[d]
        /\ clean'[c].st = clean[c].st /\ clean'[c].now = clean[c].now /\ clean'[c].kept = clean[c].kept
    BY <2>1, CleanReads, ChildrenAreNames
  <2>3. c \notin crossed => CleanGoesOn(c)'
    BY <1>1, <1>2, <2>2, CleanGoesOnNow DEF CleanGoesOn, Dlx!Outdated
  <2> QED BY <1>1, <1>2, <2>2, <2>3, CleanLooks
<1>4. CASE Dlx!Children = {}
  <2>1. Dlx!Go(c, IF clean[c].st = "removeAll" THEN "statOrphans" ELSE "done")
    BY <1>4 DEF Dlx!ReadAll
  <2>2. PICK st \in {"statOrphans", "done"} : Dlx!Go(c, st)
    BY <2>1
  <2>3. /\ clean' \in [Cleans -> CleanRecord] /\ \A d \in Cleans \ {c} : clean'[d] = clean[d]
        /\ clean'[c].st = st /\ clean'[c].rest = {}
        /\ clean'[c].now = clean[c].now /\ clean'[c].kept = clean[c].kept
    BY <1>1, <2>2, CleanGoes DEF CleanStages
  <2>4. link.to = "none"
    BY <1>4 DEF Dlx!Children
  <2>5. c \notin crossed /\ Dlx!CleanAtWork(c)' => CleanGoesOn(c)'
    BY <1>1, <1>2, <2>3, <2>4, CleanGoesOnNow DEF CleanGoesOn, Dlx!Outdated, Dlx!CleanAtWork
  <2> QED BY <1>1, <1>2, <2>3, <2>5, CleanLooks
<1> QED BY <1>3, <1>4

LEMMA StatOrphansKeeps ==
  ASSUME Dlx!DlxAssumption, DlxInv, NEW c \in Cleans, Dlx!StatOrphans(c) PROVE DlxInv'
<1>1. clean[c].st = "statOrphans" /\ UNCHANGED <<dirs, link, dlx, clock, kills, crossed, spoiled>>
  BY DEF Dlx!StatOrphans
<1>2. PICK st \in {"removeOrphaned", "readTarget"} :
        Dlx!Go(c, st) /\ (st = "removeOrphaned" <=> link.to = "none")
  BY DEF Dlx!StatOrphans
<1>3. /\ clean' \in [Cleans -> CleanRecord] /\ \A d \in Cleans \ {c} : clean'[d] = clean[d]
      /\ clean'[c].st = st /\ clean'[c].rest = clean[c].rest
      /\ clean'[c].now = clean[c].now /\ clean'[c].kept = clean[c].kept
  BY <1>2, CleanGoes DEF CleanStages
<1>4. clean[c].rest = {} /\ Dlx!CleanAtWork(c)
  BY <1>1 DEF DlxInv, RestIsRead, Dlx!CleanAtWork
<1>5. c \notin crossed => CleanGoesOn(c)'
  BY <1>1, <1>2, <1>3, <1>4, CleanGoesOnNow DEF CleanGoesOn, Dlx!Outdated
<1> QED BY <1>1, <1>3, <1>4, <1>5, CleanLooks

LEMMA ReadTargetKeeps ==
  ASSUME Dlx!DlxAssumption, DlxInv, NEW c \in Cleans, Dlx!ReadTarget(c) PROVE DlxInv'
<1> DEFINE target == IF link.to # "none" /\ dirs[link.to] # "none" THEN link.to ELSE "none"
<1>1. /\ clean[c].st = "readTarget" /\ UNCHANGED <<dirs, link, dlx, clock, kills, crossed, spoiled>>
      /\ clean' = [clean EXCEPT ![c] = [clean[c] EXCEPT !.st = "readChildren", !.target = target]]
  BY DEF Dlx!ReadTarget, Dlx!Set
<1>2. target \in Runs \cup {"none"} /\ clean[c] \in CleanRecord
  BY DEF DlxInv, DlxTypes, Dlx!DlxTypeOK
<1>3. /\ target \in {link.to, "none"} /\ \A r \in Runs : dirs[r] # "none" /\ r = link.to => r = target
  BY DEF Dlx!DlxAssumption
<1> HIDE DEF target
<1>4. LET d == [clean[c] EXCEPT !.st = "readChildren", !.target = target] IN
        /\ d \in CleanRecord /\ d.st = "readChildren" /\ d.target = target /\ d.rest = clean[c].rest
        /\ d.now = clean[c].now /\ d.kept = clean[c].kept
  BY <1>2 DEF CleanRecord
<1>5. /\ clean' \in [Cleans -> CleanRecord] /\ \A d \in Cleans \ {c} : clean'[d] = clean[d]
      /\ clean'[c].st = "readChildren" /\ clean'[c].target = target /\ clean'[c].rest = clean[c].rest
      /\ clean'[c].now = clean[c].now /\ clean'[c].kept = clean[c].kept
  BY <1>1, <1>4 DEF DlxInv, DlxTypes
<1>6. clean[c].rest = {} /\ Dlx!CleanAtWork(c)
  BY <1>1 DEF DlxInv, RestIsRead, Dlx!CleanAtWork
<1>7. c \notin crossed => CleanGoesOn(c)'
  BY <1>1, <1>3, <1>5, <1>6, CleanGoesOnNow DEF CleanGoesOn, Dlx!Outdated
<1> QED BY <1>1, <1>5, <1>6, <1>7, CleanLooks

LEMMA ReadChildrenKeeps ==
  ASSUME Dlx!DlxAssumption, DlxInv, NEW c \in Cleans, Dlx!ReadChildren(c) PROVE DlxInv'
<1> DEFINE rest == Dlx!Children \ {"pkg", clean[c].target}
<1>1. /\ clean[c].st = "readChildren" /\ UNCHANGED <<dirs, link, dlx, clock, kills, crossed, spoiled>>
      /\ clean' = [clean EXCEPT ![c] = [clean[c] EXCEPT !.st = "removeChildren", !.rest = rest]]
  BY DEF Dlx!ReadChildren, Dlx!Set
<1>2. rest \in SUBSET (Runs \cup {"pkg"}) /\ clean[c] \in CleanRecord
  BY ChildrenAreNames DEF DlxInv, DlxTypes, Dlx!DlxTypeOK
<1>3. /\ "pkg" \notin rest
      /\ \A r \in Runs : r \in rest <=> dirs[r] # "none" /\ r # clean[c].target
      /\ rest \subseteq Runs
  BY DEF Dlx!Children, Dlx!DlxAssumption
<1> HIDE DEF rest
<1>4. LET d == [clean[c] EXCEPT !.st = "removeChildren", !.rest = rest] IN
        /\ d \in CleanRecord /\ d.st = "removeChildren" /\ d.rest = rest
        /\ d.now = clean[c].now /\ d.kept = clean[c].kept
  BY <1>2 DEF CleanRecord
<1>5. /\ clean' \in [Cleans -> CleanRecord] /\ \A d \in Cleans \ {c} : clean'[d] = clean[d]
      /\ clean'[c].st = "removeChildren" /\ clean'[c].rest = rest
      /\ clean'[c].now = clean[c].now /\ clean'[c].kept = clean[c].kept
  BY <1>1, <1>4 DEF DlxInv, DlxTypes
<1>6. clean[c].rest = {} /\ Dlx!CleanAtWork(c)
  BY <1>1 DEF DlxInv, RestIsRead, Dlx!CleanAtWork
<1>7. c \notin crossed => CleanGoesOn(c)'
  <2> SUFFICES ASSUME c \notin crossed PROVE CleanGoesOn(c)'
    OBVIOUS
  <2>1. CleanGoesOn(c)
    BY <1>6, CleanGoesOnNow
  <2>2. link.to \notin rest
    BY <1>1, <1>3, <2>1 DEF CleanGoesOn
  <2>3. \A r \in Runs : dirs[r] # "none" => r = link.to \/ r \in rest
    BY <1>1, <1>3, <2>1 DEF CleanGoesOn, Dlx!DlxAssumption
  <2> QED BY <1>1, <1>5, <2>1, <2>2, <2>3 DEF CleanGoesOn, Dlx!Outdated
<1> QED BY <1>1, <1>3, <1>5, <1>6, <1>7, CleanLooks

LEMMA EndCleanKeeps ==
  ASSUME Dlx!DlxAssumption, DlxInv, NEW c \in Cleans, Dlx!EndClean(c) PROVE DlxInv'
<1>1. /\ clean[c].st = "removeChildren" /\ clean[c].rest = {} /\ Dlx!Go(c, "done")
      /\ UNCHANGED <<dirs, link, dlx, clock, kills, crossed, spoiled>>
  BY DEF Dlx!EndClean
<1>2. /\ clean' \in [Cleans -> CleanRecord] /\ \A d \in Cleans \ {c} : clean'[d] = clean[d]
      /\ clean'[c].st = "done" /\ clean'[c].rest = {} /\ clean'[c].now = clean[c].now
  BY <1>1, CleanGoes DEF CleanStages
<1>3. Dlx!CleanAtWork(c) /\ ~Dlx!CleanAtWork(c)'
  BY <1>1, <1>2 DEF Dlx!CleanAtWork
<1> QED BY <1>1, <1>2, <1>3, CleanLooks

LEMMA RemoveOneKeeps ==
  ASSUME Dlx!DlxAssumption, DlxInv, NEW c \in Cleans, Dlx!RemoveOne(c) PROVE DlxInv'
<1>1. PICK name \in clean[c].rest :
        /\ clean[c].st \in {"removeAll", "removeOrphaned", "removeChildren"}
        /\ IF name = "pkg" THEN link' = Dlx!NoLink /\ UNCHANGED dirs
           ELSE /\ dirs' = [dirs EXCEPT ![name] = IF @ = "whole" THEN "partial" ELSE "none"]
                /\ UNCHANGED link
        /\ clean' = [clean EXCEPT ![c] = [clean[c] EXCEPT
             !.rest = IF name # "pkg" /\ dirs[name] = "whole" THEN @ ELSE @ \ {name}]]
        /\ UNCHANGED <<dlx, clock, kills, crossed, spoiled>>
  BY DEF Dlx!RemoveOne, Dlx!Set
<1> DEFINE rest == IF name # "pkg" /\ dirs[name] = "whole" THEN clean[c].rest ELSE clean[c].rest \ {name}
<1>2. /\ clean[c].rest \in SUBSET (Runs \cup {"pkg"}) /\ clean[c] \in CleanRecord
      /\ dirs \in [Runs -> {"none", "partial", "whole"}] /\ link \in CacheLinks
  BY DEF DlxInv, DlxTypes, Dlx!DlxTypeOK, CleanRecord, CacheLinks
<1>3. rest \in SUBSET (Runs \cup {"pkg"}) /\ rest \subseteq clean[c].rest
  BY <1>2
<1>4. /\ clean' \in [Cleans -> CleanRecord] /\ \A d \in Cleans \ {c} : clean'[d] = clean[d]
      /\ clean'[c].st = clean[c].st /\ clean'[c].target = clean[c].target /\ clean'[c].rest = rest
      /\ clean'[c].now = clean[c].now /\ clean'[c].kept = clean[c].kept
  <2>1. clean' = [clean EXCEPT ![c] = [clean[c] EXCEPT !.rest = rest]]
    BY <1>1, <1>2 DEF CleanRecord
  <2> HIDE DEF rest
  <2> QED BY <1>3, <2>1, CleanReads
<1>5. /\ dirs' \in [Runs -> {"none", "partial", "whole"}] /\ link' \in CacheLinks
      /\ link' \in {link, Dlx!NoLink} /\ (name # "pkg" => link' = link)
      /\ \A r \in Runs : /\ r # name => dirs'[r] = dirs[r] /\ (r \in clean[c].rest => r \in rest)
                         /\ r = name => dirs'[r] = "none" \/ (dirs'[r] = "partial" /\ r \in rest)
                         /\ dirs[r] = "none" => dirs'[r] = "none"
  <2>1. CASE name = "pkg"
    BY <1>1, <1>2, <2>1 DEF Dlx!NoLink, CacheLinks, Dlx!DlxAssumption
  <2>2. CASE name # "pkg"
    <3>1. name \in Runs /\ link' = link /\ dirs' = [dirs EXCEPT ![name] = IF dirs[name] = "whole" THEN "partial" ELSE "none"]
      BY <1>1, <1>2, <2>2
    <3> QED BY <1>1, <1>2, <2>2, <3>1
  <2> QED BY <2>1, <2>2
<1>6. Dlx!CleanAtWork(c) /\ Dlx!CleanAtWork(c)' /\ clean'[c].st # "idle"
  BY <1>1, <1>4 DEF Dlx!CleanAtWork
<1>7. DlxTypes'
  BY <1>1, <1>4, <1>5 DEF DlxInv, DlxTypes, Dlx!DlxTypeOK, CleanRecord, CacheLinks
<1>8. RestIsRead'
  BY <1>1, <1>3, <1>4 DEF DlxInv, RestIsRead
<1>9. ASSUME NEW r \in Runs, dirs'[r] = "partial", dirs[r] # "partial" \/ Removes(c, r)
      PROVE  Removes(c, r)'
  <2>1. r \in rest
    BY <1>5, <1>9 DEF Removes
  <2> QED BY <1>4, <1>6, <2>1 DEF Removes
<1>10. ASSUME c \notin crossed PROVE CleanGoesOn(c)'
  <2>1. CleanGoesOn(c)
    BY <1>6, <1>10, CleanGoesOnNow
  <2>2. CASE name = "pkg"
    <3>1. clean[c].st # "removeChildren" /\ link' = Dlx!NoLink
      BY <1>1, <2>2 DEF DlxInv, RestIsRead
    <3>2. clean[c].kept.to = "none"
      BY <1>1, <2>1, <3>1 DEF CleanGoesOn
    <3> QED BY <1>1, <1>4, <3>1, <3>2 DEF CleanGoesOn, Dlx!NoLink
  <2>3. CASE name # "pkg"
    <3>1. name \in Runs /\ link' = link
      BY <1>2, <1>5, <2>3
    <3>2. clean[c].st = "removeChildren" =>
            /\ link.to \notin rest
            /\ \A r \in Runs : dirs'[r] # "none" => r = link.to \/ r \in rest
      BY <1>3, <1>5, <2>1 DEF CleanGoesOn
    <3>3. clean[c].kept.to # "none" => /\ link = clean[c].kept /\ ~Dlx!Outdated(link, clean[c].now)
                                       /\ ~spoiled => dirs'[link.to] = "whole"
      <4> SUFFICES ASSUME clean[c].kept.to # "none"
                   PROVE  /\ link = clean[c].kept /\ ~Dlx!Outdated(link, clean[c].now)
                          /\ ~spoiled => dirs'[link.to] = "whole"
        OBVIOUS
      <4>1. /\ link = clean[c].kept /\ ~Dlx!Outdated(link, clean[c].now)
            /\ ~spoiled => dirs[link.to] = "whole"
        BY <2>1 DEF CleanGoesOn
      <4>2. clean[c].st = "removeChildren" /\ link.to \in Runs
        BY <1>1, <1>2, <2>1, <4>1 DEF CleanGoesOn, CacheLinks
      <4>3. link.to # name
        BY <2>1, <4>2 DEF CleanGoesOn
      <4> QED BY <1>5, <4>1, <4>2, <4>3
    <3> HIDE DEF rest
    <3> QED BY <1>1, <1>4, <2>1, <3>1, <3>2, <3>3 DEF CleanGoesOn, Dlx!Outdated
  <2> QED BY <2>2, <2>3
<1> QED BY <1>1, <1>4, <1>5, <1>6, <1>7, <1>8, <1>9, <1>10, CleanMoves

LEMMA KillCleanKeeps ==
  ASSUME Dlx!DlxAssumption, DlxInv, NEW c \in Cleans, Dlx!Kill(c) PROVE DlxInv'
<1>1. /\ c \in Dlx!AllAtWork /\ kills < MaxKills /\ kills' = kills + 1 /\ Dlx!Go(c, "dead")
      /\ UNCHANGED <<dirs, link, dlx, clock, crossed>> /\ spoiled' = (spoiled \/ c \in crossed)
      /\ c \notin Runs
  BY DEF Dlx!Kill, Dlx!DlxAssumption
<1>2. /\ clean' \in [Cleans -> CleanRecord] /\ \A d \in Cleans \ {c} : clean'[d] = clean[d]
      /\ clean'[c].st = "dead" /\ clean'[c].now = clean[c].now
  BY <1>1, CleanGoes DEF CleanStages
<1>3. Dlx!CleanAtWork(c) /\ ~Dlx!CleanAtWork(c)' /\ (spoiled => spoiled')
  BY <1>1, <1>2 DEF Dlx!AllAtWork, Dlx!CleanAtWork
<1>4. DlxTypes'
  <2>1. kills' \in 0 .. MaxKills
    BY <1>1 DEF DlxInv, DlxTypes, Dlx!DlxTypeOK, Dlx!DlxAssumption
  <2> QED BY <1>1, <1>2, <2>1 DEF DlxInv, DlxTypes, Dlx!DlxTypeOK, CleanRecord
<1>5. RestIsRead'
  BY <1>1, <1>2 DEF DlxInv, RestIsRead
<1>6. ASSUME ~spoiled', NEW r \in Runs, Removes(c, r),
             dlx[r].st \in {"linking", "replacing"} \/ link.to = r
      PROVE  link.to = r /\ Dlx!Outdated(link, clock)
  <2>1. c \notin crossed /\ r \in clean[c].rest
    BY <1>1, <1>6 DEF Removes
  <2>2. dlx[r].st \notin {"linking", "replacing"}
    BY <1>1, <1>3, <2>1 DEF DlxInv, OthersAreCrossed, Dlx!AllAtWork, Dlx!RunAtWork
  <2>3. link.to = r /\ link.to # "none" /\ CleanGoesOn(c)
    BY <1>3, <1>6, <2>1, <2>2, CleanGoesOnNow DEF Dlx!DlxAssumption
  <2>4. clean[c].st \in {"removeAll", "removeOrphaned", "removeChildren"}
    BY <1>3, <2>1 DEF DlxInv, RestIsRead, Dlx!CleanAtWork
  <2>5. Dlx!Outdated(link, clean[c].now)
    BY <2>1, <2>3, <2>4 DEF CleanGoesOn
  <2>6. /\ clean[c].now <= clock /\ clean[c].now \in Nat /\ clock \in Nat
        /\ link.at \in Nat /\ MaxAge \in Nat
    BY DEF DlxInv, RestIsRead, DlxTypes, Dlx!DlxTypeOK, CleanRecord, Dlx!DlxAssumption
  <2> QED BY <2>3, <2>5, <2>6 DEF Dlx!Outdated
<1> QED BY <1>1, <1>2, <1>3, <1>4, <1>5, <1>6, CleanMoves

-----------------------------------------------------------------------------
LEMMA DlxStarts == ASSUME Dlx!DlxAssumption, Dlx!DlxInit PROVE DlxInv
<1>1. /\ dirs = [r \in Runs |-> "none"] /\ link = Dlx!NoLink /\ dlx = [r \in Runs |-> Dlx!Idle]
      /\ clean = [c \in Cleans |-> Dlx!Resting] /\ clock = 0 /\ kills = 0 /\ crossed = {} /\ spoiled = FALSE
  BY DEF Dlx!DlxInit
<1>2. 0 \in 0 .. MaxTime /\ 0 \in 0 .. MaxKills
  BY DEF Dlx!DlxAssumption
<1>3. /\ Dlx!NoLink \in CacheLinks /\ Dlx!NoLink.to = "none"
      /\ Dlx!Resting \in CleanRecord /\ Dlx!Resting.st = "idle" /\ Dlx!Resting.rest = {} /\ Dlx!Resting.now = 0
      /\ Dlx!Idle \in DlxRecord /\ Dlx!Idle.st = "idle"
  BY <1>2 DEF Dlx!NoLink, CacheLinks, Dlx!Resting, CleanRecord, Dlx!Idle, DlxRecord
<1>4. /\ dlx \in [Runs -> DlxRecord] /\ \A r \in Runs : dlx[r].st = "idle" /\ dirs[r] = "none"
      /\ clean \in [Cleans -> CleanRecord]
      /\ \A c \in Cleans : clean[c].st = "idle" /\ clean[c].rest = {} /\ clean[c].now = 0
  BY <1>1, <1>3
<1>5. DlxTypes
  BY <1>1, <1>2, <1>3, <1>4 DEF DlxTypes, Dlx!DlxTypeOK, DlxRecord, CleanRecord, CacheLinks
<1>6. \A c \in Cleans : ~Dlx!CleanAtWork(c)
  BY <1>4 DEF Dlx!CleanAtWork
<1>7. OthersAreCrossed /\ CleansGoOn
  BY <1>6 DEF OthersAreCrossed, CleansGoOn
<1>8. OwnDirs /\ RestIsRead
  BY <1>1, <1>3, <1>4 DEF OwnDirs, RestIsRead, Dlx!DlxAssumption
<1>9. PartialIsRemoved /\ RunsGoOn
  BY <1>4 DEF PartialIsRemoved, RunsGoOn, RunGoesOn
<1> QED BY <1>5, <1>7, <1>8, <1>9 DEF DlxInv

LEMMA DlxNexts == ASSUME Dlx!DlxAssumption, DlxInv, [Dlx!DlxNext]_Dlx!dlxVars PROVE DlxInv'
<1>1. CASE UNCHANGED Dlx!dlxVars
  BY <1>1 DEF Dlx!dlxVars, DlxInv, DlxTypes, Dlx!DlxTypeOK, OthersAreCrossed, OwnDirs, RestIsRead,
              PartialIsRemoved, Removes, RunsGoOn, RunGoesOn, CleansGoOn, CleanGoesOn, Dlx!AllAtWork,
              Dlx!RunAtWork, Dlx!CleanAtWork, Dlx!Outdated
<1>2. CASE Dlx!Ended
  BY <1>1, <1>2 DEF Dlx!Ended
<1>3. ASSUME NEW r \in Runs,
             \/ Dlx!FindCache(r) \/ Dlx!Add(r) \/ Dlx!SymlinkDir(r) \/ Dlx!ReplaceLink(r)
             \/ Dlx!Execute(r) \/ Dlx!Kill(r)
      PROVE  DlxInv'
  BY <1>3, FindCacheKeeps, AddKeeps, SymlinkDirKeeps, ReplaceLinkKeeps, ExecuteKeeps, KillRunKeeps
<1>4. ASSUME NEW c \in Cleans,
             \/ Dlx!BeginClean(c) \/ Dlx!StatLink(c) \/ Dlx!ReadAll(c) \/ Dlx!RemoveOne(c)
             \/ Dlx!StatOrphans(c) \/ Dlx!ReadTarget(c) \/ Dlx!ReadChildren(c) \/ Dlx!EndClean(c)
             \/ Dlx!Kill(c)
      PROVE  DlxInv'
  BY <1>4, BeginCleanKeeps, StatLinkKeeps, ReadAllKeeps, RemoveOneKeeps, StatOrphansKeeps,
     ReadTargetKeeps, ReadChildrenKeeps, EndCleanKeeps, KillCleanKeeps
<1> QED BY <1>1, <1>2, <1>3, <1>4, TickKeeps DEF Dlx!DlxNext

LEMMA DlxInvariant == ASSUME Dlx!DlxAssumption PROVE Dlx!DlxSpec => []DlxInv
BY DlxStarts, DlxNexts, PTL DEF Dlx!DlxSpec

\* Directories, the link and the stages of all processes keep their types.
THEOREM DlxTypeCorrect == ASSUME Dlx!DlxAssumption PROVE Dlx!DlxSpec => []Dlx!DlxTypeOK
<1>1. DlxInv => Dlx!DlxTypeOK
  BY DEF DlxInv, DlxTypes
<1> QED BY <1>1, DlxInvariant, PTL

\* A command that no clean crossed runs from a whole installation and does not
\* fail, however many processes install the same and whoever was killed, unless
\* an earlier clean spoiled what was there.
THEOREM DlxRunsAreWhole == ASSUME Dlx!DlxAssumption PROVE Dlx!DlxSpec => []Dlx!RunsAreWhole
<1>1. DlxInv => Dlx!RunsAreWhole
  BY DEF DlxInv, RunsGoOn, RunGoesOn, Dlx!RunsAreWhole
<1> QED BY <1>1, DlxInvariant, PTL

\* A clean that was alone keeps the installation that pnpm dlx would still use,
\* removes an outdated one, and leaves no directory of which nothing is linked.
THEOREM DlxCleansExactly == ASSUME Dlx!DlxAssumption PROVE Dlx!DlxSpec => []Dlx!CleanedIsExact
<1>1. DlxInv => Dlx!CleanedIsExact
  <2> SUFFICES ASSUME DlxInv, NEW c \in Cleans \ crossed, ~spoiled
               PROVE  /\ Dlx!CleanAtWork(c) /\ clean[c].kept.to # "none" =>
                           link = clean[c].kept /\ dirs[link.to] = "whole"
                      /\ clean[c].st = "removeChildren" /\ clean[c].rest = {} =>
                           /\ link.to # "none" => ~Dlx!Outdated(link, clean[c].now)
                           /\ \A r \in Runs : dirs[r] # "none" => r = link.to
    BY DEF Dlx!CleanedIsExact
  <2>1. clean[c].st = "removeChildren" => Dlx!CleanAtWork(c)
    BY DEF Dlx!CleanAtWork
  <2>2. Dlx!CleanAtWork(c) => CleanGoesOn(c)
    BY DEF DlxInv, CleansGoOn
  <2> QED BY <2>1, <2>2 DEF CleanGoesOn
<1> QED BY <1>1, DlxInvariant, PTL

-----------------------------------------------------------------------------
\* The properties of the composed model

\* A behaviour about the store server is one of its model; so are those about
\* the others of theirs.
LEMMA DownloadAlone == Spec => []~About("download") \/ Dl!SafetySpec
<1>1. Init /\ About("download") => Dl!Init
  BY DEF Init, About
<1>2. About("download") /\ [Next]_vars => About("download")' /\ [Dl!Next]_Dl!dlVars
  BY SubjectStays DEF Next, vars, dlVars, Dl!dlVars, About
<1>3. ~About("download") /\ [Next]_vars => ~About("download")'
  BY SubjectStays DEF About
<1> QED BY <1>1, <1>2, <1>3, PTL DEF Spec, Dl!SafetySpec

LEMMA ServerAlone == Spec => []~About("server") \/ Srv!SafetySpec
<1>1. Init /\ About("server") => Srv!Init
  BY DEF Init, About
<1>2. About("server") /\ [Next]_vars => About("server")' /\ [Srv!Next]_Srv!serverVars
  BY SubjectStays DEF Next, vars, serverVars, Srv!serverVars, About
<1>3. ~About("server") /\ [Next]_vars => ~About("server")'
  BY SubjectStays DEF About
<1> QED BY <1>1, <1>2, <1>3, PTL DEF Spec, Srv!SafetySpec

LEMMA RequestsAlone == Spec => []~About("requests") \/ Req!SafetySpec
<1>1. Init /\ About("requests") => Req!Init
  BY DEF Init, About
<1>2. About("requests") /\ [Next]_vars => About("requests")' /\ [Req!Next]_(Req!reqVars)
  BY SubjectStays DEF Next, vars, reqVars, Req!reqVars, About
<1>3. ~About("requests") /\ [Next]_vars => ~About("requests")'
  BY SubjectStays DEF About
<1> QED BY <1>1, <1>2, <1>3, PTL DEF Spec, Req!SafetySpec

LEMMA GitAlone == Spec => []~About("git") \/ Git!SafetySpec
<1>1. Init /\ About("git") => Git!Init
  BY DEF Init, About
<1>2. About("git") /\ [Next]_vars => About("git")' /\ [Git!Next]_(Git!gitVars)
  BY SubjectStays DEF Next, vars, gitVars, Git!gitVars, About
<1>3. ~About("git") /\ [Next]_vars => ~About("git")'
  BY SubjectStays DEF About
<1> QED BY <1>1, <1>2, <1>3, PTL DEF Spec, Git!SafetySpec

LEMMA MetaAlone == Spec => []~About("meta") \/ Meta!SafetySpec
<1>1. Init /\ About("meta") => Meta!Init
  BY DEF Init, About
<1>2. About("meta") /\ [Next]_vars => About("meta")' /\ [Meta!Next]_(Meta!metaVars)
  BY SubjectStays DEF Next, vars, metaVars, Meta!metaVars, About
<1>3. ~About("meta") /\ [Next]_vars => ~About("meta")'
  BY SubjectStays DEF About
<1> QED BY <1>1, <1>2, <1>3, PTL DEF Spec, Meta!SafetySpec

LEMMA ImportAlone == Spec => []~About("import") \/ Imp!SafetySpec
<1>1. Init /\ About("import") => Imp!Init
  BY DEF Init, About
<1>2. About("import") /\ [Next]_vars => About("import")' /\ [Imp!Next]_Imp!impVars
  BY SubjectStays DEF Next, vars, impVars, Imp!impVars, About
<1>3. ~About("import") /\ [Next]_vars => ~About("import")'
  BY SubjectStays DEF About
<1> QED BY <1>1, <1>2, <1>3, PTL DEF Spec, Imp!SafetySpec

LEMMA EffectsAlone == Spec => []~About("effects") \/ Fx!SafetySpec
<1>1. Init /\ About("effects") => Fx!Init
  BY DEF Init, About
<1>2. About("effects") /\ [Next]_vars => About("effects")' /\ [Fx!Next]_Fx!fxVars
  BY SubjectStays DEF Next, vars, fxVars, Fx!fxVars, About
<1>3. ~About("effects") /\ [Next]_vars => ~About("effects")'
  BY SubjectStays DEF About
<1> QED BY <1>1, <1>2, <1>3, PTL DEF Spec, Fx!SafetySpec

LEMMA SyncAlone == Spec => []~About("sync") \/ Patch!Spec
<1>1. Init /\ About("sync") => Patch!Init
  BY DEF Init, About
<1>2. About("sync") /\ [Next]_vars => About("sync")' /\ [Patch!Next]_(Patch!patchVars)
  BY SubjectStays DEF Next, vars, syncVars, Patch!patchVars, About
<1>3. ~About("sync") /\ [Next]_vars => ~About("sync")'
  BY SubjectStays DEF About
<1> QED BY <1>1, <1>2, <1>3, PTL DEF Spec, Patch!Spec

LEMMA PruneAlone == Spec => []~About("prune") \/ Prn!Spec
<1>1. Init /\ About("prune") => Prn!Init
  BY DEF Init, About
<1>2. About("prune") /\ [Next]_vars => About("prune")' /\ [Prn!Next]_Prn!pruneVars
  BY SubjectStays DEF Next, vars, pruneVars, Prn!pruneVars, About
<1>3. ~About("prune") /\ [Next]_vars => ~About("prune")'
  BY SubjectStays DEF About
<1> QED BY <1>1, <1>2, <1>3, PTL DEF Spec, Prn!Spec

LEMMA DlxAlone == Spec => []~About("dlx") \/ Dlx!DlxSpec
<1>1. Init /\ About("dlx") => Dlx!DlxInit
  BY DEF Init, About
<1>2. About("dlx") /\ [Next]_vars => About("dlx")' /\ [Dlx!DlxNext]_Dlx!dlxVars
  BY SubjectStays DEF Next, vars, dlxVars, Dlx!dlxVars, About
<1>3. ~About("dlx") /\ [Next]_vars => ~About("dlx")'
  BY SubjectStays DEF About
<1> QED BY <1>1, <1>2, <1>3, PTL DEF Spec, Dlx!DlxSpec

LEMMA WorkspaceAlone == Spec => []~About("workspace") \/ Wsp!Spec
<1>1. Init /\ About("workspace") => Wsp!Init
  BY DEF Init, About
<1>2. About("workspace") /\ [Next]_vars => About("workspace")' /\ [Wsp!Next]_Wsp!workspaceVars
  BY SubjectStays DEF Next, vars, wsVars, Wsp!workspaceVars, About
<1>3. ~About("workspace") /\ [Next]_vars => ~About("workspace")'
  BY SubjectStays DEF About
<1> QED BY <1>1, <1>2, <1>3, PTL DEF Spec, Wsp!Spec

\* The store server and what is asked of it, for all servers, clients and
\* requests: one server at a time unless a client took its file away, clients
\* that connect to one that listens, answers for files that were fetched.
THEOREM ServersAreSound == Spec => []ServerIsSound
<1>1. Srv!ServerAssumption /\ Req!RequestsAssumption
  BY ComponentsAssumption
<1>2. /\ About("server") => Srv!OneServer /\ Srv!ConnectedAfterListening /\ Srv!StoppedForGood
      /\ About("requests") => Req!AnsweredFilesAreFetched /\ Req!DeliveredPromisesAreDropped
      => ServerIsSound
  BY DEF ServerIsSound, About
<1> QED
  BY <1>1, <1>2, ServerAlone, RequestsAlone, OneServerAtATime, ConnectsAfterListening, StopsForGood,
     AnswersAreTrue, PromisesAreDropped, PTL

\* What is fetched, for all answers of the registries and all orders of the
\* requests: credentials stay where they belong, only verified content is stored,
\* the index of a git-hosted package is true, and the metadata of a package
\* has the versions that were published.
THEOREM FetchesAreSound == Spec => []FetchedIsSound
<1>1. Dl!FetchingAssumption /\ Meta!MetaAssumption
  BY ComponentsAssumption
<1>2. /\ About("download") => /\ Dl!AuthStaysAtTheRegistry /\ Dl!RequestsAreBounded
                             /\ Dl!TransientErrorsAreSurvived /\ Dl!StoredIsVerified
      /\ About("git") => Git!IndexesAreTrue /\ Git!GotWhatWasAsked
      /\ About("meta") =>
           Meta!PublishedIsFound /\ Meta!MirrorFollowsMemory /\ Meta!LimiterOutlivesItsQueue
      => FetchedIsSound
  BY DEF FetchedIsSound, About
<1> QED
  BY <1>1, <1>2, DownloadAlone, GitAlone, MetaAlone, AuthStays, RequestsBounded,
     TransientErrorsSurvived, StoredVerified, IndexesStayTrue, InstallsGetWhatTheyAsk,
     PublishedVersionsAreFound, MirrorIsMemory, LimiterOutlives, PTL

\* What is imported, for all packages and through faults and crashes: a place is
\* whole and the wanted one, entries of side effects are true and lost only to
\* an overlapping upload, and a patched copy is what the package is.
THEOREM ImportsAreSound == Spec => []ImportedIsSound
<1>1. Imp!ImporterAssumption /\ Fx!SideEffectsAssumption /\ Patch!DirPatcherAssumption
  BY ComponentsAssumption
<1>2. /\ About("import") => Imp!PlaceIsWhole /\ Imp!ImportedIsWanted /\ Imp!NestedModulesSurvive
      /\ About("effects") => Fx!EntriesAreTrue /\ Fx!ImportedIsWhole /\ Fx!LostByOverlapOnly
      /\ About("sync") => Patch!SyncedIsSource /\ Patch!SameKindsSucceed /\ Patch!NextOneSucceeds
      => ImportedIsSound
  BY DEF ImportedIsSound, About
<1> QED
  BY <1>1, <1>2, ImportAlone, EffectsAlone, SyncAlone, PlacesAreWhole, ImportsAreWanted, ModulesSurvive,
     EntriesStayTrue, ImportsAreWhole, OverlapsAloneLose, SyncsToSource, SameKindsPatch, NextOnesPatch,
     PTL

\* Prunes of the store and of the cache of pnpm dlx beside installs, runs and each
\* other, killed at any moment: what is linked is kept, no index is left
\* without its package.json, later ones do not fail for what earlier ones left;
\* runs start from whole directories, and what is used is not cleaned.
THEOREM PrunesAreSound == Spec => []PruneIsSound
<1>1. Prn!PruneAssumption /\ Dlx!DlxAssumption
  BY ComponentsAssumption
<1>2. /\ About("prune") => /\ Prn!InstallAloneSucceeds /\ Prn!LinkedFilesAreKept
                          /\ Prn!IndexesHaveManifests /\ Prn!PruneAloneSucceeds
      /\ About("dlx") => Dlx!RunsAreWhole /\ Dlx!CleanedIsExact
      => PruneIsSound
  BY DEF PruneIsSound, About
<1> QED
  BY <1>1, <1>2, PruneAlone, DlxAlone, InstallsSucceed, LinkedFilesStay, ManifestsAreThere,
     PrunesSucceed, DlxRunsAreWhole, DlxCleansExactly, PTL

\* Commands in a workspace: what was selected is installed, also when others
\* fail, what was installed is not harmed by what is done to others, and what
\* is found up to date is what the manifests say and can be used.
THEOREM WorkspacesAreSound == Spec => []WorkspaceIsSound
<1>1. Wsp!WorkspaceAssumption
  BY ComponentsAssumption
<1>2. (About("workspace") => /\ Wsp!WorkspaceIsInstalled /\ Wsp!SettledStay /\ Wsp!OthersAreInstalled
                             /\ Wsp!WorkspaceIsUpToDate /\ Wsp!VerifiedIsUsable)
      => WorkspaceIsSound
  BY DEF WorkspaceIsSound, About
<1> DEFINE Stands == Wsp!WorkspaceIsInstalled /\ Wsp!SettledStay /\ Wsp!OthersAreInstalled
<1>3. Wsp!Spec => []Stands
  BY <1>1, WorkspacesAreInstalled, SettledOnesStay, OthersGetInstalled, PTL
<1>4. (About("workspace") => Stands /\ Wsp!WorkspaceIsUpToDate /\ Wsp!VerifiedIsUsable) => WorkspaceIsSound
  BY <1>2
<1> HIDE DEF Stands
<1> QED BY <1>1, <1>3, <1>4, WorkspaceAlone, WorkspaceIsRightUpToDate, VerifiedOnesAreUsable, PTL

\* Whatever a behaviour is about, its variables keep their types.
THEOREM TypesAreRight == Spec => []TypeOK
<1>1. /\ Run!RunAssumption /\ Srv!ServerAssumption /\ Req!RequestsAssumption /\ Dl!FetchingAssumption
      /\ Imp!ImporterAssumption /\ Fx!SideEffectsAssumption /\ Git!GitAssumption
  BY ComponentsAssumption
<1>2. /\ Meta!MetaAssumption /\ Ins!InstallAssumption /\ Patch!DirPatcherAssumption /\ Prn!PruneAssumption
      /\ Tre!TreeAssumption /\ Dlx!DlxAssumption /\ Wsp!WorkspaceAssumption /\ Reb!RebuildAssumption
  BY ComponentsAssumption
<1>3. RequestsInv => Req!RequestsTypeOK
  BY DEF RequestsInv
<1>4. ImporterInv => Imp!ImporterTypeOK
  BY DEF ImporterInv
<1> DEFINE AloneTypes == /\ About("run") => Run!RunTypeOK
                         /\ About("server") => Srv!ServerTypeOK
                         /\ About("requests") => Req!RequestsTypeOK
                         /\ About("download") => Dl!FetchingTypeOK
                         /\ About("import") => Imp!ImporterTypeOK
           FoldersTypes == /\ About("effects") => Fx!SideEffectsTypeOK
                           /\ About("git") => Git!GitTypeOK
                           /\ About("meta") => Meta!MetaTypeOK
                           /\ About("install") => Ins!InstallTypeOK
                           /\ About("sync") => Patch!PatchTypeOK
           SettledTypes == /\ About("prune") => Prn!PruneTypeOK
                           /\ About("tree") => Tre!TreeTypeOK
                           /\ About("dlx") => Dlx!DlxTypeOK
                           /\ About("workspace") => Wsp!WorkspaceTypeOK
                           /\ About("rebuild") => Reb!RebuildTypeOK
<1>5. AloneTypes /\ FoldersTypes /\ SettledTypes => TypeOK
  BY DEF TypeOK, About
<1>6. Spec => []AloneTypes
  BY <1>1, <1>3, <1>4, RunAlone, ServerAlone, RequestsAlone, DownloadAlone, ImportAlone, RunTypeCorrect,
     ServerTypeCorrect, RequestsInvariant, FetchingTypeCorrect, ImporterInvariant, PTL
<1>7. Spec => []FoldersTypes
  BY <1>1, <1>2, EffectsAlone, GitAlone, MetaAlone, InstallAlone, SyncAlone, SideEffectsTypeCorrect, GitTypeCorrect,
     MetaTypeCorrect, InstallTypeCorrect, PatchTypeCorrect, PTL
<1>8. Spec => []SettledTypes
  BY <1>2, PruneAlone, TreeAlone, DlxAlone, WorkspaceAlone, RebuildAlone, PruneTypeCorrect, TreeTypeCorrect,
     DlxTypeCorrect, WorkspaceTypeCorrect, RebuildTypeCorrect, PTL
<1> HIDE DEF AloneTypes, FoldersTypes, SettledTypes
<1> QED
  BY <1>5, <1>6, <1>7, <1>8, PTL
=============================================================================
