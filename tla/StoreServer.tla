---------------------------- MODULE StoreServer ----------------------------
\* The store server's life cycle around server.json: `pnpm server start`
\* (store/plugin-commands-server/src/start.ts), `pnpm server stop` (stop.ts)
\* and the installs that look for a server or start one
\* (store/store-connection-manager/src/index.ts).
EXTENDS Naturals, FiniteSets

CONSTANTS
  Servers,     \* processes of `server start`
  Clients,     \* installs and `server stop`
  Kind,        \* client -> "plain", "running", "use" or "stop"
  Spawned,     \* client of kind "use" -> the server it starts in the background
  MaxCrashes,  \* servers killed without their exit handler
  NoFile       \* server.json does not exist

ServerAssumption ==
  /\ IsFiniteSet(Servers)
  /\ Kind \in [Clients -> {"plain", "running", "use", "stop"}]
  /\ \A c \in Clients : Kind[c] = "use" => Spawned[c] \in Servers
  /\ MaxCrashes \in Nat
  /\ NoFile \notin Servers /\ NoFile \notin [owner : Servers, full : BOOLEAN]

VARIABLES
  server,    \* where each server is
  json,      \* server.json: the server that created it and whether it is written
  client,    \* where each client is
  started,   \* the client has started a server
  found,     \* the server whose server.json the client read
  removals,  \* server.json files that clients removed after their timeout
  crashes

serverVars == <<server, json, client, started, found, removals, crashes>>

Exists == {"opened", "listening", "ready", "closing", "signalled"}
Done == {"connected", "direct", "failed", "nothing", "stopped"}

ServerTypeOK ==
  /\ server \in [Servers -> {"off", "refused", "gone"} \cup Exists]
  /\ json \in [owner : Servers, full : BOOLEAN] \cup {NoFile}
  /\ client \in [Clients -> {"off", "looking", "timedOut", "asking", "stopping"} \cup Done]
  /\ started \in [Clients -> BOOLEAN]
  /\ found \in [Clients -> Servers \cup {NoFile}]
  /\ removals \in 0..Cardinality(Servers)
  /\ crashes \in 0..MaxCrashes

Init ==
  /\ server = [s \in Servers |-> "off"]
  /\ json = NoFile
  /\ client = [c \in Clients |-> "off"]
  /\ started = [c \in Clients |-> FALSE]
  /\ found = [c \in Clients |-> NoFile]
  /\ removals = 0 /\ crashes = 0

-----------------------------------------------------------------------------
\* start.ts

\* Mutant of OpenJson: the file is opened without exclusive access.
OpenShared(s) ==
  /\ json' = [owner |-> s, full |-> FALSE]
  /\ server' = [server EXCEPT ![s] = "opened"]

\* open(server.json, 'wx')
OpenJson(s) ==
  \/ /\ json = NoFile
     /\ json' = [owner |-> s, full |-> FALSE]
     /\ server' = [server EXCEPT ![s] = "opened"]
  \/ /\ json # NoFile
     /\ server' = [server EXCEPT ![s] = "refused"]
     /\ UNCHANGED json

IsSpawned(s) == \E c \in Clients : Kind[c] = "use" /\ Spawned[c] = s

StartServer(s) ==
  /\ server[s] = "off" /\ ~IsSpawned(s)
  /\ OpenJson(s)
  /\ UNCHANGED <<client, started, found, removals, crashes>>

\* A server that a client started in the background comes up some time later.
StartInBackground(c) ==
  /\ Kind[c] = "use" /\ started[c] /\ server[Spawned[c]] = "off"
  /\ OpenJson(Spawned[c])
  /\ UNCHANGED <<client, started, found, removals, crashes>>

Listen(s) ==
  /\ server[s] = "opened"
  /\ server' = [server EXCEPT ![s] = "listening"]
  /\ UNCHANGED <<json, client, started, found, removals, crashes>>

\* Mutant of Publish: server.json is written before the server listens.
PublishEarly(s) ==
  /\ server[s] \in {"opened", "listening"}
  /\ server' = [server EXCEPT ![s] = IF @ = "listening" THEN "ready" ELSE @]
  /\ json' = IF json # NoFile /\ json.owner = s THEN [json EXCEPT !.full = TRUE] ELSE json
  /\ UNCHANGED <<client, started, found, removals, crashes>>

\* The write goes to the file the server created: to the one at the path only
\* if nobody has removed it since.
Publish(s) ==
  /\ server[s] = "listening"
  /\ server' = [server EXCEPT ![s] = "ready"]
  /\ json' = IF json # NoFile /\ json.owner = s THEN [json EXCEPT !.full = TRUE] ELSE json
  /\ UNCHANGED <<client, started, found, removals, crashes>>

\* The process exits, at a signal or after close(): its exit handler removes
\* whatever server.json is at the path.
ExitServer(s) ==
  /\ server[s] \in Exists
  /\ server' = [server EXCEPT ![s] = "gone"]
  /\ json' = NoFile
  /\ UNCHANGED <<client, started, found, removals, crashes>>

\* SIGKILL or a power cut: no handler runs.
CrashServer(s) ==
  /\ server[s] \in Exists /\ crashes < MaxCrashes
  /\ server' = [server EXCEPT ![s] = "gone"]
  /\ crashes' = crashes + 1
  /\ UNCHANGED <<json, client, started, found, removals>>

-----------------------------------------------------------------------------
\* tryLoadServerJson and its callers

Arrive(c) ==
  /\ client[c] = "off"
  /\ client' = [client EXCEPT ![c] = "looking"]
  /\ UNCHANGED <<server, json, started, found, removals, crashes>>

\* tryLoadServerJson gave null: `stop` has nothing to do,
\* --use-running-store-server is an error, --use-store-server starts a server
\* and looks again (a second null throws: connectionOptions of null), the
\* others use the store themselves.
NoServer(c) ==
  /\ started' = [started EXCEPT ![c] = Kind[c] = "use"]
  /\ client' = [client EXCEPT ![c] =
       CASE Kind[c] = "stop" -> "nothing"
         [] Kind[c] = "plain" -> "direct"
         [] Kind[c] = "use" /\ ~started[c] -> "looking"
         [] OTHER -> "failed"]

\* ENOENT: only a client that has started a server polls on.
ReadNothing(c) ==
  /\ client[c] = "looking" /\ json = NoFile /\ ~started[c]
  /\ NoServer(c)
  /\ UNCHANGED <<server, json, found, removals, crashes>>

\* Valid JSON: the client connects to the server that wrote it.  An empty
\* file is polled again, which changes nothing.
ReadServer(c) ==
  /\ client[c] = "looking" /\ json # NoFile /\ json.full
  /\ found' = [found EXCEPT ![c] = json.owner]
  /\ client' = [client EXCEPT ![c] = IF Kind[c] = "stop" THEN "asking" ELSE "connected"]
  /\ UNCHANGED <<server, json, started, removals, crashes>>

\* Mutant of PollTimesOut: the time is looked at when the file was read only.
PollTimesOutOnJson(c) ==
  /\ client[c] = "looking" /\ json # NoFile /\ ~json.full
  /\ client' = [client EXCEPT ![c] = "timedOut"]
  /\ UNCHANGED <<server, json, started, found, removals, crashes>>

\* After ten seconds without valid JSON the client gives up ...
PollTimesOut(c) ==
  /\ client[c] = "looking"
  /\ IF json = NoFile THEN started[c] ELSE ~json.full
  /\ client' = [client EXCEPT ![c] = "timedOut"]
  /\ UNCHANGED <<server, json, started, found, removals, crashes>>

\* ... and removes the file, whatever it is by now.
RemoveJson(c) ==
  /\ client[c] = "timedOut"
  /\ removals' = IF json = NoFile THEN removals ELSE removals + 1
  /\ json' = NoFile
  /\ NoServer(c)
  /\ UNCHANGED <<server, found, crashes>>

-----------------------------------------------------------------------------
\* stop.ts

\* /stop is answered after close(); a server that ignores it (403 without a
\* body) or is not there fails the command.
AskToStop(c) ==
  LET s == found[c] IN
  /\ client[c] = "asking"
  /\ \/ /\ server[s] = "ready"
        /\ server' = [server EXCEPT ![s] = "closing"]
        /\ client' = [client EXCEPT ![c] = "stopping"]
     \/ /\ client' = [client EXCEPT ![c] = "failed"]
        /\ UNCHANGED server
  /\ UNCHANGED <<json, started, found, removals, crashes>>

\* Mutant of AwaitStop: a server that outlives the delay is let go.
AwaitStopOnly(c) ==
  /\ client[c] = "stopping"
  /\ client' = [client EXCEPT ![c] = "stopped"]
  /\ UNCHANGED <<server, json, started, found, removals, crashes>>

\* serverGracefullyStops, or five seconds later a SIGINT.
AwaitStop(c) ==
  LET s == found[c] IN
  /\ client[c] = "stopping"
  /\ server' = IF server[s] = "closing" THEN [server EXCEPT ![s] = "signalled"] ELSE server
  /\ client' = [client EXCEPT ![c] = "stopped"]
  /\ UNCHANGED <<json, started, found, removals, crashes>>

-----------------------------------------------------------------------------
ServerStep(s) == Listen(s) \/ Publish(s) \/ (server[s] = "signalled" /\ ExitServer(s))
ClientStep(c) == \/ StartInBackground(c) \/ ReadNothing(c) \/ ReadServer(c)
                 \/ PollTimesOut(c) \/ RemoveJson(c) \/ AskToStop(c) \/ AwaitStop(c)
Step == (\E s \in Servers : ServerStep(s)) \/ (\E c \in Clients : ClientStep(c))

\* Nothing is under way: servers serve or are gone, clients are done.
Quiet ==
  /\ \A s \in Servers : server[s] \notin {"opened", "listening", "signalled"}
  /\ \A c \in Clients : client[c] \in Done \cup {"off"}
  /\ UNCHANGED serverVars

Next ==
  \/ Step \/ Quiet
  \/ \E s \in Servers : StartServer(s) \/ ExitServer(s) \/ CrashServer(s)
  \/ \E c \in Clients : Arrive(c)

\* Processes that run go on; nobody must start, stop or come.
SafetySpec == Init /\ [][Next]_serverVars
Spec == SafetySpec /\ WF_serverVars(Step)

-----------------------------------------------------------------------------
\* Properties

\* As long as no client has removed a server.json after its timeout, one
\* server at most runs for a store: exclusive creation, and an exit handler
\* that removes the file by its path, keep it so through any order of starts,
\* exits and crashes.
OneServer == removals = 0 => Cardinality({s \in Servers : server[s] \in Exists}) <= 1

\* A client connects to a server only after it listens, never to one that is
\* about to: what the comment at start.ts:105 promises.
ConnectedAfterListening ==
  \A c \in Clients : found[c] # NoFile =>
    server[found[c]] \notin {"off", "refused", "opened", "listening"}

\* When `server stop` says so, the server is on its way out and no client
\* will be sent to it again once it has gone.
StoppedForGood ==
  \A c \in Clients : client[c] = "stopped" =>
    /\ server[found[c]] \in {"signalled", "gone"}
    /\ (server[found[c]] = "gone" /\ crashes = 0) => (json = NoFile \/ json.owner # found[c])

\* A client never waits for ever: not for a server that died before it wrote
\* server.json, nor for one that could not start.
ClientsEnded == \A c \in Clients : client[c] \in Done \cup {"off"}
=============================================================================
