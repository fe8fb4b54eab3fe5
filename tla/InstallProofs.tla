---------------------------- MODULE InstallProofs ---------------------------
(***************************************************************************)
(* Proofs about what an install does, from the requests to the modules.    *)
(* Fetching, for any numbers of retries and redirects and any hosts: where *)
(* the credentials go, how many requests are sent, which errors are        *)
(* survived, and what is stored.  Importer, for any files, nested          *)
(* directories and number of faults: a package directory is whole or       *)
(* absent at every moment, an import that is done left what was wanted,    *)
(* and nested modules survive.  DirPatcher, for any trees: a copy of an    *)
(* injected package becomes what the package is, in whatever order the     *)
(* parts of a patch are done.  Git-hosted packages (GitHosted), the        *)
(* metadata cache of the npm resolver (MetaCache) and the results of       *)
(* builds that are kept in the store (SideEffects), for any number of      *)
(* requests, faults and uploads.  ResolveTree, for any packages, projects and *)
(* sources: the states of a resolution are what they should be, and        *)
(* whatever order the answers come in, the tree that comes out is whole.   *)
(* Install, for any lockfiles, edits and failures: what an install leaves, *)
(* and when the next one may be skipped.                                   *)
(***************************************************************************)
EXTENDS Components, FiniteSetTheorems, SequenceTheorems, WellFoundedInduction, TLAPS

-----------------------------------------------------------------------------
\* A request is under way, or its answer is.
Active == {"sending", "answered", "extracting"}

PerAttempt == MaxRedirects + 1

\* Each attempt sends at most one request and one more for each redirect.
RequestsAreCounted ==
  /\ requests \in Nat
  /\ redirects <= MaxRedirects
  /\ requests + (IF dl = "sending" THEN 1 ELSE 0) <= (attempt - 1) * PerAttempt + redirects + 1

\* Every attempt but the current one ended with an error worth a retry.
ErrorsAreCounted ==
  /\ dl \in Active \cup {"stored", "crashed"} => transient = attempt - 1
  /\ dl = "retrying" => transient = attempt /\ attempt <= Retries
  /\ dl = "failed" => transient = attempt - 1 \/ attempt = Retries + 1

FetchingInv ==
  /\ dl \in Active \cup {"retrying"} \cup Dl!Over
  /\ attempt \in 1..(Retries + 1) /\ inner = 1
  /\ redirects \in Nat /\ transient \in Nat
  /\ auth => host = "registry"
  /\ ~leaked
  /\ RequestsAreCounted
  /\ ErrorsAreCounted
  /\ Dl!StoredIsVerified

LEMMA FetchingStarts == ASSUME Dl!FetchingAssumption, Dl!Init PROVE FetchingInv
<1> USE DEF Dl!Init, Dl!FetchingAssumption, Active, Dl!Over, RequestsAreCounted, ErrorsAreCounted, PerAttempt
<1>1. requests + 1 <= (attempt - 1) * PerAttempt + redirects + 1
  OBVIOUS
<1>2. RequestsAreCounted /\ ErrorsAreCounted
  BY <1>1
<1> QED BY <1>2 DEF FetchingInv, Dl!StoredIsVerified

\* An attempt that fails is the last one, or another follows.
LEMMA AttemptFailsKeeps ==
  ASSUME Dl!FetchingAssumption, FetchingInv, dl \in {"answered", "extracting"}, Dl!AttemptFails,
         requests' = requests
  PROVE  FetchingInv'
<1> USE DEF FetchingInv, Dl!AttemptFails, Dl!FetchingAssumption, Active, Dl!Over
<1>1. attempt' = attempt /\ transient' = transient + 1 /\ redirects' = redirects
  OBVIOUS
<1>2. dl' \in {"retrying", "failed"}
  OBVIOUS
<1>3. RequestsAreCounted'
  BY <1>1, <1>2 DEF RequestsAreCounted, PerAttempt
<1>4. ErrorsAreCounted'
  BY <1>1, <1>2 DEF ErrorsAreCounted
<1>5. (auth => host = "registry")' /\ ~leaked' /\ Dl!StoredIsVerified'
  BY <1>2 DEF Dl!StoredIsVerified
<1> QED BY <1>1, <1>2, <1>3, <1>4, <1>5

LEMMA FetchingStepKeeps ==
  ASSUME Dl!FetchingAssumption, FetchingInv, [Dl!Next]_Dl!dlVars
  PROVE  FetchingInv'
<1> USE Dl!FetchingAssumption, FetchingInv
<1>1. CASE Dl!Send
  <2>1. dl = "sending" /\ dl' = "answered" /\ requests' = requests + 1
    BY <1>1 DEF Dl!Send
  <2>2. attempt' = attempt /\ redirects' = redirects /\ transient' = transient
    BY <1>1 DEF Dl!Send
  <2>3. ~leaked' /\ (auth => host = "registry")' /\ inner' = 1
    BY <1>1 DEF Dl!Send, FetchingInv
  <2>4. RequestsAreCounted' /\ ErrorsAreCounted' /\ Dl!StoredIsVerified'
    BY <2>1, <2>2 DEF FetchingInv, Dl!FetchingAssumption, Active, RequestsAreCounted, ErrorsAreCounted, Dl!StoredIsVerified, PerAttempt
  <2> QED BY <2>1, <2>2, <2>3, <2>4 DEF FetchingInv, Active
<1>2. CASE Dl!RequestFails
  <2>1. inner > Dl!InnerRetries /\ Dl!AttemptFails
    BY <1>2 DEF Dl!RequestFails, FetchingInv, Dl!InnerRetries
  <2> QED BY <1>2, <2>1, AttemptFailsKeeps DEF Dl!RequestFails
<1>3. CASE Dl!CertificateFails
  BY <1>3 DEF Dl!CertificateFails, FetchingInv, Dl!FetchingAssumption, Active, Dl!Over, RequestsAreCounted, ErrorsAreCounted, Dl!StoredIsVerified, PerAttempt
<1>4. CASE Dl!TooManyRedirects
  BY <1>4, AttemptFailsKeeps DEF Dl!TooManyRedirects
<1>5. CASE Dl!Refused
  BY <1>5 DEF Dl!Refused, FetchingInv, Dl!FetchingAssumption, Active, Dl!Over, RequestsAreCounted, ErrorsAreCounted, Dl!StoredIsVerified, PerAttempt
<1>6. CASE Dl!BadStatus
  BY <1>6, AttemptFailsKeeps DEF Dl!BadStatus
<1>7. CASE Dl!BodyFails
  BY <1>7, AttemptFailsKeeps DEF Dl!BodyFails
<1>8. CASE Dl!Extract
  <2>1. CASE body = "truncated" \/ (integrity /\ body # "good")
    BY <1>8, <2>1, AttemptFailsKeeps DEF Dl!Extract
  <2>2. CASE ~(body = "truncated" \/ (integrity /\ body # "good"))
    <3>1. dl' = "stored" /\ body' = body /\ integrity' = integrity
      BY <1>8, <2>2 DEF Dl!Extract
    <3>2. Dl!StoredIsVerified'
      BY <2>2, <3>1 DEF Dl!StoredIsVerified
    <3> QED BY <1>8, <2>2, <3>1, <3>2
         DEF Dl!Extract, FetchingInv, Dl!FetchingAssumption, Active, Dl!Over, RequestsAreCounted, ErrorsAreCounted, PerAttempt
  <2> QED BY <2>1, <2>2
<1>9. CASE Dl!NextAttempt
  <2>1. attempt' = attempt + 1 /\ attempt <= Retries /\ requests' = requests /\ redirects' = 0
        /\ dl = "retrying" /\ dl' = "sending" /\ transient' = transient
    BY <1>9 DEF Dl!NextAttempt, FetchingInv, ErrorsAreCounted
  <2>2. attempt * PerAttempt = (attempt - 1) * PerAttempt + PerAttempt
    BY DEF FetchingInv, Dl!FetchingAssumption, PerAttempt
  <2>3. (attempt - 1) * PerAttempt \in Int /\ attempt * PerAttempt \in Int
    BY DEF FetchingInv, Dl!FetchingAssumption, PerAttempt
  <2>4. RequestsAreCounted'
    BY <2>1, <2>2, <2>3 DEF RequestsAreCounted, PerAttempt, FetchingInv, Dl!FetchingAssumption
  <2>5. (auth => host = "registry")' /\ ~leaked' /\ Dl!StoredIsVerified' /\ inner' = 1
    BY <1>9 DEF Dl!NextAttempt, FetchingInv, Dl!StoredIsVerified
  <2>6. ErrorsAreCounted'
    BY <2>1 DEF ErrorsAreCounted, FetchingInv, Dl!FetchingAssumption, Active
  <2> QED BY <2>1, <2>4, <2>5, <2>6 DEF FetchingInv, Dl!FetchingAssumption, Active
<1>10. ASSUME NEW h \in Dl!Hosts, Dl!Redirect(h) PROVE FetchingInv'
  <2>1. auth' => host' = "registry"
    BY <1>10 DEF Dl!Redirect
  <2> QED BY <1>10, <2>1
       DEF Dl!Redirect, FetchingInv, Dl!FetchingAssumption, Active, Dl!Over, RequestsAreCounted, ErrorsAreCounted, Dl!StoredIsVerified, PerAttempt
<1>11. ASSUME NEW b \in {"truncated", "altered", "good"}, NEW l \in BOOLEAN, Dl!BodyRead(b, l)
       PROVE  FetchingInv'
  <2>1. CASE b = "truncated" /\ l
    BY <1>11, <2>1, AttemptFailsKeeps DEF Dl!BodyRead
  <2>2. CASE ~(b = "truncated" /\ l)
    BY <1>11, <2>2
       DEF Dl!BodyRead, FetchingInv, Dl!FetchingAssumption, Active, Dl!Over, RequestsAreCounted, ErrorsAreCounted, Dl!StoredIsVerified, PerAttempt
  <2> QED BY <2>1, <2>2
<1>12. CASE UNCHANGED Dl!dlVars
  BY <1>12 DEF Dl!dlVars, FetchingInv, RequestsAreCounted, ErrorsAreCounted, Dl!StoredIsVerified
<1> QED BY <1>1, <1>2, <1>3, <1>4, <1>5, <1>6, <1>7, <1>8, <1>9, <1>10, <1>11, <1>12
     DEF Dl!Next, Dl!Step, Dl!Ended

\* The invariant holds in every reachable state.
THEOREM FetchingInvariant == ASSUME Dl!FetchingAssumption PROVE Dl!SafetySpec => []FetchingInv
<1>1. Dl!Init => FetchingInv
  BY FetchingStarts
<1>2. FetchingInv /\ [Dl!Next]_Dl!dlVars => FetchingInv'
  BY FetchingStepKeeps
<1> QED BY <1>1, <1>2, PTL DEF Dl!SafetySpec

\* The credentials of the registry never go to another host, through any chain
\* of redirects and retries.
THEOREM AuthStays == ASSUME Dl!FetchingAssumption PROVE Dl!SafetySpec => []Dl!AuthStaysAtTheRegistry
<1>1. FetchingInv => Dl!AuthStaysAtTheRegistry
  BY DEF FetchingInv, Dl!AuthStaysAtTheRegistry
<1> QED BY <1>1, FetchingInvariant, PTL

\* (retries + 1) * (redirects + 1) requests are sent at most.
THEOREM RequestsBounded == ASSUME Dl!FetchingAssumption PROVE Dl!SafetySpec => []Dl!RequestsAreBounded
<1>1. ASSUME FetchingInv PROVE Dl!RequestsAreBounded
  <2>1. PerAttempt \in Nat /\ PerAttempt = MaxRedirects + 1
    BY DEF Dl!FetchingAssumption, PerAttempt
  <2>2. (attempt - 1) * PerAttempt + PerAttempt = attempt * PerAttempt
    BY <1>1, <2>1 DEF FetchingInv, Dl!FetchingAssumption
  <2>3. attempt * PerAttempt <= (Retries + 1) * PerAttempt
    BY <1>1, <2>1 DEF FetchingInv, Dl!FetchingAssumption
  <2>4. (attempt - 1) * PerAttempt \in Int /\ attempt * PerAttempt \in Int
        /\ (Retries + 1) * PerAttempt \in Int
    BY <1>1, <2>1 DEF FetchingInv, Dl!FetchingAssumption
  <2>5. requests \in Nat /\ redirects \in Nat /\ redirects <= MaxRedirects /\ MaxRedirects \in Nat
        /\ requests <= (attempt - 1) * PerAttempt + redirects + 1
    BY <1>1, <2>4 DEF FetchingInv, RequestsAreCounted, Dl!FetchingAssumption
  <2>6. requests <= (Retries + 1) * PerAttempt
    BY <2>1, <2>2, <2>3, <2>4, <2>5
  <2> QED BY <2>1, <2>6 DEF Dl!RequestsAreBounded, Dl!MaxRequests
<1>2. FetchingInv => Dl!RequestsAreBounded
  BY <1>1
<1> QED BY <1>2, FetchingInvariant, PTL

\* Errors that may pass end the download only in its last attempt.
THEOREM TransientErrorsSurvived == ASSUME Dl!FetchingAssumption PROVE Dl!SafetySpec => []Dl!TransientErrorsAreSurvived
<1>1. FetchingInv => Dl!TransientErrorsAreSurvived
  BY DEF FetchingInv, ErrorsAreCounted, Dl!TransientErrorsAreSurvived, Dl!FetchingAssumption
<1> QED BY <1>1, FetchingInvariant, PTL

\* A tarball of which the lockfile knows the integrity is stored whole and
\* unchanged, or not at all.
THEOREM StoredVerified == ASSUME Dl!FetchingAssumption PROVE Dl!SafetySpec => []Dl!StoredIsVerified
<1>1. FetchingInv => Dl!StoredIsVerified
  BY DEF FetchingInv
<1> QED BY <1>1, FetchingInvariant, PTL

\* What else the type invariant of a download says.
FetchingTypes ==
  /\ host \in Dl!Hosts
  /\ {hasAuth, auth, integrity, leaked} \subseteq BOOLEAN
  /\ body \in {"none", "truncated", "altered", "good"}
  /\ transient <= attempt

LEMMA FetchingStepTyped ==
  ASSUME Dl!FetchingAssumption, FetchingInv, FetchingTypes, [Dl!Next]_Dl!dlVars
  PROVE  FetchingTypes'
<1> USE Dl!FetchingAssumption, FetchingTypes DEF FetchingTypes
<1>1. attempt \in Nat /\ transient \in Nat /\ (dl \in Active => transient = attempt - 1)
  BY DEF FetchingInv, ErrorsAreCounted, Dl!FetchingAssumption
<1>2. ASSUME Dl!AttemptFails, dl \in Active PROVE FetchingTypes' \/ body' # body
  BY <1>1, <1>2 DEF Dl!AttemptFails
<1>3. CASE Dl!Send
  BY <1>3 DEF Dl!Send
<1>4. CASE Dl!RequestFails
  <2>1. Dl!AttemptFails /\ body' = body /\ dl \in Active
    BY <1>4 DEF Dl!RequestFails, FetchingInv, Dl!InnerRetries, Active
  <2> QED BY <1>2, <2>1
<1>5. CASE Dl!CertificateFails \/ Dl!Refused
  BY <1>5 DEF Dl!CertificateFails, Dl!Refused
<1>6. CASE Dl!TooManyRedirects \/ Dl!BadStatus \/ Dl!BodyFails
  <2>1. Dl!AttemptFails /\ body' = body /\ dl \in Active
    BY <1>6 DEF Dl!TooManyRedirects, Dl!BadStatus, Dl!BodyFails, Active
  <2> QED BY <1>2, <2>1
<1>7. CASE Dl!Extract
  <2>1. dl \in Active /\ body' = body
    BY <1>7 DEF Dl!Extract, Active
  <2>2. CASE Dl!AttemptFails
    BY <1>2, <2>1, <2>2
  <2>3. CASE ~Dl!AttemptFails
    BY <1>7, <2>3 DEF Dl!Extract
  <2> QED BY <2>2, <2>3
<1>8. CASE Dl!NextAttempt
  BY <1>1, <1>8 DEF Dl!NextAttempt, Dl!Hosts
<1>9. ASSUME NEW h \in Dl!Hosts, Dl!Redirect(h) PROVE FetchingTypes'
  BY <1>9 DEF Dl!Redirect
<1>10. ASSUME NEW b \in {"truncated", "altered", "good"}, NEW l \in BOOLEAN, Dl!BodyRead(b, l)
       PROVE  FetchingTypes'
  <2>1. dl \in Active /\ body' = b
    BY <1>10 DEF Dl!BodyRead, Active
  <2>2. CASE Dl!AttemptFails
    BY <1>1, <2>1, <2>2 DEF Dl!AttemptFails
  <2>3. CASE ~Dl!AttemptFails
    BY <1>10, <2>1, <2>3 DEF Dl!BodyRead
  <2> QED BY <2>2, <2>3
<1>11. CASE UNCHANGED Dl!dlVars
  BY <1>11 DEF Dl!dlVars
<1> QED BY <1>3, <1>4, <1>5, <1>6, <1>7, <1>8, <1>9, <1>10, <1>11 DEF Dl!Next, Dl!Step, Dl!Ended

\* The states of a download are what they should be.
THEOREM FetchingTypeCorrect == ASSUME Dl!FetchingAssumption PROVE Dl!SafetySpec => []Dl!FetchingTypeOK
<1>1. ASSUME Dl!Init PROVE FetchingTypes
  <2>1. {hasAuth, auth, integrity, leaked} \subseteq BOOLEAN
    BY <1>1 DEF Dl!Init
  <2>2. host \in Dl!Hosts /\ body = "none" /\ transient <= attempt
    BY <1>1 DEF Dl!Init, Dl!Hosts
  <2> QED BY <2>1, <2>2 DEF FetchingTypes
<1>2. FetchingInv /\ FetchingTypes /\ [Dl!Next]_Dl!dlVars => FetchingTypes'
  BY FetchingStepTyped
<1>3. ASSUME FetchingInv, FetchingTypes, Dl!RequestsAreBounded PROVE Dl!FetchingTypeOK
  <2>1. Dl!MaxRequests \in Nat
    BY DEF Dl!MaxRequests, Dl!FetchingAssumption
  <2>2. requests \in 0..(Dl!MaxRequests * 3)
    BY <1>3, <2>1 DEF Dl!RequestsAreBounded, FetchingInv, RequestsAreCounted
  <2>3. redirects \in 0..(MaxRedirects + 1) /\ transient \in 0..(Retries + 1)
    BY <1>3 DEF FetchingInv, RequestsAreCounted, FetchingTypes, Dl!FetchingAssumption
  <2> QED BY <1>3, <2>2, <2>3 DEF FetchingInv, FetchingTypes, Dl!FetchingTypeOK, Dl!InnerRetries, Active
<1>4. FetchingInv /\ FetchingTypes /\ Dl!RequestsAreBounded => Dl!FetchingTypeOK
  BY <1>3
<1>5. Dl!Init => FetchingTypes
  BY <1>1
<1> QED BY <1>2, <1>4, <1>5, FetchingInvariant, RequestsBounded, PTL DEF Dl!SafetySpec

-----------------------------------------------------------------------------
\* Where the nested modules are: at the place until they are moved, in the
\* stage until it is renamed, unless a fault struck in between.
ModulesAreSomewhere == keep /\ had /\ ~mislaid =>
  IF step \in {"replacing", "cleared"} THEN Nested \subseteq stageNm
  ELSE Nested \subseteq nested

\* The stage is filled file by file and is whole when it is renamed.
StageIsFilled ==
  /\ step = "importing" => todo # {} /\ stage \cup todo = ImportFiles
  /\ step \in {"moving", "replacing", "cleared"} => stage = ImportFiles
  /\ step \in {"importing", "moving"} => stageNm = Bundled

ImporterInv ==
  /\ Imp!ImporterTypeOK
  /\ StageIsFilled
  /\ place = OldFiles => force \/ OldFiles = ImportFiles
  /\ step = "done" => place = ImportFiles
  /\ ModulesAreSomewhere

LEMMA ImporterStarts == ASSUME Imp!ImporterAssumption, Imp!Init PROVE ImporterInv
<1>1. linked \in BOOLEAN /\ had \in BOOLEAN
  <2>1. CASE place = {}
    BY <2>1 DEF Imp!Init
  <2>2. CASE place # {}
    BY <2>2 DEF Imp!Init
  <2> QED BY <2>1, <2>2
<1>3. method \in Imp!Methods
  <2>1. CASE kind = "single"
    BY <2>1 DEF Imp!Init, Imp!Methods
  <2>2. CASE kind # "single"
    BY <2>2 DEF Imp!Init, Imp!Methods
  <2> QED BY <2>1, <2>2
<1>5. nested \subseteq Nested \cup Bundled
  <2>1. CASE had
    BY <2>1 DEF Imp!Init
  <2>2. CASE ~had
    BY <2>2 DEF Imp!Init
  <2> QED BY <2>1, <2>2
<1>6. {keep, had, force, linked, mislaid} \subseteq BOOLEAN
  <2>1. keep \in BOOLEAN /\ force \in BOOLEAN /\ mislaid \in BOOLEAN
    BY DEF Imp!Init
  <2> QED BY <1>1, <2>1
<1>7. place \in {{}, ImportFiles, OldFiles} /\ kind \in {"single", "auto", "clone-or-copy"}
  BY DEF Imp!Init
<1>8. stage = {} /\ todo = {} /\ stageNm = {} /\ step = "idle" /\ faults = 0
  BY DEF Imp!Init
<1>9. Imp!ImporterTypeOK
  BY <1>3, <1>5, <1>6, <1>7, <1>8 DEF Imp!ImporterAssumption, Imp!ImporterTypeOK, Imp!Steps
<1>2. StageIsFilled /\ ModulesAreSomewhere
  BY DEF Imp!Init, StageIsFilled, ModulesAreSomewhere
<1> QED BY <1>9, <1>2 DEF Imp!Init, ImporterInv

LEMMA ImporterStepKeeps ==
  ASSUME Imp!ImporterAssumption, ImporterInv, [Imp!Next]_Imp!impVars
  PROVE  ImporterInv'
<1> USE DEF ImporterInv
<1> USE DEF Imp!ImporterAssumption, Imp!ImporterTypeOK, Imp!Methods, Imp!Steps, StageIsFilled, ModulesAreSomewhere
<1>1. CASE Imp!Begin
  <2>1. CASE Imp!AlreadyThere
    <3>1. place = ImportFiles
      BY <2>1 DEF Imp!AlreadyThere
    <3> QED BY <1>1, <2>1, <3>1 DEF Imp!Begin
  <2>2. CASE ~Imp!AlreadyThere
    BY <1>1, <2>2 DEF Imp!Begin, Imp!EmptyStage
  <2> QED BY <2>1, <2>2
<1>2. ASSUME NEW f \in ImportFiles, Imp!ImportFile(f) PROVE ImporterInv'
  BY <1>2 DEF Imp!ImportFile
<1>3. CASE Imp!MoveModules
  BY <1>3 DEF Imp!MoveModules
<1>4. CASE Imp!ClearPlace
  BY <1>4 DEF Imp!ClearPlace
<1>5. CASE Imp!RenameStage
  BY <1>5 DEF Imp!RenameStage
<1>6. CASE Imp!OperationFails
  BY <1>6 DEF Imp!OperationFails, Imp!NextMethods, Imp!Moved
<1>7. CASE Imp!Crash
  BY <1>7 DEF Imp!Crash, Imp!Moved
<1>8. CASE UNCHANGED Imp!impVars
  BY <1>8 DEF Imp!impVars
<1> QED BY <1>1, <1>2, <1>3, <1>4, <1>5, <1>6, <1>7, <1>8 DEF Imp!Next, Imp!Step, Imp!Ended

\* The invariant holds in every reachable state.
THEOREM ImporterInvariant == ASSUME Imp!ImporterAssumption PROVE Imp!SafetySpec => []ImporterInv
<1>1. Imp!Init => ImporterInv
  BY ImporterStarts
<1>2. ImporterInv /\ [Imp!Next]_Imp!impVars => ImporterInv'
  BY ImporterStepKeeps
<1> QED BY <1>1, <1>2, PTL DEF Imp!SafetySpec

\* At every moment, through failures, fallbacks and crashes, newDir holds a
\* whole package or nothing.
THEOREM PlacesAreWhole == ASSUME Imp!ImporterAssumption PROVE Imp!SafetySpec => []Imp!PlaceIsWhole
<1>1. ImporterInv => Imp!PlaceIsWhole
  BY DEF ImporterInv, Imp!ImporterTypeOK, Imp!PlaceIsWhole
<1> QED BY <1>1, ImporterInvariant, PTL

\* An import that is done left the files that were asked for.
THEOREM ImportsAreWanted == ASSUME Imp!ImporterAssumption PROVE Imp!SafetySpec => []Imp!ImportedIsWanted
<1>1. ImporterInv => Imp!ImportedIsWanted
  BY DEF ImporterInv, Imp!ImportedIsWanted
<1> QED BY <1>1, ImporterInvariant, PTL

\* With keepModulesDir the nested node_modules survives every import that is
\* done, unless a fault struck while it was in the staging directory.
THEOREM ModulesSurvive == ASSUME Imp!ImporterAssumption PROVE Imp!SafetySpec => []Imp!NestedModulesSurvive
<1>1. ImporterInv => Imp!NestedModulesSurvive
  BY DEF ImporterInv, ModulesAreSomewhere, Imp!NestedModulesSurvive
<1> QED BY <1>1, ImporterInvariant, PTL

-----------------------------------------------------------------------------
\* The copies of injected packages

SourceIsExtended == Patch!ExtendFilesMap(sourceDir) = sourceDir

\* What the operations that are left are about.
OpsAreNeeded ==
  /\ \A p \in DOMAIN ops :
       /\ ops[p] = "rm" <=> p \notin DOMAIN sourceDir
       /\ ops[p] = "link" => sourceDir[p] # "DIR"
       /\ ops[p] = "mkdir" => sourceDir[p] = "DIR"
       /\ ops[p] = "replace" /\ sourceDir[p] = "DIR" => p \in DOMAIN targetDir /\ targetDir[p] # "DIR"
  /\ patched \in {"no", "ok"} => DOMAIN ops = {}

\* A patch without an error: what it has not to change is right.
RestIsSynced ==
  patched \in {"working", "ok"} =>
    /\ \A p \in DOMAIN sourceDir \ DOMAIN ops : p \in DOMAIN targetDir /\ targetDir[p] = sourceDir[p]
    /\ \A p \in DOMAIN targetDir \ DOMAIN sourceDir : targetDir[p] # "DIR" => p \in DOMAIN ops

SameKind(a, b, p) == a[p] = "DIR" <=> b[p] = "DIR"
SameKinds(a, b) == \A p \in DOMAIN a \cap DOMAIN b : SameKind(a, b, p)

\* Whatever is done next, no operation fails.
NothingInTheWay ==
  /\ patched # "failed"
  /\ SameKinds(targetDir, sourceDir)
  /\ \A p \in DOMAIN ops :
       /\ ops[p] = "link" => \A q \in Ancestors[p] : q \in DOMAIN targetDir /\ targetDir[q] = "DIR"
       /\ ops[p] \in {"replace", "add"} => sourceDir[p] # "DIR"
       /\ ops[p] \in {"link", "add"} => p \notin DOMAIN targetDir
       /\ ops[p] = "rm" => \A q \in Ancestors[p] :
            /\ q \in DOMAIN sourceDir => sourceDir[q] = "DIR"
            /\ q \in DOMAIN targetDir => targetDir[q] = "DIR"

\* The first patch removes what is of another kind.
FirstReplaces ==
  /\ patched = "no" <=> tries = 0
  /\ tries = 0 => targetDir = before
  /\ tries = 1 /\ Patch!ExtendFilesMap(before) = before =>
       \A p \in DOMAIN targetDir \cap DOMAIN sourceDir :
         SameKind(targetDir, sourceDir, p) \/ (p \in DOMAIN ops /\ ops[p] = "replace")

PatchInv ==
  /\ Patch!PatchTypeOK /\ SourceIsExtended /\ OpsAreNeeded /\ RestIsSynced /\ FirstReplaces
  /\ SameKinds(before, sourceDir) => NothingInTheWay
  /\ Patch!ExtendFilesMap(before) = before /\ tries > 1 => NothingInTheWay

-----------------------------------------------------------------------------
\* Directories

LEMMA DirsAre == ASSUME NEW d PROVE
    d \in Patch!Dirs <=> /\ d = [p \in DOMAIN d |-> d[p]] /\ DOMAIN d \subseteq PatchPaths
                         /\ \A p \in DOMAIN d : d[p] \in PatchInodes \cup {"DIR"}
                         /\ \A p \in DOMAIN d : \A q \in Ancestors[p] : q \in DOMAIN d /\ d[q] = "DIR"
<1>1. ASSUME d \in UNION {[D -> PatchInodes \cup {"DIR"}] : D \in SUBSET PatchPaths}
      PROVE  /\ d = [p \in DOMAIN d |-> d[p]] /\ DOMAIN d \subseteq PatchPaths
             /\ \A p \in DOMAIN d : d[p] \in PatchInodes \cup {"DIR"}
  <2>1. PICK D \in SUBSET PatchPaths : d \in [D -> PatchInodes \cup {"DIR"}]
    BY <1>1
  <2> QED BY <2>1
<1>2. ASSUME d = [p \in DOMAIN d |-> d[p]], DOMAIN d \subseteq PatchPaths,
             \A p \in DOMAIN d : d[p] \in PatchInodes \cup {"DIR"}
      PROVE  d \in UNION {[D -> PatchInodes \cup {"DIR"}] : D \in SUBSET PatchPaths}
  <2>1. d \in [DOMAIN d -> PatchInodes \cup {"DIR"}]
    BY <1>2
  <2> QED BY <1>2, <2>1
<1> QED BY <1>1, <1>2 DEF Patch!Dirs

\* Files with the directories they are in.
LEMMA ExtendedAre ==
  ASSUME Patch!DirPatcherAssumption, NEW d \in Patch!Dirs
  PROVE  LET e == Patch!ExtendFilesMap(d)
         IN  /\ DOMAIN e \subseteq DOMAIN d /\ \A p \in DOMAIN e : e[p] = d[p]
             /\ \A p \in DOMAIN d : d[p] # "DIR" => p \in DOMAIN e
             /\ \A p \in DOMAIN d : p \in DOMAIN e <=>
                  d[p] # "DIR" \/ \E q \in DOMAIN d : d[q] # "DIR" /\ p \in Ancestors[q]
<1> DEFINE regular == {p \in DOMAIN d : d[p] # "DIR"}
           stays == regular \cup UNION {Ancestors[p] : p \in regular}
<1>1. Patch!ExtendFilesMap(d) = [p \in DOMAIN d \cap stays |-> d[p]]
  BY DEF Patch!ExtendFilesMap, Patch!Restricted
<1> QED BY <1>1

\* Directories are made where nothing is.
LEMMA MkdirsAre ==
  ASSUME Patch!DirPatcherAssumption, NEW d \in Patch!Dirs, NEW ps \in SUBSET PatchPaths,
         \A p \in ps : ~Patch!MkdirFails(d, p)
  PROVE  LET m == Patch!MkdirParents(d, ps)
         IN  /\ m \in Patch!Dirs
             /\ \A q \in DOMAIN d : q \in DOMAIN m /\ m[q] = d[q]
             /\ \A q \in DOMAIN m \ DOMAIN d : m[q] = "DIR" /\ \E p \in ps : q \in Ancestors[p]
             /\ \A p \in ps : \A q \in Ancestors[p] : q \in DOMAIN m /\ m[q] = "DIR"
<1> DEFINE m == Patch!MkdirParents(d, ps)
<1>1. /\ m = [q \in DOMAIN m |-> m[q]] /\ DOMAIN m = DOMAIN d \cup UNION {Ancestors[p] : p \in ps}
      /\ \A q \in DOMAIN m : m[q] = IF q \in DOMAIN d THEN d[q] ELSE "DIR"
  BY DEF Patch!MkdirParents
<1> HIDE DEF m
<1>2. \A p \in ps : \A q \in Ancestors[p] : q \in DOMAIN m /\ m[q] = "DIR"
  BY <1>1 DEF Patch!MkdirFails
<1>3. /\ \A q \in DOMAIN d : q \in DOMAIN m /\ m[q] = d[q]
      /\ \A q \in DOMAIN m \ DOMAIN d : m[q] = "DIR" /\ \E p \in ps : q \in Ancestors[p]
  BY <1>1
<1>4. ASSUME NEW q \in DOMAIN m, NEW r \in Ancestors[q] PROVE r \in DOMAIN m /\ m[r] = "DIR"
  <2>1. CASE q \in DOMAIN d
    BY <1>3, <1>4, <2>1, DirsAre
  <2>2. CASE q \notin DOMAIN d
    <3>1. PICK p \in ps : q \in Ancestors[p]
      BY <1>3, <2>2
    <3> QED BY <1>2, <1>4, <3>1 DEF Patch!DirPatcherAssumption
  <2> QED BY <2>1, <2>2
<1>5. DOMAIN m \subseteq PatchPaths /\ \A p \in DOMAIN m : m[p] \in PatchInodes \cup {"DIR"}
  BY <1>1, DirsAre DEF Patch!DirPatcherAssumption
<1>6. m \in Patch!Dirs
  BY <1>1, <1>4, <1>5, DirsAre
<1> QED BY <1>2, <1>3, <1>6 DEF m

LEMMA PutIs ==
  ASSUME NEW d \in Patch!Dirs, NEW p \in PatchPaths, NEW value \in PatchInodes \cup {"DIR"},
         \A q \in Ancestors[p] : q \in DOMAIN d /\ d[q] = "DIR",
         p \in DOMAIN d => value = "DIR" /\ d[p] = "DIR"
  PROVE  LET m == Patch!Put(d, p, value)
         IN  /\ m \in Patch!Dirs /\ DOMAIN m = DOMAIN d \cup {p} /\ m[p] = value
             /\ \A q \in DOMAIN d : m[q] = d[q]
<1> DEFINE m == Patch!Put(d, p, value)
<1>1. /\ m = [q \in DOMAIN m |-> m[q]] /\ DOMAIN m = DOMAIN d \cup {p} /\ m[p] = value
      /\ \A q \in DOMAIN d : m[q] = d[q]
  BY DEF Patch!Put
<1> HIDE DEF m
<1>2. \A q \in DOMAIN m : \A r \in Ancestors[q] : r \in DOMAIN m /\ m[r] = "DIR"
  BY <1>1, DirsAre
<1>3. DOMAIN m \subseteq PatchPaths /\ \A q \in DOMAIN m : m[q] \in PatchInodes \cup {"DIR"}
  BY <1>1, DirsAre
<1>4. m \in Patch!Dirs
  BY <1>1, <1>2, <1>3, DirsAre
<1> QED BY <1>1, <1>4 DEF m

LEMMA GoneIs ==
  ASSUME Patch!DirPatcherAssumption, targetDir \in Patch!Dirs, NEW p \in PatchPaths
  PROVE  LET m == Patch!Gone(p)
         IN  /\ m \in Patch!Dirs /\ \A q \in DOMAIN m : m[q] = targetDir[q]
             /\ \A q : q \in DOMAIN m <=> q \in DOMAIN targetDir /\ q # p /\ p \notin Ancestors[q]
<1> DEFINE m == Patch!Gone(p)
           stays == PatchPaths \ ({p} \cup Patch!Beneath(p))
<1>0. DOMAIN targetDir \subseteq PatchPaths
  BY DirsAre
<1>1. m = [q \in DOMAIN targetDir \cap stays |-> targetDir[q]]
  BY DEF Patch!Gone, Patch!Restricted
<1>2. m = [q \in DOMAIN m |-> m[q]] /\ \A q \in DOMAIN m : m[q] = targetDir[q]
  BY <1>1
<1>3. \A q : q \in DOMAIN m <=> q \in DOMAIN targetDir /\ q # p /\ p \notin Ancestors[q]
  BY <1>0, <1>1 DEF Patch!Beneath
<1> HIDE DEF m
<1>4. ASSUME NEW q \in DOMAIN m, NEW r \in Ancestors[q] PROVE r \in DOMAIN m /\ m[r] = "DIR"
  <2>1. r \in DOMAIN targetDir /\ targetDir[r] = "DIR" /\ Ancestors[r] \subseteq Ancestors[q]
    BY <1>0, <1>3, <1>4, DirsAre DEF Patch!DirPatcherAssumption
  <2> QED BY <1>2, <1>3, <1>4, <2>1
<1>5. DOMAIN m \subseteq PatchPaths /\ \A q \in DOMAIN m : m[q] \in PatchInodes \cup {"DIR"}
  BY <1>0, <1>2, <1>3, DirsAre
<1>6. m \in Patch!Dirs
  BY <1>2, <1>4, <1>5, DirsAre
<1> QED BY <1>2, <1>3, <1>6 DEF m

-----------------------------------------------------------------------------
\* What the parts of a patch do

\* The directory only grows, by what the package has at the path and above it.
Grows(p) ==
  /\ \A q \in DOMAIN targetDir : q \in DOMAIN targetDir' /\ targetDir'[q] = targetDir[q]
  /\ \A q \in DOMAIN targetDir' \ DOMAIN targetDir :
       q \in DOMAIN sourceDir /\ targetDir'[q] = sourceDir[q] /\ (q = p \/ sourceDir[q] = "DIR")

Shrinks(p) ==
  /\ \A q \in DOMAIN targetDir' : targetDir'[q] = targetDir[q]
  /\ \A q : q \in DOMAIN targetDir' <=> q \in DOMAIN targetDir /\ q # p /\ p \notin Ancestors[q]

Finishes(p) == DOMAIN ops' = DOMAIN ops \ {p} /\ \A q \in DOMAIN ops' : ops'[q] = ops[q]
Continues(p, op) ==
  DOMAIN ops' = DOMAIN ops /\ ops'[p] = op /\ \A q \in DOMAIN ops \ {p} : ops'[q] = ops[q]

Does(p, op) == p \in DOMAIN ops /\ ops[p] = op /\ UNCHANGED <<sourceDir, before, tries>>

LEMMA Moves ==
  ASSUME NEW p \in PatchPaths, p \in DOMAIN ops
  PROVE  /\ Patch!Finish(p) => Finishes(p)
         /\ \A op : Patch!Continue(p, op) => Continues(p, op)
<1>1. Patch!Finish(p) => Finishes(p)
  BY DEF Patch!Finish, Finishes
<1>2. ASSUME NEW op, Patch!Continue(p, op) PROVE Continues(p, op)
  BY <1>2 DEF Patch!Continue, Continues
<1> QED BY <1>1, <1>2

\* Nothing below a path of the package is missing above it.
LEMMA SourceIsClosed ==
  ASSUME PatchInv, NEW p \in DOMAIN sourceDir, NEW q \in Ancestors[p]
  PROVE  q \in DOMAIN sourceDir /\ sourceDir[q] = "DIR" /\ p \in PatchPaths
BY DirsAre DEF PatchInv, Patch!PatchTypeOK

LEMMA MkdirDoes ==
  ASSUME Patch!DirPatcherAssumption, PatchInv, NEW p \in PatchPaths, Patch!Mkdir(p)
  PROVE  /\ Does(p, "mkdir") /\ Finishes(p) /\ targetDir' \in Patch!Dirs /\ Grows(p)
         /\ \/ patched' = "failed" /\ UNCHANGED targetDir
               /\ (Patch!MkdirFails(targetDir, p) \/ (p \in DOMAIN targetDir /\ targetDir[p] # "DIR"))
            \/ UNCHANGED patched /\ p \in DOMAIN targetDir' /\ targetDir'[p] = "DIR"
<1>1. Does(p, "mkdir") /\ Finishes(p)
  BY Moves DEF Patch!Mkdir, Patch!Doing, Does
<1>2. p \in DOMAIN sourceDir /\ sourceDir[p] = "DIR" /\ targetDir \in Patch!Dirs
  BY <1>1 DEF Does, PatchInv, OpsAreNeeded, Patch!PatchTypeOK
<1>3. CASE Patch!MkdirFails(targetDir, p) \/ (p \in DOMAIN targetDir /\ targetDir[p] # "DIR")
  BY <1>1, <1>2, <1>3 DEF Patch!Mkdir, Patch!Fail, Grows
<1>4. CASE ~(Patch!MkdirFails(targetDir, p) \/ (p \in DOMAIN targetDir /\ targetDir[p] # "DIR"))
  <2> DEFINE m == Patch!MkdirParents(targetDir, {p})
  <2>1. targetDir' = Patch!Put(m, p, "DIR") /\ UNCHANGED patched
    BY <1>4 DEF Patch!Mkdir
  <2>2. /\ m \in Patch!Dirs
        /\ \A q \in DOMAIN targetDir : q \in DOMAIN m /\ m[q] = targetDir[q]
        /\ \A q \in DOMAIN m \ DOMAIN targetDir : m[q] = "DIR" /\ q \in Ancestors[p]
        /\ \A q \in Ancestors[p] : q \in DOMAIN m /\ m[q] = "DIR"
    BY <1>2, <1>4, MkdirsAre
  <2>3. p \in DOMAIN m => m[p] = "DIR"
    BY <1>4, <2>2
  <2> HIDE DEF m
  <2>4. /\ targetDir' \in Patch!Dirs /\ DOMAIN targetDir' = DOMAIN m \cup {p} /\ targetDir'[p] = "DIR"
        /\ \A q \in DOMAIN m : targetDir'[q] = m[q]
    <3>1. PICK dir : dir = "DIR"
      OBVIOUS
    <3>2. dir \in PatchInodes \cup {"DIR"} /\ (p \in DOMAIN m => dir = "DIR" /\ m[p] = "DIR")
      BY <2>3, <3>1
    <3>3. LET n == Patch!Put(m, p, dir)
          IN  /\ n \in Patch!Dirs /\ DOMAIN n = DOMAIN m \cup {p} /\ n[p] = dir
              /\ \A q \in DOMAIN m : n[q] = m[q]
      BY <2>2, <3>2, PutIs
    <3> QED BY <2>1, <3>1, <3>3
  <2>5. Grows(p)
    BY <1>2, <2>2, <2>4, SourceIsClosed DEF Grows
  <2> QED BY <1>1, <2>1, <2>4, <2>5
<1> QED BY <1>3, <1>4

LEMMA LinkDoes ==
  ASSUME Patch!DirPatcherAssumption, PatchInv, NEW p \in PatchPaths, Patch!Link(p)
  PROVE  /\ Does(p, "link") /\ Finishes(p) /\ targetDir' \in Patch!Dirs /\ Grows(p)
         /\ \/ /\ patched' = "failed" /\ UNCHANGED targetDir
               /\ p \in DOMAIN targetDir \/ \E q \in Ancestors[p] : q \notin DOMAIN targetDir \/ targetDir[q] # "DIR"
            \/ UNCHANGED patched /\ p \in DOMAIN targetDir' /\ targetDir'[p] = sourceDir[p]
<1>1. Does(p, "link") /\ Finishes(p)
  BY Moves DEF Patch!Link, Patch!Doing, Does
<1>2. p \in DOMAIN sourceDir /\ sourceDir[p] \in PatchInodes \cup {"DIR"} /\ targetDir \in Patch!Dirs
  BY <1>1, DirsAre DEF Does, PatchInv, OpsAreNeeded, Patch!PatchTypeOK
<1>3. CASE p \in DOMAIN targetDir \/ \E q \in Ancestors[p] : q \notin DOMAIN targetDir \/ targetDir[q] # "DIR"
  BY <1>1, <1>2, <1>3 DEF Patch!Link, Patch!Fail, Grows
<1>4. CASE ~(p \in DOMAIN targetDir \/ \E q \in Ancestors[p] : q \notin DOMAIN targetDir \/ targetDir[q] # "DIR")
  <2>1. targetDir' = Patch!Put(targetDir, p, sourceDir[p]) /\ UNCHANGED patched
    BY <1>4 DEF Patch!Link
  <2>2. /\ targetDir' \in Patch!Dirs /\ DOMAIN targetDir' = DOMAIN targetDir \cup {p}
        /\ targetDir'[p] = sourceDir[p] /\ \A q \in DOMAIN targetDir : targetDir'[q] = targetDir[q]
    BY <1>2, <1>4, <2>1, PutIs
  <2> QED BY <1>1, <1>2, <2>1, <2>2 DEF Grows
<1> QED BY <1>3, <1>4

LEMMA AddAgainDoes ==
  ASSUME Patch!DirPatcherAssumption, PatchInv, NEW p \in PatchPaths, Patch!AddAgain(p)
  PROVE  /\ Does(p, "add") /\ targetDir' \in Patch!Dirs /\ Grows(p)
         /\ \/ sourceDir[p] = "DIR" /\ Continues(p, "mkdir") /\ UNCHANGED <<targetDir, patched>>
            \/ /\ sourceDir[p] # "DIR" /\ Patch!MkdirFails(targetDir, p)
               /\ Finishes(p) /\ patched' = "failed" /\ UNCHANGED targetDir
            \/ /\ sourceDir[p] # "DIR" /\ Continues(p, "link") /\ UNCHANGED patched
               /\ p \in DOMAIN targetDir' => p \in DOMAIN targetDir
               /\ \A q \in Ancestors[p] : q \in DOMAIN targetDir' /\ targetDir'[q] = "DIR"
<1>1. Does(p, "add")
  BY DEF Patch!AddAgain, Patch!Doing, Does
<1>2. p \in DOMAIN sourceDir /\ p \in DOMAIN ops /\ targetDir \in Patch!Dirs
  BY <1>1 DEF Does, PatchInv, OpsAreNeeded, Patch!PatchTypeOK
<1>3. CASE sourceDir[p] = "DIR"
  BY <1>1, <1>2, <1>3, Moves DEF Patch!AddAgain, Grows
<1>4. CASE sourceDir[p] # "DIR" /\ Patch!MkdirFails(targetDir, p)
  BY <1>1, <1>2, <1>4, Moves DEF Patch!AddAgain, Patch!Fail, Grows
<1>5. CASE sourceDir[p] # "DIR" /\ ~Patch!MkdirFails(targetDir, p)
  <2>1. Patch!Continue(p, "link") /\ targetDir' = Patch!MkdirParents(targetDir, {p}) /\ UNCHANGED patched
    BY <1>5 DEF Patch!AddAgain
  <2>2. /\ targetDir' \in Patch!Dirs
        /\ \A q \in DOMAIN targetDir : q \in DOMAIN targetDir' /\ targetDir'[q] = targetDir[q]
        /\ \A q \in DOMAIN targetDir' \ DOMAIN targetDir : targetDir'[q] = "DIR" /\ q \in Ancestors[p]
        /\ \A q \in Ancestors[p] : q \in DOMAIN targetDir' /\ targetDir'[q] = "DIR"
    BY <1>2, <1>5, <2>1, MkdirsAre
  <2>3. p \in DOMAIN targetDir' => p \in DOMAIN targetDir
    BY <2>2 DEF Patch!DirPatcherAssumption
  <2>4. Grows(p)
    BY <1>2, <2>2, SourceIsClosed DEF Grows
  <2> QED BY <1>1, <1>2, <1>5, <2>1, <2>2, <2>3, <2>4, Moves
<1> QED BY <1>3, <1>4, <1>5

LEMMA RmDoes ==
  ASSUME Patch!DirPatcherAssumption, PatchInv, NEW p \in PatchPaths, Patch!Rm(p)
  PROVE  /\ Does(p, "rm") /\ Finishes(p) /\ targetDir' \in Patch!Dirs /\ Shrinks(p)
         /\ UNCHANGED patched \/ (patched' = "failed" /\ Patch!MkdirFails(targetDir, p))
<1>1. Does(p, "rm") /\ Finishes(p)
  BY Moves DEF Patch!Rm, Patch!Doing, Does
<1>2. targetDir' = Patch!Gone(p) /\ targetDir \in Patch!Dirs
  BY DEF Patch!Rm, PatchInv, Patch!PatchTypeOK
<1>3. targetDir' \in Patch!Dirs /\ Shrinks(p)
  BY <1>2, GoneIs DEF Shrinks
<1> QED BY <1>1, <1>3 DEF Patch!Rm, Patch!Fail

LEMMA RmToReplaceDoes ==
  ASSUME Patch!DirPatcherAssumption, PatchInv, NEW p \in PatchPaths, Patch!RmToReplace(p)
  PROVE  /\ Does(p, "replace") /\ Continues(p, "add") /\ targetDir' \in Patch!Dirs /\ Shrinks(p)
         /\ UNCHANGED patched
<1>1. Does(p, "replace") /\ Continues(p, "add")
  BY Moves DEF Patch!RmToReplace, Patch!Doing, Does
<1>2. targetDir' = Patch!Gone(p) /\ targetDir \in Patch!Dirs
  BY DEF Patch!RmToReplace, PatchInv, Patch!PatchTypeOK
<1>3. targetDir' \in Patch!Dirs /\ Shrinks(p)
  BY <1>2, GoneIs DEF Shrinks
<1> QED BY <1>1, <1>3 DEF Patch!RmToReplace

\* What is removed takes nothing of the package with it.
LEMMA RemovesAlone ==
  ASSUME PatchInv, NEW p \in PatchPaths, p \in DOMAIN ops, ops[p] \in {"rm", "replace"},
         NEW q \in DOMAIN targetDir, p \in Ancestors[q]
  PROVE  q \notin DOMAIN sourceDir
<1>1. SUFFICES ASSUME q \in DOMAIN sourceDir PROVE FALSE
  OBVIOUS
<1>2. p \in DOMAIN sourceDir /\ sourceDir[p] = "DIR"
  BY <1>1, SourceIsClosed
<1>3. ops[p] = "replace" /\ targetDir[p] # "DIR"
  BY <1>2 DEF PatchInv, OpsAreNeeded
<1>4. targetDir[p] = "DIR"
  BY DirsAre DEF PatchInv, Patch!PatchTypeOK
<1> QED BY <1>3, <1>4

LEMMA ApplyDoes ==
  ASSUME Patch!DirPatcherAssumption, PatchInv, Patch!Apply
  PROVE  LET old == DOMAIN Patch!ExtendFilesMap(targetDir)
         IN  /\ targetDir' \in Patch!Dirs /\ Grows("none") /\ DOMAIN ops' \subseteq PatchPaths
             /\ \A q \in DOMAIN targetDir' \ DOMAIN targetDir : sourceDir[q] = "DIR"
             /\ \A p \in DOMAIN ops' :
                  /\ ops'[p] \in {"link", "mkdir", "rm", "replace"}
                  /\ ops'[p] = "link" =>
                       /\ p \in DOMAIN sourceDir \ old /\ sourceDir[p] # "DIR"
                       /\ \A q \in Ancestors[p] : q \in DOMAIN targetDir' /\ targetDir'[q] = "DIR"
                  /\ ops'[p] = "mkdir" => p \in DOMAIN sourceDir \ old /\ sourceDir[p] = "DIR"
                  /\ ops'[p] = "rm" => p \in old \ DOMAIN sourceDir
                  /\ ops'[p] = "replace" => p \in old \cap DOMAIN sourceDir /\ targetDir[p] # sourceDir[p]
             /\ \A p \in old \ DOMAIN sourceDir : p \in DOMAIN ops'
             /\ \A p \in old \cap DOMAIN sourceDir :
                  targetDir[p] # sourceDir[p] => p \in DOMAIN ops' /\ ops'[p] = "replace"
             /\ patched' \in {"working", "failed"}
             /\ patched' = "working" => DOMAIN sourceDir \ old \subseteq DOMAIN ops'
             /\ patched' = "failed" => \E p \in DOMAIN sourceDir : Patch!MkdirFails(targetDir, p)
             /\ tries' = tries + 1 /\ tries < MaxTries /\ UNCHANGED <<sourceDir, before>>
             /\ DOMAIN ops = {} /\ patched \in {"no", "failed"}
<1> DEFINE e == Patch!ExtendFilesMap(targetDir)
           old == DOMAIN e
           added == DOMAIN sourceDir \ old
           regular == {p \in added : sourceDir[p] # "DIR"}
           linkable == {p \in regular : ~Patch!MkdirFails(targetDir, p)}
           removed == old \ DOMAIN sourceDir
           modified == {p \in old \cap DOMAIN sourceDir : targetDir[p] # sourceDir[p]}
<1>1. /\ targetDir \in Patch!Dirs /\ sourceDir \in Patch!Dirs
      /\ DOMAIN targetDir \subseteq PatchPaths /\ DOMAIN sourceDir \subseteq PatchPaths
  BY DirsAre DEF PatchInv, Patch!PatchTypeOK
<1>2. old \subseteq DOMAIN targetDir /\ \A p \in old : e[p] = targetDir[p]
  BY <1>1, ExtendedAre
<1> HIDE DEF e
<1>3. Patch!Modified(e, sourceDir) = modified
  BY <1>2 DEF Patch!Modified
<1>4. /\ patched \in {"no", "failed"} /\ ops = <<>> /\ tries < MaxTries /\ tries' = tries + 1
      /\ targetDir' = Patch!MkdirParents(targetDir, linkable)
      /\ ops' = [p \in linkable \cup (added \ regular) \cup removed \cup modified |->
                   CASE p \in regular -> "link" [] p \in added \ regular -> "mkdir"
                     [] p \in removed -> "rm" [] OTHER -> "replace"]
      /\ patched' = IF linkable = regular THEN "working" ELSE "failed"
      /\ UNCHANGED <<sourceDir, before>>
  BY <1>3 DEF Patch!Apply, Patch!Added, Patch!Removed, e
<1>5. linkable \subseteq PatchPaths
  BY <1>1
<1>6. /\ targetDir' \in Patch!Dirs
      /\ \A q \in DOMAIN targetDir : q \in DOMAIN targetDir' /\ targetDir'[q] = targetDir[q]
      /\ \A q \in DOMAIN targetDir' \ DOMAIN targetDir :
           targetDir'[q] = "DIR" /\ \E p \in linkable : q \in Ancestors[p]
      /\ \A p \in linkable : \A q \in Ancestors[p] : q \in DOMAIN targetDir' /\ targetDir'[q] = "DIR"
  <2>1. LET m == Patch!MkdirParents(targetDir, linkable)
        IN  /\ m \in Patch!Dirs
            /\ \A q \in DOMAIN targetDir : q \in DOMAIN m /\ m[q] = targetDir[q]
            /\ \A q \in DOMAIN m \ DOMAIN targetDir : m[q] = "DIR" /\ \E p \in linkable : q \in Ancestors[p]
            /\ \A p \in linkable : \A q \in Ancestors[p] : q \in DOMAIN m /\ m[q] = "DIR"
    <3>1. \A p \in linkable : ~Patch!MkdirFails(targetDir, p)
      OBVIOUS
    <3> HIDE DEF linkable
    <3> QED BY <1>1, <1>5, <3>1, MkdirsAre
  <2> QED BY <1>4, <2>1
<1>7. \A q \in DOMAIN targetDir' \ DOMAIN targetDir : q \in DOMAIN sourceDir /\ sourceDir[q] = "DIR"
  BY <1>6, SourceIsClosed
<1>8. Grows("none")
  BY <1>6, <1>7 DEF Grows
<1>9. DOMAIN ops' = linkable \cup (added \ regular) \cup removed \cup modified
  BY <1>4
<1>10. \A p \in DOMAIN ops' :
         /\ ops'[p] \in {"link", "mkdir", "rm", "replace"}
         /\ ops'[p] = "link" => p \in linkable
         /\ ops'[p] = "mkdir" => p \in added \ regular
         /\ ops'[p] = "rm" => p \in removed
         /\ ops'[p] = "replace" => p \in modified
  BY <1>4, <1>9
<1>11. \A p \in modified : ops'[p] = "replace"
  BY <1>4, <1>9
<1>12. patched' = "failed" => \E p \in DOMAIN sourceDir : Patch!MkdirFails(targetDir, p)
  BY <1>4
<1>13. patched' = "working" => added \subseteq DOMAIN ops'
  BY <1>4, <1>9
<1>14. DOMAIN ops = {} /\ patched' \in {"working", "failed"}
  BY <1>4
<1> QED BY <1>1, <1>4, <1>6, <1>7, <1>8, <1>9, <1>10, <1>11, <1>12, <1>13, <1>14, <1>2 DEF e

-----------------------------------------------------------------------------
\* The invariant holds

LEMMA PatchStarts == ASSUME Patch!DirPatcherAssumption, Patch!Init PROVE PatchInv
<1>1. DOMAIN ops = {} /\ targetDir = before /\ tries = 0 /\ patched = "no"
  BY DEF Patch!Init
<1>2. Patch!PatchTypeOK /\ SourceIsExtended
  BY <1>1 DEF Patch!Init, Patch!PatchTypeOK, SourceIsExtended, Patch!DirPatcherAssumption
<1>3. OpsAreNeeded /\ RestIsSynced /\ FirstReplaces
  BY <1>1 DEF OpsAreNeeded, RestIsSynced, FirstReplaces
<1>4. SameKinds(before, sourceDir) => NothingInTheWay
  BY <1>1 DEF NothingInTheWay
<1> QED BY <1>1, <1>2, <1>3, <1>4 DEF PatchInv

LEMMA ApplyCalmly ==
  ASSUME Patch!DirPatcherAssumption, PatchInv, Patch!Apply, SameKinds(targetDir, sourceDir)
  PROVE  NothingInTheWay'
<1>1. /\ targetDir \in Patch!Dirs
      /\ \A p \in DOMAIN targetDir : \A q \in Ancestors[p] : q \in DOMAIN targetDir /\ targetDir[q] = "DIR"
  BY DirsAre DEF PatchInv, Patch!PatchTypeOK
<1>2. Grows("none") /\ UNCHANGED sourceDir
  BY ApplyDoes
<1>3. patched' # "failed"
  <2>1. SUFFICES ASSUME NEW p \in DOMAIN sourceDir, Patch!MkdirFails(targetDir, p) PROVE FALSE
    BY ApplyDoes
  <2>2. PICK q \in Ancestors[p] : q \in DOMAIN targetDir /\ targetDir[q] # "DIR"
    BY <2>1 DEF Patch!MkdirFails
  <2> QED BY <2>2, SourceIsClosed DEF SameKinds, SameKind
<1>4. SameKinds(targetDir, sourceDir)'
  BY <1>2 DEF Grows, SameKinds, SameKind
<1>5. ASSUME NEW p \in DOMAIN ops'
      PROVE  /\ ops'[p] = "link" => \A q \in Ancestors[p] : q \in DOMAIN targetDir' /\ targetDir'[q] = "DIR"
             /\ ops'[p] \in {"replace", "add"} => sourceDir[p] # "DIR"
             /\ ops'[p] \in {"link", "add"} => p \notin DOMAIN targetDir'
  <2>1. ops'[p] # "add" /\
        (ops'[p] = "link" => \A q \in Ancestors[p] : q \in DOMAIN targetDir' /\ targetDir'[q] = "DIR")
    BY ApplyDoes
  <2>2. ASSUME ops'[p] = "replace" PROVE sourceDir[p] # "DIR"
    <3>1. p \in DOMAIN targetDir \cap DOMAIN sourceDir /\ targetDir[p] # sourceDir[p]
      BY <1>1, <2>2, ApplyDoes, ExtendedAre
    <3> QED BY <3>1 DEF SameKinds, SameKind
  <2>3. ASSUME ops'[p] = "link" PROVE p \notin DOMAIN targetDir'
    <3>1. p \in DOMAIN sourceDir /\ sourceDir[p] # "DIR" /\ (p \in DOMAIN targetDir => targetDir[p] = "DIR")
      BY <1>1, <2>3, ApplyDoes, ExtendedAre
    <3>2. \A q \in DOMAIN targetDir' \ DOMAIN targetDir : sourceDir[q] = "DIR"
      BY ApplyDoes
    <3> QED BY <3>1, <3>2 DEF SameKinds, SameKind
  <2> QED BY <2>1, <2>2, <2>3
<1>6. ASSUME NEW p \in DOMAIN ops', ops'[p] = "rm", NEW q \in Ancestors[p]
      PROVE  (q \in DOMAIN sourceDir => sourceDir[q] = "DIR") /\ targetDir'[q] = "DIR"
  <2>1. p \in DOMAIN targetDir
    BY <1>1, <1>6, ApplyDoes, ExtendedAre
  <2> QED BY <1>1, <1>2, <1>6, <2>1 DEF Grows, SameKinds, SameKind
<1> QED BY <1>2, <1>3, <1>4, <1>5, <1>6 DEF NothingInTheWay

LEMMA ApplyKeeps == ASSUME Patch!DirPatcherAssumption, PatchInv, Patch!Apply PROVE PatchInv'
<1>1. Grows("none") /\ UNCHANGED <<sourceDir, before>> /\ DOMAIN ops = {} /\ patched \in {"no", "failed"}
      /\ tries' = tries + 1 /\ patched' \in {"working", "failed"} /\ tries \in Nat
  BY ApplyDoes DEF PatchInv, Patch!PatchTypeOK
<1>2. /\ targetDir \in Patch!Dirs
      /\ DOMAIN Patch!ExtendFilesMap(targetDir) \subseteq DOMAIN targetDir
      /\ \A p \in DOMAIN targetDir : targetDir[p] # "DIR" => p \in DOMAIN Patch!ExtendFilesMap(targetDir)
  BY ExtendedAre DEF PatchInv, Patch!PatchTypeOK
<1>3. Patch!PatchTypeOK' /\ SourceIsExtended'
  <2>1. /\ targetDir' \in Patch!Dirs /\ DOMAIN ops' \subseteq PatchPaths /\ tries' \in 0 .. MaxTries
        /\ \A p \in DOMAIN ops' : ops'[p] \in {"link", "mkdir", "rm", "replace", "add"}
    BY <1>1, ApplyDoes DEF Patch!DirPatcherAssumption, PatchInv, Patch!PatchTypeOK
  <2> QED BY <1>1, <2>1 DEF PatchInv, Patch!PatchTypeOK, SourceIsExtended, Patch!ExtendFilesMap, Patch!Dirs, Patch!Restricted
<1>4. OpsAreNeeded'
  <2>1. ASSUME NEW p \in DOMAIN ops'
        PROVE  /\ ops'[p] = "rm" <=> p \notin DOMAIN sourceDir
               /\ ops'[p] = "link" => sourceDir[p] # "DIR"
               /\ ops'[p] = "mkdir" => sourceDir[p] = "DIR"
    BY ApplyDoes
  <2>2. ASSUME NEW p \in DOMAIN ops', ops'[p] = "replace", sourceDir[p] = "DIR"
        PROVE  p \in DOMAIN targetDir' /\ targetDir'[p] # "DIR"
    BY <1>1, <1>2, <2>2, ApplyDoes DEF Grows
  <2> QED BY <1>1, <2>1, <2>2 DEF OpsAreNeeded
<1>5. RestIsSynced'
  <2>1. ASSUME patched' = "working", NEW p \in DOMAIN sourceDir \ DOMAIN ops'
        PROVE  p \in DOMAIN targetDir' /\ targetDir'[p] = sourceDir[p]
    <3>1. p \in DOMAIN Patch!ExtendFilesMap(targetDir)
      BY <2>1, ApplyDoes
    <3>2. p \in DOMAIN targetDir /\ targetDir[p] = sourceDir[p]
      BY <1>2, <2>1, <3>1, ApplyDoes
    <3> QED BY <1>1, <3>2 DEF Grows
  <2>2. ASSUME NEW p \in DOMAIN targetDir' \ DOMAIN sourceDir, targetDir'[p] # "DIR" PROVE p \in DOMAIN ops'
    <3>1. p \in DOMAIN targetDir /\ targetDir[p] # "DIR"
      BY <1>1, <2>2 DEF Grows
    <3> QED BY <1>2, <2>2, <3>1, ApplyDoes
  <2> QED BY <1>1, <2>1, <2>2 DEF RestIsSynced
<1>6. FirstReplaces'
  <2>1. ASSUME tries' = 1, Patch!ExtendFilesMap(before) = before,
               NEW p \in DOMAIN targetDir' \cap DOMAIN sourceDir,
               ~SameKind(targetDir', sourceDir, p)
        PROVE  p \in DOMAIN ops' /\ ops'[p] = "replace"
    <3>1. Patch!ExtendFilesMap(targetDir) = targetDir
      BY <1>1, <2>1 DEF PatchInv, FirstReplaces
    <3>2. p \in DOMAIN targetDir /\ targetDir[p] # sourceDir[p]
      BY <1>1, <2>1 DEF Grows, SameKind
    <3> QED BY <2>1, <3>1, <3>2, ApplyDoes
  <2>2. tries' # 0 /\ patched' # "no"
    BY <1>1
  <2> QED BY <1>1, <2>1, <2>2 DEF FirstReplaces, SameKind, Patch!ExtendFilesMap, Patch!Restricted
<1>7. SameKinds(before, sourceDir) => NothingInTheWay'
  BY ApplyCalmly DEF PatchInv, NothingInTheWay
<1>8. Patch!ExtendFilesMap(before) = before /\ tries' > 1 => NothingInTheWay'
  <2>1. SUFFICES ASSUME Patch!ExtendFilesMap(before) = before, tries' > 1 PROVE SameKinds(targetDir, sourceDir)
    BY ApplyCalmly
  <2>2. CASE tries = 1
    BY <1>1, <2>1, <2>2 DEF PatchInv, FirstReplaces, SameKinds
  <2>3. CASE tries # 1
    <3>1. tries > 1
      BY <1>1, <2>1, <2>3
    <3> QED BY <2>1, <3>1 DEF PatchInv, NothingInTheWay
  <2> QED BY <2>2, <2>3
<1>9. SameKinds(before, sourceDir)' <=> SameKinds(before, sourceDir)
  BY <1>1 DEF SameKinds, SameKind
<1>10. (Patch!ExtendFilesMap(before) = before)' <=> Patch!ExtendFilesMap(before) = before
  BY <1>1 DEF Patch!ExtendFilesMap, Patch!Restricted
<1> QED BY <1>3, <1>4, <1>5, <1>6, <1>7, <1>8, <1>9, <1>10 DEF PatchInv

\* What the five parts of a patch have in common.
Part(p) ==
  /\ p \in DOMAIN ops /\ UNCHANGED <<sourceDir, before, tries>>
  /\ targetDir' \in Patch!Dirs /\ patched' \in {patched, "failed"}
  /\ \/ Grows(p) /\ ops[p] # "rm" /\ ops[p] # "replace"
     \/ Shrinks(p) /\ ops[p] = "rm" /\ Finishes(p)
     \/ Shrinks(p) /\ ops[p] = "replace" /\ Continues(p, "add")
  /\ \/ Finishes(p)
     \/ Continues(p, "add") /\ ops[p] = "replace"
     \/ Continues(p, "mkdir") /\ ops[p] = "add" /\ sourceDir[p] = "DIR"
     \/ Continues(p, "link") /\ ops[p] = "add" /\ sourceDir[p] # "DIR"
  /\ patched' # "failed" /\ p \notin DOMAIN ops' /\ p \in DOMAIN sourceDir =>
       p \in DOMAIN targetDir' /\ targetDir'[p] = sourceDir[p]

\* An operation that nothing is in the way of.
Succeeds(p) ==
  /\ patched' # "failed"
  /\ p \in DOMAIN ops' /\ ops'[p] = "link" =>
       /\ p \in DOMAIN targetDir' => p \in DOMAIN targetDir
       /\ \A q \in Ancestors[p] : q \in DOMAIN targetDir' /\ targetDir'[q] = "DIR"

Parts(p) ==
  Patch!Mkdir(p) \/ Patch!Link(p) \/ Patch!AddAgain(p) \/ Patch!Rm(p) \/ Patch!RmToReplace(p)

LEMMA PartsAre ==
  ASSUME Patch!DirPatcherAssumption, PatchInv, NEW p \in PatchPaths, Parts(p)
  PROVE  Part(p) /\ (NothingInTheWay => Succeeds(p))
<1>1. p \in DOMAIN ops => p \in DOMAIN sourceDir \/ ops[p] = "rm"
  BY DEF PatchInv, OpsAreNeeded
<1>2. NothingInTheWay => patched # "failed" /\ (p \in DOMAIN sourceDir => ~Patch!MkdirFails(targetDir, p))
  BY SourceIsClosed DEF NothingInTheWay, Patch!MkdirFails, SameKinds, SameKind
<1>3. CASE Patch!Mkdir(p)
  <2>1. p \in DOMAIN sourceDir /\ sourceDir[p] = "DIR" /\ p \notin DOMAIN ops'
    BY <1>1, <1>3, MkdirDoes DEF Does, PatchInv, OpsAreNeeded, Finishes
  <2>2. Part(p)
    BY <1>3, <2>1, MkdirDoes DEF Part, Does
  <2>3. NothingInTheWay => patched' # "failed"
    BY <1>2, <1>3, <2>1, MkdirDoes DEF NothingInTheWay, SameKinds, SameKind
  <2> QED BY <2>1, <2>2, <2>3 DEF Succeeds
<1>4. CASE Patch!Link(p)
  <2>1. p \notin DOMAIN ops'
    BY <1>4, LinkDoes DEF Finishes
  <2>2. Part(p)
    BY <1>4, <2>1, LinkDoes DEF Part, Does
  <2>3. NothingInTheWay => patched' # "failed"
    BY <1>2, <1>4, LinkDoes DEF Does, NothingInTheWay
  <2> QED BY <2>1, <2>2, <2>3 DEF Succeeds
<1>5. CASE Patch!AddAgain(p)
  <2>1. p \in DOMAIN sourceDir
    BY <1>1, <1>5, AddAgainDoes DEF Does
  <2>2. Part(p)
    <3>1. p \in DOMAIN ops /\ ops[p] = "add" /\ UNCHANGED <<sourceDir, before, tries>>
          /\ targetDir' \in Patch!Dirs /\ patched' \in {patched, "failed"} /\ Grows(p)
      BY <1>5, AddAgainDoes DEF Does
    <3>2. \/ Finishes(p)
          \/ Continues(p, "mkdir") /\ sourceDir[p] = "DIR"
          \/ Continues(p, "link") /\ sourceDir[p] # "DIR"
      BY <1>5, AddAgainDoes
    <3>3. p \in DOMAIN ops' \/ patched' = "failed"
      BY <1>5, AddAgainDoes DEF Does, Continues
    <3> QED BY <3>1, <3>2, <3>3 DEF Part
  <2>3. NothingInTheWay => Succeeds(p)
    BY <1>2, <1>5, <2>1, AddAgainDoes DEF Succeeds, Continues, Does
  <2> QED BY <2>2, <2>3
<1>6. CASE Patch!Rm(p)
  <2>1. p \notin DOMAIN sourceDir /\ p \notin DOMAIN ops'
    BY <1>6, RmDoes DEF Does, PatchInv, OpsAreNeeded, Finishes
  <2>2. Part(p)
    BY <1>6, <2>1, RmDoes DEF Part, Does
  <2>3. NothingInTheWay => patched' # "failed"
    BY <1>2, <1>6, RmDoes DEF Does, NothingInTheWay, Patch!MkdirFails
  <2> QED BY <2>1, <2>2, <2>3 DEF Succeeds
<1>7. CASE Patch!RmToReplace(p)
  <2>1. p \in DOMAIN ops' /\ ops'[p] = "add"
    BY <1>7, RmToReplaceDoes DEF Does, Continues
  <2>2. Part(p)
    BY <1>7, <2>1, RmToReplaceDoes DEF Part, Does
  <2> QED BY <1>2, <1>7, <2>1, <2>2, RmToReplaceDoes DEF Succeeds
<1> QED BY <1>3, <1>4, <1>5, <1>6, <1>7 DEF Parts

LEMMA PartKeeps ==
  ASSUME Patch!DirPatcherAssumption, PatchInv, NEW p \in PatchPaths, Parts(p)
  PROVE  PatchInv'
<1>1. Part(p) /\ (NothingInTheWay => Succeeds(p))
  BY PartsAre
<1>2. p \in DOMAIN ops /\ UNCHANGED <<sourceDir, before, tries>> /\ patched' \in {patched, "failed"}
  BY <1>1 DEF Part
<1>3. patched \in {"working", "failed"} /\ tries # 0 /\ p \in PatchPaths
  BY <1>2 DEF PatchInv, Patch!PatchTypeOK, OpsAreNeeded, FirstReplaces
<1>4. /\ DOMAIN ops \ {p} \subseteq DOMAIN ops' /\ DOMAIN ops' \subseteq DOMAIN ops
      /\ \A q \in DOMAIN ops' \ {p} : ops'[q] = ops[q]
      /\ p \in DOMAIN ops' => \/ ops'[p] = "add" /\ ops[p] = "replace"
                              \/ ops'[p] = "mkdir" /\ ops[p] = "add" /\ sourceDir[p] = "DIR"
                              \/ ops'[p] = "link" /\ ops[p] = "add" /\ sourceDir[p] # "DIR"
  BY <1>1 DEF Part, Finishes, Continues
<1>5. \/ Grows(p) /\ ops[p] # "rm" /\ ops[p] # "replace"
      \/ Shrinks(p) /\ ops[p] \in {"rm", "replace"}
  BY <1>1 DEF Part
<1>6. Patch!PatchTypeOK' /\ SourceIsExtended'
  <2>1. /\ targetDir' \in Patch!Dirs /\ DOMAIN ops' \subseteq PatchPaths
        /\ \A q \in DOMAIN ops' : ops'[q] \in {"link", "mkdir", "rm", "replace", "add"}
    BY <1>1, <1>4 DEF Part, PatchInv, Patch!PatchTypeOK
  <2> QED BY <1>2, <1>3, <2>1 DEF PatchInv, Patch!PatchTypeOK, SourceIsExtended, Patch!ExtendFilesMap, Patch!Dirs,
             Patch!Restricted
\* What is in the way of no removal stays.
<1>7. ASSUME NEW q \in DOMAIN targetDir, q # p, q \in DOMAIN sourceDir
      PROVE  q \in DOMAIN targetDir' /\ targetDir'[q] = targetDir[q]
  <2>1. CASE Grows(p)
    BY <1>7, <2>1 DEF Grows
  <2>2. CASE Shrinks(p) /\ ops[p] \in {"rm", "replace"}
    <3>1. p \notin Ancestors[q]
      BY <1>2, <1>7, <2>2, RemovesAlone
    <3> QED BY <1>7, <2>2, <3>1 DEF Shrinks
  <2> QED BY <1>5, <2>1, <2>2
<1>8. \A q \in DOMAIN targetDir' : \/ q \in DOMAIN targetDir /\ targetDir'[q] = targetDir[q]
                                   \/ q \in DOMAIN sourceDir /\ targetDir'[q] = sourceDir[q]
                                      /\ (q = p \/ sourceDir[q] = "DIR") /\ Grows(p)
  BY <1>5 DEF Grows, Shrinks
<1>9. OpsAreNeeded'
  <2>1. ASSUME NEW q \in DOMAIN ops'
        PROVE  /\ ops'[q] = "rm" <=> q \notin DOMAIN sourceDir
               /\ ops'[q] = "link" => sourceDir[q] # "DIR"
               /\ ops'[q] = "mkdir" => sourceDir[q] = "DIR"
    BY <1>2, <1>4 DEF PatchInv, OpsAreNeeded
  <2>2. ASSUME NEW q \in DOMAIN ops', ops'[q] = "replace", sourceDir[q] = "DIR"
        PROVE  q \in DOMAIN targetDir' /\ targetDir'[q] # "DIR"
    <3>1. q # p /\ q \in DOMAIN ops /\ ops[q] = "replace"
      BY <1>4, <2>2
    <3>2. q \in DOMAIN targetDir /\ targetDir[q] # "DIR" /\ q \in DOMAIN sourceDir
      BY <2>2, <3>1 DEF PatchInv, OpsAreNeeded
    <3> QED BY <1>7, <3>1, <3>2
  <2>3. patched' \notin {"no", "ok"}
    BY <1>2, <1>3
  <2> QED BY <1>2, <2>1, <2>2, <2>3 DEF OpsAreNeeded
<1>10. RestIsSynced'
  <2>1. SUFFICES ASSUME patched' = "working", patched = "working" PROVE RestIsSynced'
    BY <1>2, <1>3 DEF RestIsSynced
  <2>2. ASSUME NEW q \in DOMAIN sourceDir \ DOMAIN ops'
        PROVE  q \in DOMAIN targetDir' /\ targetDir'[q] = sourceDir[q]
    <3>1. CASE q = p
      BY <1>1, <2>1, <2>2, <3>1 DEF Part
    <3>2. CASE q # p
      <4>1. q \in DOMAIN targetDir /\ targetDir[q] = sourceDir[q]
        BY <1>4, <2>1, <2>2, <3>2 DEF PatchInv, RestIsSynced
      <4> QED BY <1>7, <2>2, <3>2, <4>1
    <3> QED BY <3>1, <3>2
  <2>3. ASSUME NEW q \in DOMAIN targetDir' \ DOMAIN sourceDir, targetDir'[q] # "DIR" PROVE q \in DOMAIN ops'
    <3>1. q \in DOMAIN targetDir /\ targetDir[q] # "DIR"
      BY <1>8, <2>3
    <3>2. q \in DOMAIN ops
      BY <2>1, <2>3, <3>1 DEF PatchInv, RestIsSynced
    <3>3. q # p
      <4>1. SUFFICES ASSUME q = p PROVE FALSE
        OBVIOUS
      <4>2. ops[p] = "rm"
        BY <1>2, <2>3, <4>1 DEF PatchInv, OpsAreNeeded
      <4> QED BY <1>5, <2>3, <4>1, <4>2 DEF Shrinks
    <3> QED BY <1>4, <3>2, <3>3
  <2> QED BY <1>2, <2>2, <2>3 DEF RestIsSynced
<1>11. FirstReplaces'
  <2>1. ASSUME tries = 1, Patch!ExtendFilesMap(before) = before,
               NEW q \in DOMAIN targetDir' \cap DOMAIN sourceDir, ~SameKind(targetDir', sourceDir, q)
        PROVE  q \in DOMAIN ops' /\ ops'[q] = "replace"
    <3>1. q \in DOMAIN targetDir /\ targetDir'[q] = targetDir[q]
      BY <1>8, <2>1 DEF SameKind
    <3>2. q \in DOMAIN ops /\ ops[q] = "replace"
      BY <2>1, <3>1 DEF PatchInv, FirstReplaces, SameKind
    <3>3. q # p
      BY <1>5, <2>1, <3>2 DEF Shrinks
    <3> QED BY <1>4, <3>2, <3>3
  <2>2. tries' # 0 /\ patched' # "no"
    BY <1>2, <1>3
  <2> QED BY <1>2, <2>1, <2>2 DEF FirstReplaces, SameKind, Patch!ExtendFilesMap, Patch!Restricted
<1>12. NothingInTheWay => NothingInTheWay'
  <2>1. SUFFICES ASSUME NothingInTheWay PROVE NothingInTheWay'
    OBVIOUS
  <2>2. Succeeds(p) /\ SameKinds(targetDir, sourceDir)
    BY <1>1, <2>1 DEF NothingInTheWay
  <2>3. SameKinds(targetDir', sourceDir)
    BY <1>8, <2>2 DEF SameKinds, SameKind
  <2>4. ASSUME NEW q \in DOMAIN ops', ops'[q] = "link", NEW r \in Ancestors[q]
        PROVE  r \in DOMAIN targetDir' /\ targetDir'[r] = "DIR"
    <3>1. CASE q = p
      BY <2>2, <2>4, <3>1 DEF Succeeds
    <3>2. CASE q # p
      <4>1. q \in DOMAIN ops /\ ops[q] = "link" /\ q \in DOMAIN sourceDir
        BY <1>4, <2>4, <3>2 DEF PatchInv, OpsAreNeeded
      <4>2. r \in DOMAIN targetDir /\ targetDir[r] = "DIR" /\ r \in DOMAIN sourceDir /\ sourceDir[r] = "DIR"
        BY <2>1, <2>4, <4>1, SourceIsClosed DEF NothingInTheWay
      <4>3. CASE r # p
        BY <1>7, <4>2, <4>3
      <4>4. CASE r = p
        <5>1. ops[p] # "rm" /\ ops[p] # "replace"
          BY <1>2, <2>1, <4>2, <4>4 DEF PatchInv, OpsAreNeeded, NothingInTheWay
        <5> QED BY <1>5, <4>2, <4>4, <5>1 DEF Grows
      <4> QED BY <4>3, <4>4
    <3> QED BY <3>1, <3>2
  <2>5. \A q \in DOMAIN ops' : ops'[q] \in {"replace", "add"} => sourceDir[q] # "DIR"
    BY <1>2, <1>4, <2>1 DEF NothingInTheWay
  <2>6. ASSUME NEW q \in DOMAIN ops', ops'[q] \in {"link", "add"} PROVE q \notin DOMAIN targetDir'
    <3>1. CASE q = p
      <4>1. CASE ops'[p] = "link"
        BY <1>4, <2>1, <2>2, <2>6, <3>1, <4>1 DEF NothingInTheWay, Succeeds
      <4>2. CASE ops'[p] = "add"
        BY <1>4, <1>5, <2>6, <3>1, <4>2 DEF Shrinks
      <4> QED BY <2>6, <3>1, <4>1, <4>2
    <3>2. CASE q # p
      <4>1. q \in DOMAIN ops /\ ops'[q] = ops[q]
        BY <1>4, <2>6, <3>2
      <4>2. q \notin DOMAIN targetDir /\ sourceDir[q] # "DIR"
        BY <2>1, <2>6, <4>1 DEF NothingInTheWay, PatchInv, OpsAreNeeded
      <4> QED BY <1>8, <3>2, <4>2
    <3> QED BY <3>1, <3>2
  <2>7. ASSUME NEW q \in DOMAIN ops', ops'[q] = "rm", NEW r \in Ancestors[q]
        PROVE  (r \in DOMAIN sourceDir => sourceDir[r] = "DIR") /\ (r \in DOMAIN targetDir' => targetDir'[r] = "DIR")
    <3>1. q \in DOMAIN ops /\ ops[q] = "rm"
      BY <1>4, <2>7
    <3>2. (r \in DOMAIN sourceDir => sourceDir[r] = "DIR") /\ (r \in DOMAIN targetDir => targetDir[r] = "DIR")
      BY <2>1, <2>7, <3>1 DEF NothingInTheWay
    <3> QED BY <1>8, <3>2
  <2>8. patched' # "failed"
    BY <2>2 DEF Succeeds
  <2> QED BY <1>2, <2>3, <2>4, <2>5, <2>6, <2>7, <2>8 DEF NothingInTheWay, SameKinds, SameKind
<1>13. SameKinds(before, sourceDir)' <=> SameKinds(before, sourceDir)
  BY <1>2 DEF SameKinds, SameKind
<1>14. (Patch!ExtendFilesMap(before) = before)' <=> Patch!ExtendFilesMap(before) = before
  BY <1>2 DEF Patch!ExtendFilesMap, Patch!Restricted
<1>15. SameKinds(before, sourceDir) => NothingInTheWay'
  BY <1>12 DEF PatchInv
<1>16. Patch!ExtendFilesMap(before) = before /\ tries' > 1 => NothingInTheWay'
  BY <1>2, <1>12 DEF PatchInv
<1> QED BY <1>6, <1>9, <1>10, <1>11, <1>13, <1>14, <1>15, <1>16 DEF PatchInv

LEMMA AppliedKeeps == ASSUME PatchInv, Patch!Applied PROVE PatchInv'
<1>1. /\ DOMAIN ops = {} /\ patched = "working" /\ patched' = "ok"
      /\ UNCHANGED <<sourceDir, targetDir, before, ops, tries>>
  BY DEF Patch!Applied
<1>2. Patch!PatchTypeOK' /\ SourceIsExtended'
  BY <1>1 DEF PatchInv, Patch!PatchTypeOK, SourceIsExtended, Patch!ExtendFilesMap, Patch!Dirs, Patch!Restricted
<1>3. OpsAreNeeded' /\ RestIsSynced'
  BY <1>1 DEF PatchInv, OpsAreNeeded, RestIsSynced
<1>4. FirstReplaces'
  BY <1>1 DEF PatchInv, FirstReplaces, SameKind, Patch!ExtendFilesMap, Patch!Restricted
<1>5. NothingInTheWay => NothingInTheWay'
  BY <1>1 DEF NothingInTheWay, SameKinds, SameKind
<1>6. SameKinds(before, sourceDir)' => NothingInTheWay'
  BY <1>1, <1>5 DEF PatchInv, SameKinds, SameKind
<1>7. (Patch!ExtendFilesMap(before) = before)' /\ tries' > 1 => NothingInTheWay'
  BY <1>1, <1>5 DEF PatchInv, Patch!ExtendFilesMap, Patch!Restricted
<1> QED BY <1>2, <1>3, <1>4, <1>6, <1>7 DEF PatchInv

LEMMA PatchStays == ASSUME PatchInv, UNCHANGED Patch!patchVars PROVE PatchInv'
BY DEF PatchInv, Patch!patchVars, Patch!PatchTypeOK, SourceIsExtended, Patch!ExtendFilesMap, Patch!Dirs,
       Patch!Restricted, OpsAreNeeded, RestIsSynced, FirstReplaces, SameKinds, SameKind, NothingInTheWay

LEMMA PatchInvariant == ASSUME Patch!DirPatcherAssumption PROVE Patch!Spec => []PatchInv
<1>1. ASSUME PatchInv, [Patch!Next]_(Patch!patchVars) PROVE PatchInv'
  <2>1. CASE Patch!Apply
    BY <1>1, <2>1, ApplyKeeps
  <2>2. ASSUME NEW p \in PatchPaths, Parts(p) PROVE PatchInv'
    BY <1>1, <2>2, PartKeeps
  <2>3. CASE Patch!Applied
    BY <1>1, <2>3, AppliedKeeps
  <2>4. CASE UNCHANGED Patch!patchVars
    BY <1>1, <2>4, PatchStays
  <2> QED BY <1>1, <2>1, <2>2, <2>3, <2>4 DEF Patch!Next, Patch!Step, Patch!AtEnd, Parts
<1> QED BY <1>1, PatchStarts, PTL DEF Patch!Spec

\* Both directories stay trees, and an operation is left for paths only.
THEOREM PatchTypeCorrect == ASSUME Patch!DirPatcherAssumption PROVE Patch!Spec => []Patch!PatchTypeOK
<1>1. PatchInv => Patch!PatchTypeOK
  BY DEF PatchInv
<1> QED BY <1>1, PatchInvariant, PTL

\* In whatever order the parts of a patch are done, one that ends well leaves the
\* files of the package and no others.
THEOREM SyncsToSource == ASSUME Patch!DirPatcherAssumption PROVE Patch!Spec => []Patch!SyncedIsSource
<1>1. ASSUME PatchInv, patched = "ok" PROVE Patch!ExtendFilesMap(targetDir) = sourceDir
  <2> DEFINE t == Patch!ExtendFilesMap(targetDir)
  <2>1. DOMAIN ops = {} /\ targetDir \in Patch!Dirs /\ sourceDir \in Patch!Dirs
        /\ Patch!ExtendFilesMap(sourceDir) = sourceDir
    BY <1>1 DEF PatchInv, OpsAreNeeded, Patch!PatchTypeOK, SourceIsExtended
  <2>2. /\ \A p \in DOMAIN sourceDir : p \in DOMAIN targetDir /\ targetDir[p] = sourceDir[p]
        /\ \A p \in DOMAIN targetDir \ DOMAIN sourceDir : targetDir[p] = "DIR"
    BY <1>1, <2>1 DEF PatchInv, RestIsSynced
  <2>3. /\ DOMAIN t \subseteq DOMAIN targetDir /\ \A p \in DOMAIN t : t[p] = targetDir[p]
        /\ \A p \in DOMAIN targetDir : p \in DOMAIN t <=>
             targetDir[p] # "DIR" \/ \E q \in DOMAIN targetDir : targetDir[q] # "DIR" /\ p \in Ancestors[q]
    BY <2>1, ExtendedAre
  <2>4. \A p \in DOMAIN sourceDir :
          sourceDir[p] # "DIR" \/ \E q \in DOMAIN sourceDir : sourceDir[q] # "DIR" /\ p \in Ancestors[q]
    <3>1. LET e == Patch!ExtendFilesMap(sourceDir)
          IN  \A p \in DOMAIN sourceDir : p \in DOMAIN e <=>
                sourceDir[p] # "DIR" \/ \E q \in DOMAIN sourceDir : sourceDir[q] # "DIR" /\ p \in Ancestors[q]
      BY <2>1, ExtendedAre
    <3> QED BY <2>1, <3>1
  <2>5. t = [p \in DOMAIN t |-> t[p]] /\ sourceDir = [p \in DOMAIN sourceDir |-> sourceDir[p]]
    BY <2>1, DirsAre DEF Patch!ExtendFilesMap, Patch!Restricted
  <2> HIDE DEF t
  <2>6. DOMAIN sourceDir \subseteq DOMAIN t
    BY <2>2, <2>3, <2>4
  <2>7. ASSUME NEW p \in DOMAIN t PROVE p \in DOMAIN sourceDir
    <3>1. CASE targetDir[p] # "DIR"
      BY <2>2, <2>3, <2>7, <3>1
    <3>2. CASE \E q \in DOMAIN targetDir : targetDir[q] # "DIR" /\ p \in Ancestors[q]
      <4>1. PICK q \in DOMAIN targetDir : targetDir[q] # "DIR" /\ p \in Ancestors[q]
        BY <3>2
      <4>2. q \in DOMAIN sourceDir
        BY <2>2, <4>1
      <4> QED BY <1>1, <4>1, <4>2, SourceIsClosed
    <3> QED BY <2>3, <2>7, <3>1, <3>2
  <2>8. DOMAIN t = DOMAIN sourceDir /\ \A p \in DOMAIN t : t[p] = sourceDir[p]
    BY <2>2, <2>3, <2>6, <2>7
  <2> QED BY <2>5, <2>8 DEF t
<1>2. PatchInv => Patch!SyncedIsSource
  BY <1>1 DEF Patch!SyncedIsSource
<1> QED BY <1>2, PatchInvariant, PTL

\* No order of its parts makes a patch fail where files stay files and
\* directories stay directories.
THEOREM SameKindsPatch == ASSUME Patch!DirPatcherAssumption PROVE Patch!Spec => []Patch!SameKindsSucceed
<1>1. PatchInv => Patch!SameKindsSucceed
  BY DEF PatchInv, NothingInTheWay, SameKinds, SameKind, Patch!SameKindsSucceed
<1> QED BY <1>1, PatchInvariant, PTL

\* The patch after one that failed ends well, unless the copy had empty
\* directories.
THEOREM NextOnesPatch == ASSUME Patch!DirPatcherAssumption PROVE Patch!Spec => []Patch!NextOneSucceeds
<1>1. PatchInv => Patch!NextOneSucceeds
  BY DEF PatchInv, NothingInTheWay, Patch!NextOneSucceeds
<1> QED BY <1>1, PatchInvariant, PTL

-----------------------------------------------------------------------------
\* Git-hosted packages

\* How far the scripts of an install have come at each of its stages.
TreesAreTrue ==
  \A i \in GitInstalls :
    /\ git[i] = "prepare" => tree[i] = "raw"
    /\ git[i] = "scripts" => pkg.needsScripts /\ ~ignore[i]
    /\ git[i] \in {"pack", "add"} =>
         tree[i] = IF pkg.needsScripts /\ ~ignore[i] THEN "prepared" ELSE "raw"

\* What an index file holds, and who was given something: an install that is
\* done is not run again, so that its --ignore-scripts is what it was.
StoredIsTrue ==
  /\ Git!IndexesAreTrue
  /\ \A x \in Git!IndexFiles : \A c \in index[x] : Git!Published(c)
  /\ \A i \in GitInstalls : got[i] # {} => git[i] = "done"
  /\ Git!GotWhatWasAsked

\* (The typing of index and got as sets of records is not needed: what they
\* hold is said by StoredIsTrue.)
GitTypes ==
  /\ pkg \in [needsScripts : BOOLEAN, packsLess : BOOLEAN, subDir : BOOLEAN]
  /\ ignore \in [GitInstalls -> BOOLEAN] /\ cloned \in [GitInstalls -> BOOLEAN]
  /\ git \in [GitInstalls -> {"look", "fetch", "prepare", "scripts", "pack", "add", "done", "failed"}]
  /\ tree \in [GitInstalls -> {"raw", "half", "prepared"}]
  /\ index \in [Git!IndexFiles -> SUBSET Git!Contents]
  /\ got \in [GitInstalls -> SUBSET Git!Contents]

GitInv == GitTypes /\ TreesAreTrue /\ StoredIsTrue

LEMMA GitStarts == ASSUME Git!Init PROVE GitInv
BY DEF Git!Init, GitInv, GitTypes, TreesAreTrue, StoredIsTrue, Git!IndexFiles, Git!IndexesAreTrue,
       Git!GotWhatWasAsked

\* Contents that suit an install: as prepared as its --ignore-scripts asks for,
\* and what would be published.
Suits(i, c) ==
  /\ c \in Git!Contents
  /\ IF ignore[i] THEN c.tree = "raw" ELSE Git!Prepared(c)
  /\ Git!Published(c)

LEMMA IndexSuits ==
  ASSUME GitInv, NEW i \in GitInstalls, NEW c \in index[Git!IndexFile(i)]
  PROVE  Suits(i, c)
BY DEF GitInv, GitTypes, StoredIsTrue, Suits, Git!IndexesAreTrue, Git!IndexFile, Git!IndexFiles

\* An install that ends with contents that suit it, and may have stored them.
LEMMA EndsKeeps ==
  ASSUME GitInv, NEW i \in GitInstalls, NEW C \in SUBSET Git!Contents, Git!Ends(i, C),
         \A c \in C : Suits(i, c),
         index' = index \/ index' = [index EXCEPT ![Git!IndexFile(i)] = C],
         UNCHANGED <<pkg, ignore, cloned, tree, gitFaults>>
  PROVE  GitInv'
<1> USE DEF GitInv, GitTypes, Git!Ends
<1>1. Git!IndexFile(i) \in Git!IndexFiles
  BY DEF Git!IndexFile, Git!IndexFiles
<1>2. GitTypes'
  BY <1>1
<1>3. TreesAreTrue'
  BY DEF TreesAreTrue
<1>4. Git!IndexesAreTrue'
  BY <1>1 DEF StoredIsTrue, Git!IndexesAreTrue, Git!IndexFile, Git!IndexFiles, Git!Prepared, Suits
<1>5. (\A x \in Git!IndexFiles : \A c \in index[x] : Git!Published(c))'
  BY <1>1 DEF StoredIsTrue, Git!Published, Suits
<1>6. (\A j \in GitInstalls : got[j] # {} => git[j] = "done")'
  BY DEF StoredIsTrue
<1>7. Git!GotWhatWasAsked'
  BY DEF StoredIsTrue, Git!GotWhatWasAsked, Git!Prepared, Git!Published, Suits
<1> QED BY <1>2, <1>3, <1>4, <1>5, <1>6, <1>7 DEF StoredIsTrue

\* Steps that store nothing and give nothing.
LEMMA OthersKeep ==
  ASSUME GitInv, NEW i \in GitInstalls,
         GitTypes', TreesAreTrue',
         UNCHANGED <<pkg, index, got>>,
         git[i] # "done", \A j \in GitInstalls \ {i} : git'[j] = git[j] /\ ignore'[j] = ignore[j]
  PROVE  GitInv'
<1> USE DEF GitInv, GitTypes
<1>1. Git!IndexesAreTrue'
  BY DEF StoredIsTrue, Git!IndexesAreTrue, Git!Prepared
<1>2. (\A x \in Git!IndexFiles : \A c \in index[x] : Git!Published(c))'
  BY DEF StoredIsTrue, Git!Published
<1>3. got[i] = {}
  BY DEF StoredIsTrue
<1>4. (\A j \in GitInstalls : got[j] # {} => git[j] = "done")'
  BY <1>3 DEF StoredIsTrue
<1>5. Git!GotWhatWasAsked'
  BY <1>3 DEF StoredIsTrue, Git!GotWhatWasAsked, Git!Prepared, Git!Published
<1> QED BY <1>1, <1>2, <1>4, <1>5 DEF StoredIsTrue

LEMMA LookKeeps == ASSUME GitInv, NEW i \in GitInstalls, Git!Look(i) PROVE GitInv'
<1> USE DEF Git!Look
<1>1. CASE index[Git!IndexFile(i)] # {}
  <2>1. index[Git!IndexFile(i)] \in SUBSET Git!Contents
    BY DEF GitInv, GitTypes, Git!IndexFile, Git!IndexFiles
  <2> QED BY <1>1, <2>1, IndexSuits, EndsKeeps
<1>2. CASE index[Git!IndexFile(i)] = {}
  <2>1. GitTypes' /\ TreesAreTrue'
    BY <1>2 DEF GitInv, GitTypes, TreesAreTrue
  <2>2. \A j \in GitInstalls \ {i} : git'[j] = git[j] /\ ignore'[j] = ignore[j]
    BY <1>2 DEF GitInv, GitTypes
  <2> QED BY <1>2, <2>1, <2>2, OthersKeep
<1> QED BY <1>1, <1>2

LEMMA StagesKeep ==
  ASSUME GitInv, NEW i \in GitInstalls,
         \/ Git!Fetch(i) \/ Git!Prepare(i) \/ Git!ScriptsEnd(i) \/ Git!Fail(i) \/ Git!Again(i)
  PROVE  GitInv'
<1> USE DEF Git!Fetch, Git!Prepare, Git!ScriptsEnd, Git!Fail, Git!Again
<1>1. GitTypes'
  BY DEF GitInv, GitTypes
<1>2. TreesAreTrue'
  BY DEF GitInv, GitTypes, TreesAreTrue
<1>3. \A j \in GitInstalls \ {i} : git'[j] = git[j] /\ ignore'[j] = ignore[j]
  BY DEF GitInv, GitTypes
<1>4. git[i] # "done" /\ UNCHANGED <<pkg, index, got>>
  OBVIOUS
<1> QED BY <1>1, <1>2, <1>3, <1>4, OthersKeep

LEMMA PackKeeps == ASSUME GitInv, NEW i \in GitInstalls, Git!Pack(i) PROVE GitInv'
<1> USE DEF Git!Pack
<1> DEFINE all == [files |-> "all", tree |-> "raw"]
<1>1. PICK n \in BOOLEAN :
        \/ /\ Git!KeepsTarball(i, Git!SameFiles(i, n))
           /\ index' = [index EXCEPT ![Git!IndexFile(i)] = {all}]
           /\ Git!Ends(i, {all})
        \/ /\ Git!SameFiles(i, n) /\ ignore[i]
           /\ Git!Ends(i, {all}) /\ UNCHANGED index
        \/ git' = [git EXCEPT ![i] = "add"] /\ UNCHANGED <<index, got>>
  OBVIOUS
<1>2. {all} \in SUBSET Git!Contents
  BY DEF Git!Contents
<1>3. all.files = "all" /\ all.tree = "raw"
  OBVIOUS
<1>4. tree[i] = IF pkg.needsScripts /\ ~ignore[i] THEN "prepared" ELSE "raw"
  BY DEF GitInv, TreesAreTrue
<1>5. ASSUME Git!KeepsTarball(i, Git!SameFiles(i, n)) \/ (Git!SameFiles(i, n) /\ ignore[i])
      PROVE  Suits(i, all)
  BY <1>2, <1>3, <1>4, <1>5
  DEF Suits, Git!KeepsTarball, Git!SameFiles, Git!Prepared, Git!Published, GitInv, GitTypes
<1> HIDE DEF all
<1>6. UNCHANGED <<pkg, ignore, cloned, tree, gitFaults>> /\ git[i] = "pack"
  OBVIOUS
<1>7. CASE Git!Ends(i, {all})
  <2>1. Suits(i, all)
    <3>1. CASE git' = [git EXCEPT ![i] = "add"]
      BY <1>7, <3>1 DEF Git!Ends, GitInv, GitTypes
    <3> QED BY <1>1, <1>5, <3>1
  <2>2. index' = index \/ index' = [index EXCEPT ![Git!IndexFile(i)] = {all}]
    BY <1>1
  <2>3. \A c \in {all} : Suits(i, c)
    BY <2>1
  <2> QED BY <1>2, <1>6, <1>7, <2>2, <2>3, EndsKeeps
<1>8. CASE git' = [git EXCEPT ![i] = "add"] /\ UNCHANGED <<index, got>>
  <2>1. GitTypes' /\ TreesAreTrue'
    BY <1>6, <1>8 DEF GitInv, GitTypes, TreesAreTrue
  <2>2. \A j \in GitInstalls \ {i} : git'[j] = git[j] /\ ignore'[j] = ignore[j]
    BY <1>6, <1>8 DEF GitInv, GitTypes
  <2> QED BY <1>6, <1>8, <2>1, <2>2, OthersKeep
<1> QED BY <1>1, <1>7, <1>8

LEMMA AddFilesKeeps == ASSUME GitInv, NEW i \in GitInstalls, Git!AddFiles(i) PROVE GitInv'
<1> USE DEF Git!AddFiles
<1> DEFINE packed == [files |-> "packed", tree |-> tree[i]]
<1>1. {packed} \in SUBSET Git!Contents
  BY DEF Git!Contents, GitInv, GitTypes
<1>2. \A c \in {packed} : Suits(i, c)
  BY <1>1 DEF Suits, GitInv, GitTypes, TreesAreTrue, Git!Prepared, Git!Published
<1> QED BY <1>1, <1>2, EndsKeeps

LEMMA GitInvariant == Git!SafetySpec => []GitInv
<1>1. Git!Init => GitInv
  BY GitStarts
<1>2. GitInv /\ [Git!Next]_(Git!gitVars) => GitInv'
  <2> SUFFICES ASSUME GitInv, [Git!Next]_(Git!gitVars) PROVE GitInv'
    OBVIOUS
  <2>1. CASE UNCHANGED Git!gitVars
    BY <2>1 DEF GitInv, Git!gitVars, GitTypes, TreesAreTrue, StoredIsTrue, Git!IndexesAreTrue,
                Git!GotWhatWasAsked, Git!Prepared, Git!Published
  <2> QED BY <2>1, LookKeeps, StagesKeep, PackKeeps, AddFilesKeeps DEF Git!Next, Git!Step, Git!Over
<1> QED BY <1>1, <1>2, PTL DEF Git!SafetySpec

LEMMA FaultsAreCounted ==
  ASSUME Git!GitAssumption, gitFaults \in 0..MaxGitFaults, [Git!Next]_(Git!gitVars)
  PROVE  gitFaults' \in 0..MaxGitFaults
<1>1. ASSUME NEW i \in GitInstalls, Git!Fail(i) \/ Git!Again(i) PROVE gitFaults' \in 0..MaxGitFaults
  BY <1>1 DEF Git!Fail, Git!Again, Git!GitAssumption
<1>2. ASSUME NEW i \in GitInstalls, \/ Git!Look(i) \/ Git!Fetch(i) \/ Git!Prepare(i) \/ Git!ScriptsEnd(i)
                                    \/ Git!Pack(i) \/ Git!AddFiles(i)
      PROVE  gitFaults' = gitFaults
  BY <1>2 DEF Git!Look, Git!Fetch, Git!Prepare, Git!ScriptsEnd, Git!Pack, Git!AddFiles
<1>3. CASE UNCHANGED Git!gitVars
  BY <1>3 DEF Git!gitVars
<1> QED BY <1>1, <1>2, <1>3 DEF Git!Next, Git!Step, Git!Over

\* The states of installs of a git-hosted package are what they should be.
THEOREM GitTypeCorrect == ASSUME Git!GitAssumption PROVE Git!SafetySpec => []Git!GitTypeOK
<1> DEFINE Counted == gitFaults \in 0..MaxGitFaults
<1>1. Git!Init => Counted
  BY DEF Git!Init, Git!GitAssumption
<1>2. Counted /\ [Git!Next]_(Git!gitVars) => Counted'
  BY FaultsAreCounted
<1>3. GitInv /\ Counted => Git!GitTypeOK
  BY DEF GitInv, GitTypes, Git!GitTypeOK
<1> HIDE DEF Counted
<1> QED BY <1>1, <1>2, <1>3, GitInvariant, PTL DEF Git!SafetySpec

\* The two index files of a git-hosted package are never confused, through
\* failures, crashes, repeated installs and any overlap of installs that ignore
\* scripts and installs that do not.
THEOREM IndexesStayTrue == Git!SafetySpec => []Git!IndexesAreTrue
<1>1. GitInv => Git!IndexesAreTrue
  BY DEF GitInv, StoredIsTrue
<1> QED BY <1>1, GitInvariant, PTL

\* An install gets a git-hosted package in the state its own --ignore-scripts
\* asks for, and the files that would be published of it.
THEOREM InstallsGetWhatTheyAsk == Git!SafetySpec => []Git!GotWhatWasAsked
<1>1. GitInv => Git!GotWhatWasAsked
  BY DEF GitInv, StoredIsTrue
<1> QED BY <1>1, GitInvariant, PTL

-----------------------------------------------------------------------------
\* The metadata cache

Ops == [op : {"load", "save"}, r : MetaRequests, meta : Meta!Metas]
Queue == limiter.queue

MetaTypes ==
  /\ mode \in {"online", "preferOffline", "offline"}
  /\ start \in 1..LastVersion /\ now \in start..LastVersion
  /\ metaCache \in Meta!Metas /\ mirror \in Meta!Metas
  /\ limiter \in [count : Int, queue : Seq(Ops)]
  /\ stageOf \in [MetaRequests -> Meta!Stages \cup {"new", "fetch", "sent", "fallback", "done", "failed"}]
  /\ readFor \in [MetaRequests -> Meta!Stages \cup {"new"}]
  /\ cached \in [MetaRequests -> Meta!Metas] /\ used \in [MetaRequests -> Meta!Metas]
  /\ fellBack \subseteq MetaRequests /\ unsaved \in BOOLEAN

\* ReadsMirror, of a stage.
Reads(inMode, stg, r) ==
  CASE stg = "offline" -> inMode # "online"
    [] stg = "version" -> MetaWanted[r].type = "version"
    [] stg = "time" -> MetaWanted[r].type = "time"
    [] OTHER -> FALSE

\* A request waits for its load in the stage that asked for it, and the save of
\* what it fetched comes after all it does; so it has one of each at most.
QueueIsOrdered ==
  /\ \A i, j \in DOMAIN Queue :
       Queue[i].op = Queue[j].op /\ Queue[i].r = Queue[j].r => i = j
  /\ \A i \in DOMAIN Queue : Queue[i].op = "load" =>
       LET r == Queue[i].r IN
       stageOf[r] \in Meta!Stages /\ Reads(mode, stageOf[r], r) /\ cached[r] = Meta!NoMeta /\ readFor[r] = stageOf[r]
  /\ \A i \in DOMAIN Queue : Queue[i].op = "save" => stageOf[Queue[i].r] \in {"done", "failed"}

\* Who counts in the limiter: who is inside runLimited, and whose save waits.
Inside == {r \in MetaRequests : stageOf[r] \in Meta!Stages \cup {"fetch", "sent", "fallback"}}
Savers == {r \in MetaRequests : \E i \in DOMAIN Queue : Queue[i].op = "save" /\ Queue[i].r = r}
Users == Inside \cup Savers
UsersAreCounted == limiter.count = Cardinality(Users)

\* The last save of the queue is that of the metadata in memory.
LastSaveIsMemory ==
  metaCache # Meta!NoMeta /\ ~unsaved =>
    /\ (\A i \in DOMAIN Queue : Queue[i].op # "save") => mirror = metaCache
    /\ \A i \in DOMAIN Queue :
         Queue[i].op = "save" /\ (\A j \in DOMAIN Queue : j > i => Queue[j].op # "save")
         => Queue[i].meta = metaCache

\* Metadata knows at least what was published when it was asked for, and at
\* most what was when it came.
Truthful(m) == m = Meta!NoMeta \/ (m.sent <= m.upTo /\ m.upTo <= m.cachedAt)

MetasAreTrue ==
  /\ Truthful(metaCache) /\ Truthful(mirror)
  /\ \A i \in DOMAIN Queue : Truthful(Queue[i].meta)
  /\ \A r \in MetaRequests : stageOf[r] \in Meta!Stages \cup {"new", "fetch"} => Truthful(cached[r])
  /\ metaCache # Meta!NoMeta => start <= metaCache.sent
  /\ \A r \in MetaRequests : stageOf[r] = "sent" => start <= cached[r].sent /\ cached[r].sent <= now
  /\ \A r \in MetaRequests : stageOf[r] = "fallback" => r \in fellBack
  /\ Meta!PublishedIsFound

MetaInv == MetaTypes /\ QueueIsOrdered /\ UsersAreCounted /\ LastSaveIsMemory /\ MetasAreTrue

-----------------------------------------------------------------------------
LEMMA FiniteRequests == ASSUME Meta!MetaAssumption PROVE IsFiniteSet(MetaRequests)
BY Zenon DEF Meta!MetaAssumption, Meta!IsFiniteSet, IsFiniteSet

LEMMA NoMetaIsMeta == ASSUME Meta!MetaAssumption PROVE Meta!NoMeta \in Meta!Metas
BY DEF Meta!MetaAssumption, Meta!NoMeta, Meta!Metas

LEMMA QueueAppend ==
  ASSUME NEW q \in Seq(Ops), NEW e \in Ops
  PROVE  /\ Append(q, e) \in Seq(Ops)
         /\ DOMAIN q = 1..Len(q) /\ Len(q) \in Nat
         /\ DOMAIN Append(q, e) = 1..(Len(q) + 1)
         /\ \A i \in 1..Len(q) : Append(q, e)[i] = q[i]
         /\ Append(q, e)[Len(q) + 1] = e
OBVIOUS

\* The first operation of the queue leaves it, and the others move up.
LEMMA QueueWithout ==
  ASSUME MetaTypes, NEW i \in Meta!NextOp
  PROVE  /\ i = 1 /\ 1 \in DOMAIN Queue
         /\ DOMAIN Queue = 1..Len(Queue) /\ Len(Queue) \in Nat \ {0}
         /\ Meta!Without(i) \in Seq(Ops)
         /\ DOMAIN Meta!Without(i) = 1..(Len(Queue) - 1)
         /\ \A j \in 1..(Len(Queue) - 1) : Meta!Without(i)[j] = Queue[j + 1]
<1>1. Queue \in Seq(Ops) /\ i = 1 /\ 1 \in DOMAIN Queue
  BY DEF MetaTypes, Queue, Meta!NextOp
<1>2. DOMAIN Queue = 1..Len(Queue) /\ Len(Queue) \in Nat \ {0}
  BY <1>1, LenProperties
<1>3. /\ SubSeq(Queue, 2, Len(Queue)) \in Seq(Ops)
      /\ Len(SubSeq(Queue, 2, Len(Queue))) = Len(Queue) - 1
      /\ \A j \in 1..(Len(Queue) - 1) : SubSeq(Queue, 2, Len(Queue))[j] = Queue[j + 1]
  <2>1. \A j \in 2..Len(Queue) : Queue[j] \in Ops
    BY <1>1, <1>2, ElementOfSeq
  <2> HIDE DEF Ops, Queue
  <2>2. /\ SubSeq(Queue, 2, Len(Queue)) \in Seq(Ops)
        /\ Len(SubSeq(Queue, 2, Len(Queue))) = IF 2 <= Len(Queue) THEN Len(Queue) - 2 + 1 ELSE 0
        /\ \A j \in 1..(Len(Queue) - 2 + 1) : SubSeq(Queue, 2, Len(Queue))[j] = Queue[2 + j - 1]
    BY <1>2, <2>1, SubSeqProperties
  <2> QED BY <1>2, <2>2
<1>4. SubSeq(Queue, 1, 0) = <<>>
  BY SubSeqEmpty
<1>5. Meta!Without(i) = SubSeq(Queue, 2, Len(Queue))
  BY <1>1, <1>3, <1>4, ConcatEmptySeq DEF Meta!Without, Queue
<1>6. DOMAIN SubSeq(Queue, 2, Len(Queue)) = 1..(Len(Queue) - 1)
  BY <1>3, LenProperties
<1> QED BY <1>1, <1>2, <1>3, <1>5, <1>6

LEMMA QueuedOps ==
  ASSUME MetaTypes, NEW i \in DOMAIN Queue
  PROVE  /\ Queue[i] \in Ops /\ Queue[i].r \in MetaRequests
         /\ Queue[i].op \in {"load", "save"} /\ Queue[i].meta \in Meta!Metas
<1>1. Queue \in Seq(Ops)
  BY DEF MetaTypes, Queue
<1>2. Queue[i] \in Ops
  BY <1>1, ElementOfSeq, LenProperties
<1> QED BY <1>2 DEF Ops

-----------------------------------------------------------------------------
\* An unaffected queue stays ordered when a request that is not in it moves.
LEMMA QueueStaysOrdered ==
  ASSUME MetaTypes, QueueIsOrdered, NEW r \in MetaRequests,
         \A i \in DOMAIN Queue : Queue[i].r # r,
         Queue' = Queue, mode' = mode,
         \A q \in MetaRequests \ {r} : stageOf'[q] = stageOf[q] /\ cached'[q] = cached[q] /\ readFor'[q] = readFor[q]
  PROVE  QueueIsOrdered'
<1>1. \A i \in DOMAIN Queue : Queue[i].r \in MetaRequests \ {r}
  BY QueuedOps
<1> QED BY <1>1 DEF QueueIsOrdered

\* Requests that are in no stage and not at their end have nothing in the queue,
\* nor has one that leaves a stage.
LEMMA NotQueued ==
  ASSUME MetaTypes, QueueIsOrdered, NEW r \in MetaRequests,
         \/ stageOf[r] \in {"new", "fetch", "sent", "fallback"}
         \/ Meta!Decide(r)
  PROVE  \A i \in DOMAIN Queue : Queue[i].r # r
<1> SUFFICES ASSUME NEW i \in DOMAIN Queue, Queue[i].r = r PROVE FALSE
  OBVIOUS
<1>0. Queue[i].op \in {"load", "save"}
  BY QueuedOps
<1>1. CASE Queue[i].op = "save"
  BY <1>1 DEF QueueIsOrdered, Meta!Decide, Meta!Stages
<1>2. CASE Queue[i].op = "load" /\ stageOf[r] \in {"new", "fetch", "sent", "fallback"}
  BY <1>2 DEF QueueIsOrdered, Meta!Stages
<1>3. CASE Queue[i].op = "load" /\ Meta!Decide(r)
  <2>1. Meta!ReadsMirror(r) /\ cached[r] = Meta!NoMeta /\ Meta!WaitsForLoad(r)
    BY <1>3 DEF QueueIsOrdered, Meta!WaitsForLoad, Queue, Reads, Meta!ReadsMirror
  <2> QED BY <1>3, <2>1 DEF Meta!Decide
<1> QED BY <1>0, <1>1, <1>2, <1>3

\* What the steps that leave the queue alone do to the rest.
LEMMA QuietSteps ==
  ASSUME Meta!MetaAssumption, MetaTypes, NEW r \in MetaRequests,
         \/ Meta!Begin(r) \/ Meta!Decide(r) \/ Meta!Send(r) \/ Meta!FetchFails(r) \/ Meta!FallBack(r)
  PROVE  /\ MetaTypes'
         /\ Queue' = Queue /\ UNCHANGED <<mode, start, now, metaCache, mirror, readFor, unsaved>>
         /\ \A q \in MetaRequests \ {r} :
              stageOf'[q] = stageOf[q] /\ cached'[q] = cached[q] /\ used'[q] = used[q]
<1> USE NoMetaIsMeta DEF MetaTypes, Meta!Entered, Meta!Left, Meta!Finish, Queue
<1>1. ASSUME Meta!Begin(r) \/ Meta!FallBack(r) \/ Meta!FetchFails(r)
      PROVE  /\ MetaTypes'
             /\ Queue' = Queue /\ UNCHANGED <<mode, start, now, metaCache, mirror, readFor, unsaved>>
             /\ \A q \in MetaRequests \ {r} :
                  stageOf'[q] = stageOf[q] /\ cached'[q] = cached[q] /\ used'[q] = used[q]
  BY <1>1 DEF Meta!Begin, Meta!FallBack, Meta!FetchFails, Meta!Stages
<1>2. ASSUME Meta!Decide(r)
      PROVE  /\ MetaTypes'
             /\ Queue' = Queue /\ UNCHANGED <<mode, start, now, metaCache, mirror, readFor, unsaved>>
             /\ \A q \in MetaRequests \ {r} :
                  stageOf'[q] = stageOf[q] /\ cached'[q] = cached[q] /\ used'[q] = used[q]
  BY <1>2 DEF Meta!Decide, Meta!NextStage, Meta!Stages
<1>3. ASSUME Meta!Send(r)
      PROVE  /\ MetaTypes'
             /\ Queue' = Queue /\ UNCHANGED <<mode, start, now, metaCache, mirror, readFor, unsaved>>
             /\ \A q \in MetaRequests \ {r} :
                  stageOf'[q] = stageOf[q] /\ cached'[q] = cached[q] /\ used'[q] = used[q]
  <2>1. [Meta!NoMeta EXCEPT !.sent = now] \in Meta!Metas
    <3>1. now \in 0..LastVersion /\ 0 \in 0..LastVersion
      BY DEF Meta!MetaAssumption
    <3>2. [Meta!NoMeta EXCEPT !.sent = now] = [upTo |-> 0, sent |-> now, cachedAt |-> 0]
      BY DEF Meta!NoMeta
    <3> QED BY <3>1, <3>2 DEF Meta!Metas
  <2> QED BY <1>3, <2>1 DEF Meta!Send
<1> QED BY <1>1, <1>2, <1>3

\* The two steps that append to the queue, and its own.
LEMMA AskMirrorDoes ==
  ASSUME Meta!MetaAssumption, MetaTypes, NEW r \in MetaRequests, Meta!AskMirror(r)
  PROVE  \E e \in Ops :
           /\ e.op = "load" /\ e.r = r /\ e.meta = Meta!NoMeta
           /\ Queue' = Append(Queue, e) /\ MetaTypes' /\ limiter'.count = limiter.count
<1> DEFINE e == [op |-> "load", r |-> r, meta |-> Meta!NoMeta]
<1>1. e \in Ops /\ e.op = "load" /\ e.r = r /\ e.meta = Meta!NoMeta
  BY NoMetaIsMeta DEF Ops
<1>2. limiter' = [limiter EXCEPT !.queue = Append(@, e)]
  BY DEF Meta!AskMirror
<1> HIDE DEF e
<1>3. Queue \in Seq(Ops) /\ Append(Queue, e) \in Seq(Ops)
  BY <1>1, QueueAppend DEF MetaTypes, Queue
<1>4. stageOf[r] \in Meta!Stages
  BY DEF Meta!AskMirror, Meta!ReadsMirror, Reads, Meta!Stages
<1>5. Queue' = Append(Queue, e) /\ limiter'.count = limiter.count
      /\ limiter' \in [count : Int, queue : Seq(Ops)]
  BY <1>2, <1>3 DEF MetaTypes, Queue
<1>6. MetaTypes'
  BY <1>4, <1>5 DEF MetaTypes, Meta!AskMirror
<1> QED BY <1>1, <1>5, <1>6

LEMMA FetchedDoes ==
  ASSUME Meta!MetaAssumption, MetaTypes, NEW r \in MetaRequests, Meta!Fetched(r),
         \A q \in MetaRequests : stageOf[q] = "sent" => start <= cached[q].sent /\ cached[q].sent <= now
  PROVE  \E e \in Ops :
           /\ e.op = "save" /\ e.r = r /\ e.meta # Meta!NoMeta /\ start <= e.meta.sent
           /\ e.meta.sent <= e.meta.upTo /\ e.meta.upTo <= e.meta.cachedAt
           /\ Queue' = Append(Queue, e) /\ MetaTypes' /\ limiter'.count = limiter.count
           /\ metaCache' = e.meta /\ Meta!Finish(r, e.meta)
<1>0. stageOf[r] = "sent" /\ start <= cached[r].sent /\ cached[r].sent <= now /\ cached[r] \in Meta!Metas
  BY DEF Meta!Fetched, MetaTypes
<1>1. PICK n \in cached[r].sent..now :
        LET meta == [upTo |-> n, sent |-> cached[r].sent, cachedAt |-> now] IN
        /\ metaCache' = meta
        /\ limiter' = Meta!Saving(r, meta)
        /\ Meta!Finish(r, meta)
  BY DEF Meta!Fetched
<1> DEFINE meta == [upTo |-> n, sent |-> cached[r].sent, cachedAt |-> now]
           e == [op |-> "save", r |-> r, meta |-> meta]
<1>2. /\ meta \in Meta!Metas /\ meta # Meta!NoMeta /\ start <= meta.sent
      /\ meta.sent <= meta.upTo /\ meta.upTo <= meta.cachedAt
  <2>1. now \in 1..LastVersion /\ n \in 1..LastVersion /\ cached[r].sent \in 0..LastVersion
    <3>1. now \in 1..LastVersion /\ start \in 1..LastVersion
      BY DEF MetaTypes, Meta!MetaAssumption
    <3>2. cached[r].sent \in 0..LastVersion
      BY <1>0 DEF Meta!Metas
    <3> QED BY <1>0, <3>1, <3>2 DEF Meta!MetaAssumption
  <2>2. meta.cachedAt # Meta!NoMeta.cachedAt
    BY <2>1 DEF Meta!NoMeta
  <2> QED BY <1>0, <2>1, <2>2 DEF Meta!Metas
<1>3. metaCache' = meta /\ limiter' = Meta!Saving(r, meta) /\ Meta!Finish(r, meta)
  BY <1>1
<1> HIDE DEF meta
<1>4. e \in Ops /\ e.op = "save" /\ e.r = r /\ e.meta = meta
  BY <1>2 DEF Ops
<1>5. limiter' = [count |-> limiter.count, queue |-> Append(Queue, e)]
  BY <1>3 DEF Meta!Saving, Queue
<1> HIDE DEF e
<1>6. Queue \in Seq(Ops) /\ Append(Queue, e) \in Seq(Ops)
  BY <1>4, QueueAppend DEF MetaTypes, Queue
<1>7. Queue' = Append(Queue, e) /\ limiter'.count = limiter.count
      /\ limiter' \in [count : Int, queue : Seq(Ops)]
  BY <1>5, <1>6 DEF MetaTypes, Queue
<1>8. MetaTypes'
  BY <1>2, <1>3, <1>7 DEF MetaTypes, Meta!Fetched, Meta!Finish
<1> QED BY <1>2, <1>3, <1>4, <1>7, <1>8

LEMMA LoadDoes ==
  ASSUME MetaTypes, QueueIsOrdered, NEW i \in Meta!NextOp, Meta!Load(i),
         UNCHANGED <<mode, now, start, metaCache, stageOf, readFor, used, fellBack>>
  PROVE  /\ MetaTypes' /\ Queue' = Meta!Without(i) /\ Queue[1].op = "load" /\ Queue[1].r \in MetaRequests
         /\ limiter'.count = limiter.count /\ cached' = [cached EXCEPT ![Queue[1].r] = mirror]
         /\ UNCHANGED <<mirror, unsaved>>
<1>1. Queue[1] \in Ops /\ i = 1
  BY QueueWithout, QueuedOps
<1> QED BY <1>1, QueueWithout DEF Meta!Load, MetaTypes, Queue, Ops

LEMMA SaveDoes ==
  ASSUME MetaTypes, QueueIsOrdered, NEW i \in Meta!NextOp, Meta!Save(i),
         UNCHANGED <<mode, now, start, metaCache, stageOf, readFor, used, fellBack>>
  PROVE  /\ MetaTypes' /\ Queue' = Meta!Without(i) /\ Queue[1].op = "save" /\ Queue[1].r \in MetaRequests
         /\ limiter'.count = limiter.count - 1 /\ cached' = cached
         /\ \/ mirror' = Queue[1].meta /\ unsaved' = unsaved
            \/ mirror' = mirror /\ unsaved'
<1>1. Queue[1] \in Ops /\ i = 1
  BY QueueWithout, QueuedOps
<1>2. limiter' = [count |-> limiter.count - 1, queue |-> Meta!Without(i)] /\ cached' = cached
  BY DEF Meta!Save
<1>3. Meta!Without(i) \in Seq(Ops) /\ limiter.count - 1 \in Int
  BY QueueWithout DEF MetaTypes
<1>4. /\ Queue' = Meta!Without(i) /\ limiter'.count = limiter.count - 1
      /\ limiter' \in [count : Int, queue : Seq(Ops)]
  BY <1>2, <1>3 DEF Queue
<1>5. Queue[1].op = "save" /\ Queue[1].r \in MetaRequests /\ Queue[1].meta \in Meta!Metas
  BY <1>1, QueueWithout, QueuedOps DEF Meta!Save, Queue
<1>6. \/ mirror' = Queue[1].meta /\ unsaved' = unsaved
      \/ mirror' = mirror /\ unsaved'
  BY <1>1 DEF Meta!Save, Queue
<1>7. mirror' \in Meta!Metas /\ unsaved' \in BOOLEAN
  BY <1>5, <1>6 DEF MetaTypes, Meta!Save
<1>8. MetaTypes'
  BY <1>2, <1>4, <1>7 DEF MetaTypes
<1> QED BY <1>2, <1>4, <1>5, <1>6, <1>8

-----------------------------------------------------------------------------
\* The order of the queue

LEMMA AskMirrorOrders ==
  ASSUME Meta!MetaAssumption, MetaTypes, QueueIsOrdered, NEW r \in MetaRequests, Meta!AskMirror(r)
  PROVE  QueueIsOrdered'
<1>1. PICK e \in Ops : /\ e.op = "load" /\ e.r = r /\ Queue' = Append(Queue, e) /\ MetaTypes'
  BY AskMirrorDoes
<1>2. /\ DOMAIN Queue = 1..Len(Queue) /\ Len(Queue) \in Nat
      /\ DOMAIN Queue' = 1..(Len(Queue) + 1)
      /\ \A i \in 1..Len(Queue) : Queue'[i] = Queue[i]
      /\ Queue'[Len(Queue) + 1] = e
  BY <1>1, QueueAppend DEF MetaTypes, Queue
<1>3. /\ stageOf[r] \in Meta!Stages /\ Reads(mode, stageOf[r], r) /\ cached[r] = Meta!NoMeta /\ readFor[r] # stageOf[r]
      /\ readFor' = [readFor EXCEPT ![r] = stageOf[r]]
      /\ UNCHANGED <<mode, stageOf, cached>>
  BY DEF Meta!AskMirror, Meta!ReadsMirror, Reads, Meta!Stages
<1>4. \A i \in 1..Len(Queue) : Queue[i].op = "load" => Queue[i].r # r
  BY <1>2, <1>3 DEF QueueIsOrdered
<1>5. \A i \in 1..Len(Queue) : Queue[i].op = "save" => Queue[i].r # r
  BY <1>2, <1>3 DEF QueueIsOrdered, Meta!Stages
<1>6. \A i \in 1..Len(Queue) : Queue[i].r \in MetaRequests /\ Queue[i].op \in {"load", "save"}
  BY <1>2, QueuedOps
<1>7. \A q \in MetaRequests : Reads(mode, stageOf[q], q) => Reads(mode', stageOf'[q], q)
  BY <1>3
<1>8. \A i, j \in DOMAIN Queue' :
        Queue'[i].op = Queue'[j].op /\ Queue'[i].r = Queue'[j].r => i = j
  <2> SUFFICES ASSUME NEW i \in DOMAIN Queue', NEW j \in DOMAIN Queue',
                      Queue'[i].op = Queue'[j].op, Queue'[i].r = Queue'[j].r
               PROVE  i = j
    OBVIOUS
  <2>1. CASE i \in 1..Len(Queue) /\ j \in 1..Len(Queue)
    BY <1>2, <2>1 DEF QueueIsOrdered
  <2>2. CASE i = Len(Queue) + 1 \/ j = Len(Queue) + 1
    BY <1>1, <1>2, <1>4, <2>2
  <2> QED BY <1>2, <2>1, <2>2
<1>9. ASSUME NEW i \in DOMAIN Queue', Queue'[i].op = "load"
      PROVE  LET q == Queue'[i].r IN
             /\ stageOf'[q] \in Meta!Stages /\ Reads(mode', stageOf'[q], q) /\ cached'[q] = Meta!NoMeta
             /\ readFor'[q] = stageOf'[q]
  <2>1. CASE i \in 1..Len(Queue)
    BY <1>2, <1>3, <1>4, <1>6, <1>7, <1>9, <2>1 DEF QueueIsOrdered, MetaTypes
  <2>2. CASE i = Len(Queue) + 1
    BY <1>1, <1>2, <1>3, <1>7, <2>2 DEF MetaTypes
  <2> QED BY <1>2, <2>1, <2>2
<1>10. ASSUME NEW i \in DOMAIN Queue', Queue'[i].op = "save" PROVE stageOf'[Queue'[i].r] \in {"done", "failed"}
  BY <1>1, <1>2, <1>3, <1>10 DEF QueueIsOrdered
<1> QED BY <1>8, <1>9, <1>10 DEF QueueIsOrdered

LEMMA FetchedOrders ==
  ASSUME Meta!MetaAssumption, MetaTypes, QueueIsOrdered, NEW r \in MetaRequests, Meta!Fetched(r),
         \A q \in MetaRequests : stageOf[q] = "sent" => start <= cached[q].sent /\ cached[q].sent <= now
  PROVE  QueueIsOrdered'
<1>1. PICK e \in Ops :
        e.op = "save" /\ e.r = r /\ Queue' = Append(Queue, e) /\ e.meta # Meta!NoMeta /\ Meta!Finish(r, e.meta)
  BY FetchedDoes
<1>2. /\ DOMAIN Queue = 1..Len(Queue) /\ Len(Queue) \in Nat
      /\ DOMAIN Queue' = 1..(Len(Queue) + 1)
      /\ \A i \in 1..Len(Queue) : Queue'[i] = Queue[i]
      /\ Queue'[Len(Queue) + 1] = e
  BY <1>1, QueueAppend DEF MetaTypes, Queue
<1>3. stageOf[r] = "sent" /\ stageOf' = [stageOf EXCEPT ![r] = "done"] /\ UNCHANGED <<mode, cached, readFor>>
  BY <1>1 DEF Meta!Fetched, Meta!Finish
<1>4. \A i \in 1..Len(Queue) : Queue[i].r \in MetaRequests \ {r}
  BY <1>2, <1>3, NotQueued, QueuedOps
<1>5. \A q \in MetaRequests \ {r} : stageOf'[q] = stageOf[q] /\ (Reads(mode, stageOf[q], q) => Reads(mode', stageOf'[q], q))
  BY <1>3 DEF MetaTypes
<1>6. \A i, j \in DOMAIN Queue' :
        Queue'[i].op = Queue'[j].op /\ Queue'[i].r = Queue'[j].r => i = j
  <2> SUFFICES ASSUME NEW i \in DOMAIN Queue', NEW j \in DOMAIN Queue',
                      Queue'[i].op = Queue'[j].op, Queue'[i].r = Queue'[j].r
               PROVE  i = j
    OBVIOUS
  <2>1. CASE i \in 1..Len(Queue) /\ j \in 1..Len(Queue)
    BY <1>2, <2>1 DEF QueueIsOrdered
  <2>2. CASE i = Len(Queue) + 1 \/ j = Len(Queue) + 1
    BY <1>1, <1>2, <1>4, <2>2
  <2> QED BY <1>2, <2>1, <2>2
<1>7. ASSUME NEW i \in DOMAIN Queue', Queue'[i].op = "load"
      PROVE  LET q == Queue'[i].r IN
             /\ stageOf'[q] \in Meta!Stages /\ Reads(mode', stageOf'[q], q) /\ cached'[q] = Meta!NoMeta
             /\ readFor'[q] = stageOf'[q]
  BY <1>1, <1>2, <1>3, <1>4, <1>5, <1>7 DEF QueueIsOrdered
<1>8. ASSUME NEW i \in DOMAIN Queue', Queue'[i].op = "save" PROVE stageOf'[Queue'[i].r] \in {"done", "failed"}
  BY <1>1, <1>2, <1>3, <1>4, <1>5, <1>8 DEF QueueIsOrdered, MetaTypes
<1> QED BY <1>6, <1>7, <1>8 DEF QueueIsOrdered

LEMMA RunOpOrders ==
  ASSUME Meta!MetaAssumption, MetaTypes, QueueIsOrdered, Meta!RunOp
  PROVE  QueueIsOrdered' /\ MetaTypes'
<1>1. PICK i \in Meta!NextOp : Meta!Load(i) \/ Meta!Save(i)
  BY DEF Meta!RunOp
<1>2. UNCHANGED <<mode, now, start, metaCache, stageOf, readFor, used, fellBack>>
  BY DEF Meta!RunOp
<1>3. /\ MetaTypes' /\ Queue' = Meta!Without(i) /\ Queue[1].r \in MetaRequests
      /\ \/ cached' = cached
         \/ Queue[1].op = "load" /\ cached' = [cached EXCEPT ![Queue[1].r] = mirror]
  BY <1>1, <1>2, LoadDoes, SaveDoes
<1>4. /\ 1 \in DOMAIN Queue /\ DOMAIN Queue = 1..Len(Queue) /\ Len(Queue) \in Nat \ {0}
      /\ DOMAIN Queue' = 1..(Len(Queue) - 1)
      /\ \A j \in 1..(Len(Queue) - 1) : Queue'[j] = Queue[j + 1]
  BY <1>3, QueueWithout
<1>5. \A j \in DOMAIN Queue' : j + 1 \in DOMAIN Queue /\ Queue'[j] = Queue[j + 1] /\ j + 1 # 1
  BY <1>4
<1>6. \A j \in DOMAIN Queue' : Queue'[j].op = "load" =>
        cached'[Queue'[j].r] = cached[Queue'[j].r]
  <2> SUFFICES ASSUME NEW j \in DOMAIN Queue', Queue'[j].op = "load"
               PROVE  cached'[Queue'[j].r] = cached[Queue'[j].r]
    OBVIOUS
  <2>1. CASE Queue[1].op = "load"
    <3>1. Queue[j + 1].r # Queue[1].r
      BY <1>4, <1>5, <2>1 DEF QueueIsOrdered
    <3>2. Queue[j + 1].r \in MetaRequests
      BY <1>5, QueuedOps
    <3> QED BY <1>3, <1>5, <3>1, <3>2 DEF MetaTypes
  <2>2. CASE Queue[1].op # "load"
    BY <1>3, <2>2
  <2> QED BY <2>1, <2>2
<1>7. \A k, j \in DOMAIN Queue' :
        Queue'[k].op = Queue'[j].op /\ Queue'[k].r = Queue'[j].r => k = j
  <2> SUFFICES ASSUME NEW k \in DOMAIN Queue', NEW j \in DOMAIN Queue',
                      Queue'[k].op = Queue'[j].op, Queue'[k].r = Queue'[j].r
               PROVE  k = j
    OBVIOUS
  <2>1. k + 1 = j + 1
    BY <1>5 DEF QueueIsOrdered
  <2> QED BY <1>4, <2>1
<1>8. ASSUME NEW j \in DOMAIN Queue', Queue'[j].op = "load"
      PROVE  LET q == Queue'[j].r IN
             /\ stageOf'[q] \in Meta!Stages /\ Reads(mode', stageOf'[q], q) /\ cached'[q] = Meta!NoMeta
             /\ readFor'[q] = stageOf'[q]
  BY <1>2, <1>5, <1>6, <1>8 DEF QueueIsOrdered
<1>9. ASSUME NEW j \in DOMAIN Queue', Queue'[j].op = "save" PROVE stageOf'[Queue'[j].r] \in {"done", "failed"}
  BY <1>2, <1>5, <1>9 DEF QueueIsOrdered
<1> QED BY <1>3, <1>7, <1>8, <1>9 DEF QueueIsOrdered

-----------------------------------------------------------------------------
\* The users of the limiter

LEMMA CountFollows ==
  ASSUME Meta!MetaAssumption, UsersAreCounted,
         \/ Users' = Users /\ limiter'.count = limiter.count
         \/ \E r \in MetaRequests \ Users : Users' = Users \cup {r} /\ limiter'.count = limiter.count + 1
         \/ \E r \in Users : Users' = Users \ {r} /\ limiter'.count = limiter.count - 1
  PROVE  UsersAreCounted'
<1>1. IsFiniteSet(Users)
  <2>1. Users \subseteq MetaRequests
    BY DEF Users, Inside, Savers
  <2> QED BY <2>1, FiniteRequests, FS_Subset
<1>2. \A r : r \notin Users => Cardinality(Users \cup {r}) = Cardinality(Users) + 1
  BY <1>1, FS_AddElement
<1>3. \A r \in Users : Cardinality(Users \ {r}) = Cardinality(Users) - 1
  BY <1>1, FS_RemoveElement
<1> QED BY <1>2, <1>3 DEF UsersAreCounted

LEMMA QuietStepsCount ==
  ASSUME Meta!MetaAssumption, MetaTypes, QueueIsOrdered, UsersAreCounted, NEW r \in MetaRequests,
         \/ Meta!Begin(r) \/ Meta!Decide(r) \/ Meta!Send(r) \/ Meta!FetchFails(r) \/ Meta!FallBack(r)
  PROVE  UsersAreCounted'
<1>1. Queue' = Queue /\ \A q \in MetaRequests \ {r} : stageOf'[q] = stageOf[q]
  BY QuietSteps
<1>2. \A i \in DOMAIN Queue : Queue[i].r # r
  <2>1. Meta!Decide(r) \/ stageOf[r] \in {"new", "fetch", "sent", "fallback"}
    BY DEF Meta!Begin, Meta!Send, Meta!FetchFails, Meta!FallBack
  <2> QED BY <2>1, NotQueued
<1>3. r \notin Savers /\ Savers' = Savers
  BY <1>1, <1>2 DEF Savers
<1> DEFINE in == Meta!Stages \cup {"fetch", "sent", "fallback"}
<1>4. \/ stageOf[r] \in in /\ stageOf'[r] \in in /\ limiter'.count = limiter.count
      \/ stageOf[r] \notin in /\ stageOf'[r] \notin in /\ limiter'.count = limiter.count
      \/ stageOf[r] \notin in /\ stageOf'[r] \in in /\ limiter'.count = limiter.count + 1
      \/ stageOf[r] \in in /\ stageOf'[r] \notin in /\ limiter'.count = limiter.count - 1
  <2> USE DEF MetaTypes, Meta!Entered, Meta!Left, Meta!Finish, Meta!Stages
  <2>1. CASE Meta!Begin(r)
    BY <2>1 DEF Meta!Begin
  <2>2. CASE Meta!Decide(r)
    BY <2>2 DEF Meta!Decide, Meta!NextStage
  <2>3. CASE Meta!Send(r) \/ Meta!FetchFails(r)
    BY <2>3 DEF Meta!Send, Meta!FetchFails
  <2>4. CASE Meta!FallBack(r)
    BY <2>4 DEF Meta!FallBack
  <2> QED BY <2>1, <2>2, <2>3, <2>4
<1> HIDE DEF in
<1>5. Inside = {q \in MetaRequests : stageOf[q] \in in} /\ Inside' = {q \in MetaRequests : stageOf'[q] \in in}
  BY DEF Inside, in
<1>6. \/ Inside' = Inside /\ limiter'.count = limiter.count
      \/ r \notin Inside /\ Inside' = Inside \cup {r} /\ limiter'.count = limiter.count + 1
      \/ r \in Inside /\ Inside' = Inside \ {r} /\ limiter'.count = limiter.count - 1
  BY <1>1, <1>4, <1>5
<1>7. \/ Users' = Users /\ limiter'.count = limiter.count
      \/ r \notin Users /\ Users' = Users \cup {r} /\ limiter'.count = limiter.count + 1
      \/ r \in Users /\ Users' = Users \ {r} /\ limiter'.count = limiter.count - 1
  BY <1>3, <1>6 DEF Users
<1> QED BY <1>7, CountFollows

LEMMA AskMirrorCounts ==
  ASSUME Meta!MetaAssumption, MetaTypes, UsersAreCounted, NEW r \in MetaRequests, Meta!AskMirror(r)
  PROVE  UsersAreCounted'
<1>1. PICK e \in Ops : /\ e.op = "load" /\ Queue' = Append(Queue, e)
                       /\ limiter'.count = limiter.count
  BY AskMirrorDoes
<1>2. /\ DOMAIN Queue = 1..Len(Queue) /\ Len(Queue) \in Nat
      /\ DOMAIN Queue' = 1..(Len(Queue) + 1)
      /\ \A i \in 1..Len(Queue) : Queue'[i] = Queue[i]
      /\ Queue'[Len(Queue) + 1] = e
  BY <1>1, QueueAppend DEF MetaTypes, Queue
<1>3. \A q : (\E i \in DOMAIN Queue' : Queue'[i].op = "save" /\ Queue'[i].r = q)
             <=> \E i \in DOMAIN Queue : Queue[i].op = "save" /\ Queue[i].r = q
  BY <1>1, <1>2
<1>4. Savers' = Savers
  BY <1>3 DEF Savers
<1>5. Inside' = Inside
  BY DEF Inside, Meta!AskMirror
<1> QED BY <1>1, <1>4, <1>5, CountFollows DEF Users

LEMMA FetchedCounts ==
  ASSUME Meta!MetaAssumption, MetaTypes, QueueIsOrdered, UsersAreCounted, NEW r \in MetaRequests,
         Meta!Fetched(r),
         \A q \in MetaRequests : stageOf[q] = "sent" => start <= cached[q].sent /\ cached[q].sent <= now
  PROVE  UsersAreCounted'
<1>1. PICK e \in Ops :
        /\ e.op = "save" /\ e.r = r /\ Queue' = Append(Queue, e) /\ e.meta # Meta!NoMeta
        /\ Meta!Finish(r, e.meta) /\ limiter'.count = limiter.count
  BY FetchedDoes
<1>2. /\ DOMAIN Queue = 1..Len(Queue) /\ Len(Queue) \in Nat
      /\ DOMAIN Queue' = 1..(Len(Queue) + 1)
      /\ \A i \in 1..Len(Queue) : Queue'[i] = Queue[i]
      /\ Queue'[Len(Queue) + 1] = e
  BY <1>1, QueueAppend DEF MetaTypes, Queue
<1>3. \A q : (\E i \in DOMAIN Queue' : Queue'[i].op = "save" /\ Queue'[i].r = q)
             <=> q = r \/ \E i \in DOMAIN Queue : Queue[i].op = "save" /\ Queue[i].r = q
  BY <1>1, <1>2
<1>4. Savers' = Savers \cup {r}
  BY <1>3 DEF Savers
<1>5. stageOf[r] = "sent" /\ stageOf' = [stageOf EXCEPT ![r] = "done"]
  BY <1>1 DEF Meta!Fetched, Meta!Finish
<1>6. Inside' = Inside \ {r} /\ r \in Inside
  BY <1>5 DEF Inside, Meta!Stages, MetaTypes
<1>7. Users' = Users
  BY <1>4, <1>6 DEF Users
<1> QED BY <1>1, <1>7, CountFollows

LEMMA RunOpCounts ==
  ASSUME Meta!MetaAssumption, MetaTypes, QueueIsOrdered, UsersAreCounted, Meta!RunOp
  PROVE  UsersAreCounted'
<1>1. PICK i \in Meta!NextOp : Meta!Load(i) \/ Meta!Save(i)
  BY DEF Meta!RunOp
<1>2. UNCHANGED <<mode, now, start, metaCache, stageOf, readFor, used, fellBack>>
  BY DEF Meta!RunOp
<1>3. Inside' = Inside
  BY <1>2 DEF Inside
<1>4. /\ 1 \in DOMAIN Queue /\ DOMAIN Queue = 1..Len(Queue) /\ Len(Queue) \in Nat \ {0}
      /\ DOMAIN Meta!Without(i) = 1..(Len(Queue) - 1)
      /\ \A j \in 1..(Len(Queue) - 1) : Meta!Without(i)[j] = Queue[j + 1]
  BY QueueWithout
<1>5. ASSUME Queue' = Meta!Without(i), NEW q
      PROVE  (\E j \in DOMAIN Queue' : Queue'[j].op = "save" /\ Queue'[j].r = q)
             <=> \E j \in DOMAIN Queue \ {1} : Queue[j].op = "save" /\ Queue[j].r = q
  <2>1. ASSUME NEW j \in DOMAIN Queue \ {1} PROVE j - 1 \in DOMAIN Queue' /\ Queue'[j - 1] = Queue[j]
    <3>1. j - 1 \in 1..(Len(Queue) - 1) /\ (j - 1) + 1 = j
      BY <1>4
    <3> QED BY <1>4, <1>5, <3>1
  <2>2. ASSUME NEW j \in DOMAIN Queue' PROVE j + 1 \in DOMAIN Queue \ {1} /\ Queue'[j] = Queue[j + 1]
    BY <1>4, <1>5
  <2> QED BY <2>1, <2>2
<1>6. CASE Meta!Load(i)
  <2>1. Queue' = Meta!Without(i) /\ Queue[1].op = "load" /\ limiter'.count = limiter.count
    BY <1>2, <1>6, LoadDoes
  <2>2. \A q : (\E j \in DOMAIN Queue' : Queue'[j].op = "save" /\ Queue'[j].r = q)
               <=> \E j \in DOMAIN Queue : Queue[j].op = "save" /\ Queue[j].r = q
    <3>1. \A j \in DOMAIN Queue : Queue[j].op = "save" => j \in DOMAIN Queue \ {1}
      BY <2>1
    <3> QED BY <1>5, <2>1, <3>1
  <2>3. Savers' = Savers
    BY <2>2 DEF Savers
  <2> QED BY <1>3, <2>1, <2>3, CountFollows DEF Users
<1>7. CASE Meta!Save(i)
  <2> DEFINE r == Queue[1].r
  <2>1. /\ Queue' = Meta!Without(i) /\ Queue[1].op = "save" /\ r \in MetaRequests
        /\ limiter'.count = limiter.count - 1
    BY <1>2, <1>7, SaveDoes
  <2>2. \A j \in DOMAIN Queue \ {1} : Queue[j].op = "save" => Queue[j].r # r
    BY <1>4, <2>1 DEF QueueIsOrdered
  <2> HIDE DEF r
  <2>3. r \in Savers
    BY <1>4, <2>1 DEF Savers, r
  <2>4. \A q : (\E j \in DOMAIN Queue : Queue[j].op = "save" /\ Queue[j].r = q)
               => q = r \/ \E j \in DOMAIN Queue \ {1} : Queue[j].op = "save" /\ Queue[j].r = q
    BY DEF r
  <2>5. Savers' = Savers \ {r}
    BY <1>5, <2>1, <2>2, <2>4 DEF Savers
  <2>6. r \notin Inside
    BY <1>4, <2>1 DEF QueueIsOrdered, Inside, r, Meta!Stages
  <2>7. Users' = Users \ {r} /\ r \in Users
    BY <1>3, <2>3, <2>5, <2>6 DEF Users
  <2> QED BY <2>1, <2>7, CountFollows
<1> QED BY <1>1, <1>6, <1>7

-----------------------------------------------------------------------------
\* The mirror and the memory

LEMMA QuietStepsMirror ==
  ASSUME Meta!MetaAssumption, MetaTypes, LastSaveIsMemory, NEW r \in MetaRequests,
         \/ Meta!Begin(r) \/ Meta!Decide(r) \/ Meta!Send(r) \/ Meta!FetchFails(r) \/ Meta!FallBack(r)
  PROVE  LastSaveIsMemory'
<1>1. Queue' = Queue /\ UNCHANGED <<metaCache, mirror, unsaved>>
  BY QuietSteps
<1> QED BY <1>1 DEF LastSaveIsMemory

LEMMA AskMirrorMirror ==
  ASSUME Meta!MetaAssumption, MetaTypes, LastSaveIsMemory, NEW r \in MetaRequests, Meta!AskMirror(r)
  PROVE  LastSaveIsMemory'
<1>1. PICK e \in Ops : e.op = "load" /\ Queue' = Append(Queue, e)
  BY AskMirrorDoes
<1>2. /\ DOMAIN Queue = 1..Len(Queue) /\ Len(Queue) \in Nat
      /\ DOMAIN Queue' = 1..(Len(Queue) + 1)
      /\ \A i \in 1..Len(Queue) : Queue'[i] = Queue[i]
      /\ Queue'[Len(Queue) + 1] = e
  BY <1>1, QueueAppend DEF MetaTypes, Queue
<1>3. UNCHANGED <<metaCache, mirror, unsaved>>
  BY DEF Meta!AskMirror
<1> QED BY <1>1, <1>2, <1>3 DEF LastSaveIsMemory

LEMMA FetchedMirror ==
  ASSUME Meta!MetaAssumption, MetaTypes, NEW r \in MetaRequests, Meta!Fetched(r),
         \A q \in MetaRequests : stageOf[q] = "sent" => start <= cached[q].sent /\ cached[q].sent <= now
  PROVE  LastSaveIsMemory'
<1>1. PICK e \in Ops : e.op = "save" /\ Queue' = Append(Queue, e) /\ metaCache' = e.meta
  BY FetchedDoes
<1>2. /\ DOMAIN Queue = 1..Len(Queue) /\ Len(Queue) \in Nat
      /\ DOMAIN Queue' = 1..(Len(Queue) + 1)
      /\ Queue'[Len(Queue) + 1] = e
  BY <1>1, QueueAppend DEF MetaTypes, Queue
<1>3. \A i \in DOMAIN Queue' :
        (\A j \in DOMAIN Queue' : j > i => Queue'[j].op # "save") => i = Len(Queue) + 1
  BY <1>1, <1>2
<1>4. Len(Queue) + 1 \in DOMAIN Queue' /\ Queue'[Len(Queue) + 1].op = "save"
  BY <1>1, <1>2
<1> QED BY <1>1, <1>2, <1>3, <1>4 DEF LastSaveIsMemory

LEMMA RunOpMirror ==
  ASSUME Meta!MetaAssumption, MetaTypes, QueueIsOrdered, LastSaveIsMemory, Meta!RunOp
  PROVE  LastSaveIsMemory'
<1>1. PICK i \in Meta!NextOp : Meta!Load(i) \/ Meta!Save(i)
  BY DEF Meta!RunOp
<1>2. UNCHANGED <<mode, now, start, metaCache, stageOf, readFor, used, fellBack>>
  BY DEF Meta!RunOp
<1>3. /\ Queue' = Meta!Without(i)
      /\ \/ /\ Queue[1].op = "load" /\ UNCHANGED <<mirror, unsaved>>
         \/ /\ Queue[1].op = "save"
            /\ \/ mirror' = Queue[1].meta /\ unsaved' = unsaved
               \/ mirror' = mirror /\ unsaved'
  BY <1>1, <1>2, LoadDoes, SaveDoes
<1>4. /\ 1 \in DOMAIN Queue /\ DOMAIN Queue = 1..Len(Queue) /\ Len(Queue) \in Nat \ {0}
      /\ DOMAIN Queue' = 1..(Len(Queue) - 1)
      /\ \A j \in 1..(Len(Queue) - 1) : Queue'[j] = Queue[j + 1]
  BY <1>3, QueueWithout
<1>5. ASSUME NEW j \in DOMAIN Queue, j > 1 PROVE j - 1 \in DOMAIN Queue' /\ Queue'[j - 1] = Queue[j]
  <2>1. j - 1 \in 1..(Len(Queue) - 1) /\ (j - 1) + 1 = j
    BY <1>4, <1>5
  <2> QED BY <1>4, <2>1
<1> SUFFICES ASSUME metaCache' # Meta!NoMeta, ~unsaved'
             PROVE  /\ (\A j \in DOMAIN Queue' : Queue'[j].op # "save") => mirror' = metaCache'
                    /\ \A j \in DOMAIN Queue' :
                         Queue'[j].op = "save"
                         /\ (\A k \in DOMAIN Queue' : k > j => Queue'[k].op # "save")
                         => Queue'[j].meta = metaCache'
  BY DEF LastSaveIsMemory
<1>6. metaCache # Meta!NoMeta /\ ~unsaved /\ metaCache' = metaCache
  BY <1>2, <1>3
<1>7. ASSUME \A j \in DOMAIN Queue' : Queue'[j].op # "save" PROVE mirror' = metaCache'
  <2>1. \A j \in DOMAIN Queue : j > 1 => Queue[j].op # "save"
    BY <1>5, <1>7
  <2>2. CASE Queue[1].op = "load"
    <3>1. \A j \in DOMAIN Queue : Queue[j].op # "save"
      BY <1>4, <2>1, <2>2
    <3> QED BY <1>3, <1>6, <2>2, <3>1 DEF LastSaveIsMemory
  <2>3. CASE Queue[1].op = "save"
    <3>1. Queue[1].meta = metaCache
      BY <1>4, <1>6, <2>1, <2>3 DEF LastSaveIsMemory
    <3> QED BY <1>3, <1>6, <2>3, <3>1
  <2> QED BY <1>3, <2>2, <2>3
<1>8. ASSUME NEW j \in DOMAIN Queue', Queue'[j].op = "save",
             \A k \in DOMAIN Queue' : k > j => Queue'[k].op # "save"
      PROVE  Queue'[j].meta = metaCache'
  <2>1. j + 1 \in DOMAIN Queue /\ Queue'[j] = Queue[j + 1]
    BY <1>4
  <2>2. ASSUME NEW k \in DOMAIN Queue, k > j + 1 PROVE Queue[k].op # "save"
    <3>1. k > 1 /\ k - 1 > j
      BY <1>4, <2>2
    <3> QED BY <1>5, <1>8, <3>1
  <2> QED BY <1>6, <1>8, <2>1, <2>2 DEF LastSaveIsMemory
<1> QED BY <1>7, <1>8

-----------------------------------------------------------------------------
\* What metadata says

\* PublishedIsFound, of a request and the metadata it picked from.
Shown(r, m, since) ==
  CASE MetaWanted[r].type = "version" -> Meta!Pick(r, m) = MetaWanted[r].v
    [] MetaWanted[r].type = "time" -> MetaWanted[r].v <= m.upTo \/ MetaWanted[r].v \in m.sent..m.cachedAt
    [] OTHER -> m.upTo >= since

Finds(r) ==
  r \notin fellBack /\ stageOf[r] \in {"done", "failed"} /\ mode = "online" /\ MetaWanted[r].v <= start
    => Shown(r, used[r], start)

LEMMA AllFind == Meta!PublishedIsFound <=> \A r \in MetaRequests : Finds(r)
BY DEF Meta!PublishedIsFound, Finds, Shown

LEMMA AllFindNext == Meta!PublishedIsFound' <=> \A r \in MetaRequests : Finds(r)'
BY DEF Meta!PublishedIsFound, Finds, Shown, Meta!Pick

LEMMA FoundByOthers ==
  ASSUME NEW r \in MetaRequests, Meta!PublishedIsFound,
         UNCHANGED <<mode, start>>, fellBack \subseteq fellBack',
         \A q \in MetaRequests \ {r} : stageOf'[q] = stageOf[q] /\ used'[q] = used[q],
         \/ stageOf'[r] \notin {"done", "failed"}
         \/ r \in fellBack' \/ mode # "online"
         \/ MetaWanted[r].v <= start => Shown(r, used'[r], start)
  PROVE  Meta!PublishedIsFound'
<1>1. ASSUME NEW q \in MetaRequests \ {r}, Finds(q) PROVE Finds(q)'
  BY <1>1 DEF Finds, Shown, Meta!Pick
<1>2. Finds(r)'
  BY DEF Finds, Shown, Meta!Pick
<1> QED BY <1>1, <1>2, AllFind, AllFindNext

\* What metadata in memory, or fetched, knows was published before.
LEMMA FreshIsFound ==
  ASSUME Meta!MetaAssumption, MetaTypes, NEW r \in MetaRequests, NEW m \in Meta!Metas,
         start <= m.sent, m.sent <= m.upTo, MetaWanted[r].v <= start
  PROVE  Shown(r, m, start)
<1>1. LastVersion \in Nat /\ start \in 1..LastVersion /\ MetaWanted[r].v \in Nat
  BY DEF Meta!MetaAssumption, MetaTypes
<1>2. m.sent \in Nat /\ m.upTo \in Nat
  BY <1>1 DEF Meta!Metas
<1>3. MetaWanted[r].v <= m.upTo /\ m.upTo >= start
  BY <1>1, <1>2
<1> QED BY <1>3 DEF Shown, Meta!Pick

\* A request that begins, or goes from stage to stage.
LEMMA BeginTrue ==
  ASSUME Meta!MetaAssumption, MetaTypes, MetasAreTrue, NEW r \in MetaRequests, Meta!Begin(r)
  PROVE  MetasAreTrue'
<1>0. /\ Queue' = Queue /\ UNCHANGED <<mode, start, now, metaCache, mirror, fellBack, cached>>
      /\ \A q \in MetaRequests \ {r} : stageOf'[q] = stageOf[q] /\ used'[q] = used[q]
  BY QuietSteps DEF Meta!Begin
<1>1. stageOf[r] = "new" /\ stageOf'[r] \in {"offline", "done", "failed"}
  BY DEF Meta!Begin, Meta!Finish, MetaTypes
<1>2. \/ stageOf'[r] \notin {"done", "failed"}
      \/ MetaWanted[r].v <= start => Shown(r, used'[r], start)
  <2>1. CASE metaCache # Meta!NoMeta
    <3>1. used'[r] = metaCache
      BY <2>1 DEF Meta!Begin, Meta!Finish, MetaTypes
    <3>2. start <= metaCache.sent /\ metaCache.sent <= metaCache.upTo /\ metaCache \in Meta!Metas
      BY <2>1 DEF MetasAreTrue, Truthful, MetaTypes
    <3> QED BY <3>1, <3>2, FreshIsFound
  <2>2. CASE metaCache = Meta!NoMeta
    BY <2>2 DEF Meta!Begin, MetaTypes
  <2> QED BY <2>1, <2>2
<1>3. Meta!PublishedIsFound'
  BY <1>0, <1>2, FoundByOthers DEF MetasAreTrue
<1>4. \A q \in MetaRequests : stageOf'[q] \in Meta!Stages \cup {"new", "fetch"} => Truthful(cached'[q])
  BY <1>0, <1>1 DEF MetasAreTrue, Meta!Stages
<1>5. \A q \in MetaRequests : (stageOf'[q] = "sent" => stageOf[q] = "sent") /\ (stageOf'[q] = "fallback" => stageOf[q] = "fallback")
  BY <1>0, <1>1
<1> QED BY <1>0, <1>3, <1>4, <1>5 DEF MetasAreTrue, Truthful

LEMMA DecideTrue ==
  ASSUME Meta!MetaAssumption, MetaTypes, MetasAreTrue, NEW r \in MetaRequests, Meta!Decide(r)
  PROVE  MetasAreTrue'
<1>0. /\ Queue' = Queue /\ UNCHANGED <<mode, start, now, metaCache, mirror, fellBack, cached>>
      /\ \A q \in MetaRequests \ {r} : stageOf'[q] = stageOf[q] /\ used'[q] = used[q]
  BY QuietSteps DEF Meta!Decide
<1>1. stageOf[r] \in Meta!Stages /\ stageOf'[r] \in {"version", "time", "fetch", "done", "failed"}
  BY DEF Meta!Decide, Meta!Finish, MetaTypes, Meta!NextStage
<1>2. Truthful(cached[r]) /\ cached[r] \in Meta!Metas
  BY <1>1 DEF MetasAreTrue, MetaTypes
<1>3. \/ stageOf'[r] \notin {"done", "failed"} \/ mode # "online"
      \/ MetaWanted[r].v <= start => Shown(r, used'[r], start)
  <2> SUFFICES ASSUME stageOf'[r] \in {"done", "failed"}, mode = "online" PROVE Shown(r, used'[r], start)
    OBVIOUS
  <2>1. Meta!ReadsMirror(r) /\ Meta!MirrorServes(r) /\ used'[r] = cached[r]
    BY DEF Meta!Decide, Meta!Finish, MetaTypes, Meta!NextStage
  <2>2. CASE stageOf[r] = "version"
    <3>1. MetaWanted[r].type = "version" /\ Meta!Pick(r, cached[r]) # 0
      BY <2>1, <2>2 DEF Meta!ReadsMirror, Meta!MirrorServes
    <3> QED BY <2>1, <3>1 DEF Shown, Meta!Pick
  <2>3. CASE stageOf[r] = "time"
    <3>1. /\ MetaWanted[r].type = "time" /\ Meta!Pick(r, cached[r]) # 0
          /\ cached[r].cachedAt >= MetaWanted[r].v
      BY <2>1, <2>3 DEF Meta!ReadsMirror, Meta!MirrorServes
    <3>2. CASE MetaWanted[r].v <= cached[r].upTo
      BY <2>1, <3>1, <3>2 DEF Shown
    <3>3. CASE ~(MetaWanted[r].v <= cached[r].upTo)
      <4>1. cached[r].upTo # 0
        BY <3>1, <3>3 DEF Meta!Pick
      <4>2. cached[r].sent <= cached[r].upTo
        BY <1>2, <4>1 DEF Truthful, Meta!NoMeta
      <4>3. MetaWanted[r].v \in cached[r].sent..cached[r].cachedAt
        BY <1>2, <3>1, <3>3, <4>2 DEF Meta!Metas, Meta!MetaAssumption
      <4> QED BY <2>1, <3>1, <4>3 DEF Shown
    <3> QED BY <3>2, <3>3
  <2>4. stageOf[r] \in {"version", "time"}
    BY <1>1, <2>1 DEF Meta!ReadsMirror, Meta!Stages
  <2> QED BY <2>2, <2>3, <2>4
<1>4. Meta!PublishedIsFound'
  BY <1>0, <1>3, FoundByOthers DEF MetasAreTrue
<1>5. \A q \in MetaRequests : stageOf'[q] \in Meta!Stages \cup {"new", "fetch"} => Truthful(cached'[q])
  BY <1>0, <1>2 DEF MetasAreTrue
<1>6. \A q \in MetaRequests : (stageOf'[q] = "sent" => stageOf[q] = "sent") /\ (stageOf'[q] = "fallback" => stageOf[q] = "fallback")
  BY <1>0, <1>1
<1> QED BY <1>0, <1>4, <1>5, <1>6 DEF MetasAreTrue, Truthful

LEMMA FetchingTrue ==
  ASSUME Meta!MetaAssumption, MetaTypes, MetasAreTrue, NEW r \in MetaRequests,
         Meta!Send(r) \/ Meta!FetchFails(r) \/ Meta!FallBack(r)
  PROVE  MetasAreTrue'
<1>0. /\ Queue' = Queue /\ UNCHANGED <<mode, start, now, metaCache, mirror>>
      /\ \A q \in MetaRequests \ {r} :
           stageOf'[q] = stageOf[q] /\ used'[q] = used[q] /\ cached'[q] = cached[q]
      /\ fellBack \subseteq fellBack'
  BY QuietSteps DEF Meta!Send, Meta!FetchFails, Meta!FallBack
<1>1. \/ stageOf'[r] = "sent" /\ cached'[r].sent = now
      \/ stageOf'[r] = "fallback" /\ r \in fellBack'
      \/ stageOf'[r] \in {"done", "failed"} /\ r \in fellBack'
  <2>1. CASE Meta!Send(r)
    BY <2>1 DEF Meta!Send, MetaTypes, Meta!NoMeta
  <2>2. CASE Meta!FetchFails(r)
    BY <2>2 DEF Meta!FetchFails, MetaTypes
  <2>3. CASE Meta!FallBack(r)
    BY <2>3 DEF Meta!FallBack, Meta!Finish, MetaTypes, MetasAreTrue
  <2> QED BY <2>1, <2>2, <2>3
<1>2. Meta!PublishedIsFound'
  BY <1>0, <1>1, FoundByOthers DEF MetasAreTrue
<1>3. \A q \in MetaRequests : stageOf'[q] \in Meta!Stages \cup {"new", "fetch"} => Truthful(cached'[q])
  BY <1>0, <1>1 DEF MetasAreTrue, Meta!Stages
<1>4. \A q \in MetaRequests : stageOf'[q] = "sent" => start' <= cached'[q].sent /\ cached'[q].sent <= now'
  BY <1>0, <1>1 DEF MetasAreTrue, MetaTypes, Meta!MetaAssumption
<1>5. \A q \in MetaRequests : stageOf'[q] = "fallback" => q \in fellBack'
  BY <1>0, <1>1 DEF MetasAreTrue
<1> QED BY <1>0, <1>2, <1>3, <1>4, <1>5 DEF MetasAreTrue, Truthful

LEMMA AskMirrorTrue ==
  ASSUME Meta!MetaAssumption, MetaTypes, MetasAreTrue, NEW r \in MetaRequests, Meta!AskMirror(r)
  PROVE  MetasAreTrue'
<1>1. PICK e \in Ops : e.meta = Meta!NoMeta /\ Queue' = Append(Queue, e)
  BY AskMirrorDoes
<1>2. /\ DOMAIN Queue = 1..Len(Queue) /\ Len(Queue) \in Nat
      /\ DOMAIN Queue' = 1..(Len(Queue) + 1)
      /\ \A i \in 1..Len(Queue) : Queue'[i] = Queue[i]
      /\ Queue'[Len(Queue) + 1] = e
  BY <1>1, QueueAppend DEF MetaTypes, Queue
<1>3. UNCHANGED <<mode, now, start, metaCache, mirror, stageOf, cached, used, fellBack>>
  BY DEF Meta!AskMirror
<1>4. \A i \in DOMAIN Queue' : Truthful(Queue'[i].meta)
  BY <1>1, <1>2 DEF MetasAreTrue, Truthful
<1>5. Meta!PublishedIsFound'
  BY <1>3, FoundByOthers, AllFind DEF MetasAreTrue, Finds
<1> QED BY <1>3, <1>4, <1>5 DEF MetasAreTrue, Truthful

LEMMA FetchedTrue ==
  ASSUME Meta!MetaAssumption, MetaTypes, MetasAreTrue, NEW r \in MetaRequests, Meta!Fetched(r)
  PROVE  MetasAreTrue'
<1>1. PICK e \in Ops :
        /\ e.meta # Meta!NoMeta /\ start <= e.meta.sent
        /\ e.meta.sent <= e.meta.upTo /\ e.meta.upTo <= e.meta.cachedAt
        /\ Queue' = Append(Queue, e) /\ metaCache' = e.meta /\ Meta!Finish(r, e.meta)
  BY FetchedDoes DEF MetasAreTrue
<1>2. /\ DOMAIN Queue = 1..Len(Queue) /\ Len(Queue) \in Nat
      /\ DOMAIN Queue' = 1..(Len(Queue) + 1)
      /\ \A i \in 1..Len(Queue) : Queue'[i] = Queue[i]
      /\ Queue'[Len(Queue) + 1] = e
  BY <1>1, QueueAppend DEF MetaTypes, Queue
<1>3. UNCHANGED <<mode, now, start, mirror, cached, fellBack>>
  BY DEF Meta!Fetched
<1>4. /\ stageOf'[r] = "done" /\ used'[r] = e.meta /\ e.meta \in Meta!Metas
      /\ \A q \in MetaRequests \ {r} : stageOf'[q] = stageOf[q] /\ used'[q] = used[q]
  BY <1>1 DEF Meta!Finish, MetaTypes, Ops
<1>5. MetaWanted[r].v <= start => Shown(r, used'[r], start)
  BY <1>1, <1>4, FreshIsFound
<1>6. Meta!PublishedIsFound'
  BY <1>3, <1>4, <1>5, FoundByOthers DEF MetasAreTrue
<1>7. \A i \in DOMAIN Queue' : Truthful(Queue'[i].meta)
  BY <1>1, <1>2 DEF MetasAreTrue, Truthful
<1>8. Truthful(metaCache') /\ start' <= metaCache'.sent
  BY <1>1, <1>3 DEF Truthful
<1>9. /\ \A q \in MetaRequests : stageOf'[q] \in Meta!Stages \cup {"new", "fetch"} => Truthful(cached'[q])
      /\ \A q \in MetaRequests : stageOf'[q] = "sent" => start' <= cached'[q].sent /\ cached'[q].sent <= now'
      /\ \A q \in MetaRequests : stageOf'[q] = "fallback" => q \in fellBack'
  BY <1>3, <1>4 DEF MetasAreTrue, Meta!Stages
<1> QED BY <1>3, <1>6, <1>7, <1>8, <1>9 DEF MetasAreTrue, Truthful

LEMMA RunOpTrue ==
  ASSUME Meta!MetaAssumption, MetaTypes, QueueIsOrdered, MetasAreTrue, Meta!RunOp
  PROVE  MetasAreTrue'
<1>1. PICK i \in Meta!NextOp : Meta!Load(i) \/ Meta!Save(i)
  BY DEF Meta!RunOp
<1>2. UNCHANGED <<mode, now, start, metaCache, stageOf, readFor, used, fellBack>>
  BY DEF Meta!RunOp
<1>3. /\ Queue' = Meta!Without(i) /\ Queue[1].r \in MetaRequests
      /\ \/ /\ Queue[1].op = "load" /\ cached' = [cached EXCEPT ![Queue[1].r] = mirror]
            /\ mirror' = mirror
         \/ cached' = cached /\ mirror' \in {mirror, Queue[1].meta}
  BY <1>1, <1>2, LoadDoes, SaveDoes
<1>4. /\ 1 \in DOMAIN Queue /\ DOMAIN Queue = 1..Len(Queue) /\ Len(Queue) \in Nat \ {0}
      /\ DOMAIN Queue' = 1..(Len(Queue) - 1)
      /\ \A j \in 1..(Len(Queue) - 1) : Queue'[j] = Queue[j + 1]
  BY <1>3, QueueWithout
<1>5. \A j \in DOMAIN Queue' : j + 1 \in DOMAIN Queue /\ Queue'[j] = Queue[j + 1]
  BY <1>4
<1>6. (\A j \in DOMAIN Queue' : Truthful(Queue'[j].meta)) /\ Truthful(mirror')
  BY <1>3, <1>4, <1>5 DEF MetasAreTrue
<1>7. \A q \in MetaRequests : stageOf'[q] \in Meta!Stages \cup {"new", "fetch"} => Truthful(cached'[q])
  BY <1>2, <1>3 DEF MetasAreTrue, MetaTypes
<1>8. \A q \in MetaRequests : stageOf[q] = "sent" => cached'[q] = cached[q]
  BY <1>3, <1>4 DEF QueueIsOrdered, Meta!Stages, MetaTypes
<1>9. Meta!PublishedIsFound'
  BY <1>2, AllFind, AllFindNext DEF MetasAreTrue, Finds
<1> QED BY <1>2, <1>6, <1>7, <1>8, <1>9 DEF MetasAreTrue, Truthful

LEMMA PublishKeeps ==
  ASSUME Meta!MetaAssumption, MetaInv, Meta!Publish
  PROVE  MetaInv'
<1>1. /\ now' = now + 1 /\ now < LastVersion
      /\ UNCHANGED <<mode, start, metaCache, mirror, limiter, stageOf, readFor, cached, used, fellBack, unsaved>>
  BY DEF Meta!Publish
<1>2. now' \in start..LastVersion /\ now \in Nat
  BY <1>1 DEF MetaInv, MetaTypes, Meta!MetaAssumption
<1>3. MetaTypes'
  BY <1>1, <1>2 DEF MetaInv, MetaTypes
<1>4. QueueIsOrdered' /\ UsersAreCounted' /\ LastSaveIsMemory'
  BY <1>1 DEF MetaInv, QueueIsOrdered, UsersAreCounted, Users, Inside, Savers, LastSaveIsMemory, Queue
<1>5. Meta!PublishedIsFound'
  BY <1>1, AllFind, AllFindNext DEF MetaInv, MetasAreTrue, Finds
<1>6. \A q \in MetaRequests : stageOf'[q] = "sent" => start' <= cached'[q].sent /\ cached'[q].sent <= now'
  <2>1. SUFFICES ASSUME NEW q \in MetaRequests, stageOf[q] = "sent"
                 PROVE  start <= cached[q].sent /\ cached[q].sent <= now + 1
    BY <1>1
  <2>2. start <= cached[q].sent /\ cached[q].sent <= now
    BY <2>1 DEF MetaInv, MetasAreTrue
  <2>3. start \in Nat /\ cached[q].sent \in Int
    BY <2>1 DEF MetaInv, MetaTypes, Meta!Metas, Meta!MetaAssumption
  <2> QED BY <1>2, <2>2, <2>3
<1>7. MetasAreTrue'
  BY <1>1, <1>5, <1>6 DEF MetaInv, MetasAreTrue, Truthful, Queue
<1> QED BY <1>3, <1>4, <1>7 DEF MetaInv

-----------------------------------------------------------------------------
LEMMA MetaStarts == ASSUME Meta!MetaAssumption, Meta!Init PROVE MetaInv
<1>0. PICK time \in 1..LastVersion :
        \E file \in {Meta!NoMeta} \cup {[upTo |-> n, sent |-> n, cachedAt |-> n] : n \in 1..time} :
          Meta!StartsWith(file, time)
  BY DEF Meta!Init
<1>1. PICK file \in {Meta!NoMeta} \cup {[upTo |-> n, sent |-> n, cachedAt |-> n] : n \in 1..time} :
        Meta!StartsWith(file, time)
  BY <1>0
<1> USE DEF Meta!StartsWith
<1>2. LastVersion \in Nat /\ now \in start..LastVersion /\ start \in 1..LastVersion
  BY <1>1 DEF Meta!MetaAssumption
<1>3. file \in Meta!Metas /\ Truthful(file)
  <2>1. CASE file = Meta!NoMeta
    BY <2>1, NoMetaIsMeta DEF Truthful
  <2>2. ASSUME NEW n \in 1..time, file = [upTo |-> n, sent |-> n, cachedAt |-> n]
        PROVE  file \in Meta!Metas /\ Truthful(file)
    <3>1. n \in 0..LastVersion
      BY <1>2
    <3>2. file.sent = n /\ file.upTo = n /\ file.cachedAt = n
      BY <2>2
    <3> QED BY <2>2, <3>1, <3>2 DEF Meta!Metas, Truthful
  <2> QED BY <2>1, <2>2
<1>4. Queue = <<>> /\ Queue \in Seq(Ops) /\ DOMAIN Queue = {} /\ limiter.count = 0
  BY <1>1 DEF Queue
<1>5. limiter \in [count : Int, queue : Seq(Ops)]
  BY <1>1, <1>4 DEF Queue
<1>6. MetaTypes
  BY <1>1, <1>2, <1>3, <1>5, NoMetaIsMeta DEF MetaTypes, Meta!Init, Meta!Stages
<1>7. QueueIsOrdered
  BY <1>4 DEF QueueIsOrdered
<1>8. UsersAreCounted
  <2>1. Users = {}
    BY <1>1, <1>4 DEF Users, Inside, Savers, Meta!Stages
  <2> QED BY <1>4, <2>1, FS_EmptySet DEF UsersAreCounted
<1>9. LastSaveIsMemory
  BY <1>1 DEF LastSaveIsMemory
<1>10. MetasAreTrue
  <2>1. Meta!PublishedIsFound
    BY <1>1 DEF Meta!PublishedIsFound
  <2> QED BY <1>1, <1>3, <1>4, <2>1 DEF MetasAreTrue, Truthful
<1> QED BY <1>6, <1>7, <1>8, <1>9, <1>10 DEF MetaInv

LEMMA MetaInvariant == ASSUME Meta!MetaAssumption PROVE Meta!SafetySpec => []MetaInv
<1>1. Meta!Init => MetaInv
  BY MetaStarts
<1>2. MetaInv /\ [Meta!Next]_(Meta!metaVars) => MetaInv'
  <2> SUFFICES ASSUME MetaInv, [Meta!Next]_(Meta!metaVars) PROVE MetaInv'
    OBVIOUS
  <2>0. \A q \in MetaRequests : stageOf[q] = "sent" => start <= cached[q].sent /\ cached[q].sent <= now
    BY DEF MetaInv, MetasAreTrue
  <2>1. CASE UNCHANGED Meta!metaVars
    <3>1. /\ UNCHANGED <<mode, now, start, metaCache, mirror, limiter, stageOf, readFor>>
          /\ UNCHANGED <<cached, used, fellBack, unsaved>>
      BY <2>1 DEF Meta!metaVars
    <3>2. Meta!PublishedIsFound'
      BY <3>1, AllFind, AllFindNext DEF MetaInv, MetasAreTrue, Finds
    <3>3. MetasAreTrue'
      BY <3>1, <3>2 DEF MetaInv, MetasAreTrue, Truthful, Queue
    <3> QED BY <3>1, <3>3 DEF MetaInv, MetaTypes, QueueIsOrdered, UsersAreCounted, Users, Inside,
                              Savers, LastSaveIsMemory, Queue
  <2>2. ASSUME NEW r \in MetaRequests,
               \/ Meta!Begin(r) \/ Meta!Decide(r) \/ Meta!Send(r) \/ Meta!FetchFails(r) \/ Meta!FallBack(r)
        PROVE  MetaInv'
    <3>1. MetaTypes'
      BY <2>2, QuietSteps DEF MetaInv
    <3>2. QueueIsOrdered'
      <4>1. Meta!Decide(r) \/ stageOf[r] \in {"new", "fetch", "sent", "fallback"}
        BY <2>2 DEF Meta!Begin, Meta!Send, Meta!FetchFails, Meta!FallBack
      <4>2. \A i \in DOMAIN Queue : Queue[i].r # r
        BY <4>1, NotQueued DEF MetaInv
      <4>3. /\ Queue' = Queue /\ mode' = mode
            /\ \A q \in MetaRequests \ {r} :
                 stageOf'[q] = stageOf[q] /\ cached'[q] = cached[q] /\ readFor'[q] = readFor[q]
        BY <2>2, QuietSteps DEF MetaInv
      <4> QED BY <4>2, <4>3, QueueStaysOrdered DEF MetaInv
    <3>3. UsersAreCounted'
      BY <2>2, QuietStepsCount DEF MetaInv
    <3>4. LastSaveIsMemory'
      BY <2>2, QuietStepsMirror DEF MetaInv
    <3>5. MetasAreTrue'
      BY <2>2, BeginTrue, DecideTrue, FetchingTrue DEF MetaInv
    <3> QED BY <3>1, <3>2, <3>3, <3>4, <3>5 DEF MetaInv
  <2>3. ASSUME NEW r \in MetaRequests, Meta!AskMirror(r) PROVE MetaInv'
    <3>1. MetaTypes'
      BY <2>3, AskMirrorDoes DEF MetaInv
    <3> QED BY <2>3, <3>1, AskMirrorOrders, AskMirrorCounts, AskMirrorMirror, AskMirrorTrue DEF MetaInv
  <2>4. ASSUME NEW r \in MetaRequests, Meta!Fetched(r) PROVE MetaInv'
    <3>1. MetaTypes'
      BY <2>0, <2>4, FetchedDoes DEF MetaInv
    <3> QED BY <2>0, <2>4, <3>1, FetchedOrders, FetchedCounts, FetchedMirror, FetchedTrue DEF MetaInv
  <2>5. CASE Meta!RunOp
    BY <2>5, RunOpOrders, RunOpCounts, RunOpMirror, RunOpTrue DEF MetaInv
  <2>6. CASE Meta!Publish
    BY <2>6, PublishKeeps
  <2> QED BY <2>1, <2>2, <2>3, <2>4, <2>5, <2>6 DEF Meta!Next, Meta!Step, Meta!Over
<1> QED BY <1>1, <1>2, PTL DEF Meta!SafetySpec

LEMMA MetaFailuresAreCounted ==
  ASSUME Meta!MetaAssumption, failures \in 0..MaxFailures, [Meta!Next]_(Meta!metaVars)
  PROVE  failures' \in 0..MaxFailures
<1> USE DEF Meta!MetaAssumption
<1>1. ASSUME NEW r \in MetaRequests, Meta!FetchFails(r) PROVE failures' \in 0..MaxFailures
  BY <1>1 DEF Meta!FetchFails
<1>2. CASE Meta!RunOp
  BY <1>2 DEF Meta!RunOp, Meta!Load, Meta!Save
<1>3. ASSUME NEW r \in MetaRequests, \/ Meta!Begin(r) \/ Meta!AskMirror(r) \/ Meta!Decide(r)
                                     \/ Meta!Send(r) \/ Meta!Fetched(r) \/ Meta!FallBack(r)
      PROVE  failures' = failures
  BY <1>3 DEF Meta!Begin, Meta!AskMirror, Meta!Decide, Meta!Send, Meta!Fetched, Meta!FallBack
<1>4. CASE Meta!Publish \/ UNCHANGED Meta!metaVars
  BY <1>4 DEF Meta!Publish, Meta!metaVars
<1> QED BY <1>1, <1>2, <1>3, <1>4 DEF Meta!Next, Meta!Step, Meta!Over

\* The states of the requests for metadata are what they should be; the count
\* of the limiter is never less than nothing, and it has no more users than twice
\* the requests.
THEOREM MetaTypeCorrect == ASSUME Meta!MetaAssumption PROVE Meta!SafetySpec => []Meta!MetaTypeOK
<1> DEFINE Counted == failures \in 0..MaxFailures
<1>1. Meta!Init => Counted
  BY DEF Meta!Init, Meta!StartsWith, Meta!MetaAssumption
<1>2. Counted /\ [Meta!Next]_(Meta!metaVars) => Counted'
  BY MetaFailuresAreCounted
<1>3. ASSUME MetaInv, Counted PROVE Meta!MetaTypeOK
  <2>1. Users \subseteq MetaRequests
    BY DEF Users, Inside, Savers
  <2>2. Cardinality(Users) \in Nat /\ Cardinality(MetaRequests) \in Nat
        /\ Cardinality(Users) <= Cardinality(MetaRequests)
    BY <2>1, FiniteRequests, FS_Subset, FS_CardinalityType
  <2>3. Meta!Cardinality(MetaRequests) = Cardinality(MetaRequests)
    BY Zenon DEF Meta!Cardinality, Cardinality
  <2>4. limiter.count \in 0..(2 * Meta!Cardinality(MetaRequests))
    BY <1>3, <2>2, <2>3 DEF MetaInv, UsersAreCounted
  <2> QED BY <1>3, <2>4 DEF MetaInv, MetaTypes, Ops, Meta!MetaTypeOK
<1>4. MetaInv /\ Counted => Meta!MetaTypeOK
  BY <1>3
<1> HIDE DEF Counted
<1> QED BY <1>1, <1>2, <1>4, MetaInvariant, PTL DEF Meta!SafetySpec

\* A request that may use the network and whose own fetch does not fail finds
\* what was published before the process began: stale mirrors, the fallbacks of
\* other requests and late answers do not hide it.
THEOREM PublishedVersionsAreFound ==
  ASSUME Meta!MetaAssumption PROVE Meta!SafetySpec => []Meta!PublishedIsFound
<1>1. MetaInv => Meta!PublishedIsFound
  BY DEF MetaInv, MetasAreTrue
<1> QED BY <1>1, MetaInvariant, PTL

\* When nothing waits to be saved the mirror holds what is in memory, unless a
\* save failed: the one is set and the save of the other queued in one order.
THEOREM MirrorIsMemory ==
  ASSUME Meta!MetaAssumption PROVE Meta!SafetySpec => []Meta!MirrorFollowsMemory
<1>1. MetaInv => Meta!MirrorFollowsMemory
  BY DEF MetaInv, LastSaveIsMemory, Meta!MirrorFollowsMemory, Queue
<1> QED BY <1>1, MetaInvariant, PTL

\* A limiter that is dropped, with a count of zero, has nothing in its queue: a
\* load is of a request inside, and a save is counted by itself.
THEOREM LimiterOutlives ==
  ASSUME Meta!MetaAssumption PROVE Meta!SafetySpec => []Meta!LimiterOutlivesItsQueue
<1>1. ASSUME MetaInv PROVE Meta!LimiterOutlivesItsQueue
  <2> SUFFICES ASSUME limiter.count = 0, Queue # <<>> PROVE FALSE
    BY DEF Meta!LimiterOutlivesItsQueue, Queue
  <2>1. IsFiniteSet(Users)
    <3>1. Users \subseteq MetaRequests
      BY DEF Users, Inside, Savers
    <3> QED BY <3>1, FiniteRequests, FS_Subset
  <2>2. Users = {}
    BY <1>1, <2>1, FS_EmptySet DEF MetaInv, UsersAreCounted
  <2>3. 1 \in DOMAIN Queue
    <3>1. Queue \in Seq(Ops)
      BY <1>1 DEF MetaInv, MetaTypes, Queue
    <3>2. Len(Queue) \in Nat \ {0} /\ DOMAIN Queue = 1..Len(Queue)
      BY <3>1, EmptySeq, LenProperties
    <3> QED BY <3>2
  <2>4. Queue[1].r \in MetaRequests /\ Queue[1].op \in {"load", "save"}
    BY <1>1, <2>3, QueuedOps DEF MetaInv
  <2>5. Queue[1].r \in Users
    BY <1>1, <2>3, <2>4 DEF MetaInv, QueueIsOrdered, Users, Inside, Savers
  <2> QED BY <2>2, <2>5
<1>2. MetaInv => Meta!LimiterOutlivesItsQueue
  BY <1>1
<1> QED BY <1>2, MetaInvariant, PTL

-----------------------------------------------------------------------------
\* The side-effects cache

\* An index of the package's own files each entry of which makes of them what
\* was built under its key.
TrueIndex(c) ==
  /\ c = [files |-> Base, effects |-> c.effects]
  /\ \A k \in DOMAIN c.effects :
       \E u \in Uploads : Key[u] = k /\ Fx!Apply(Base, c.effects[k]) = Built[u]

FxTypes ==
  /\ path \in [{"index"} \cup Fx!Temps -> Fx!Inodes \cup {0}] /\ path["index"] # 0
  /\ content = [i \in Fx!Inodes |-> content[i]]
  /\ at \in [Fx!Writers -> {"start", "ready", "open", "written", "imported", "done"}]
  /\ holds = [w \in Fx!Writers |-> holds[w]]
  /\ fd \in [Fx!Writers -> Fx!Inodes \cup {0}]
  /\ imported = [i \in FxInstalls |-> imported[i]]
  /\ stored \subseteq Uploads /\ overlap \in BOOLEAN

\* Wherever an index is, on its way or at its path.
IndexesAreSound ==
  /\ \A i \in Fx!Inodes : \A c, d \in content[i] : TrueIndex(c) /\ c = d
  /\ \A w \in Fx!Writers : TrueIndex(holds[w])
  /\ \A w \in Fx!Writers : at[w] = "open" => fd[w] \in Fx!Inodes
  /\ Fx!ImportedIsWhole

\* No file is at two paths.
PathsDiffer ==
  \A p, q \in {"index"} \cup Fx!Temps : path[p] = path[q] /\ path[p] # 0 => p = q

\* As long as none overlaps another, a writer is alone with its temporary file,
\* and what it holds has all that was stored.
OneWritesAtATime ==
  ~overlap =>
    /\ \A v, w \in Fx!Writers : Fx!Busy(v) /\ Fx!Busy(w) => v = w
    /\ \E c \in Fx!Index : \A u \in stored : Key[u] \in DOMAIN c.effects
    /\ \A w \in Uploads : Fx!Busy(w) =>
         \A u \in stored \cup {w} : Key[u] \in DOMAIN holds[w].effects
    /\ \A w \in Fx!Writers : at[w] \in {"open", "written"} =>
         /\ path[Pid[w]] = fd[w] /\ fd[w] \in Fx!Inodes
         /\ content[fd[w]] = IF at[w] = "open" THEN {} ELSE {holds[w]}

FxInv == FxTypes /\ IndexesAreSound /\ PathsDiffer /\ OneWritesAtATime

\* Applied to what it was calculated from, a difference gives what was built.
LEMMA DiffApplies ==
  ASSUME NEW base, NEW made \in Fx!PackageFiles
  PROVE  Fx!Apply(base, Fx!Diff(base, made)) = made
<1> DEFINE diff == Fx!Diff(base, made)
           new == {g \in DOMAIN made : g \notin DOMAIN base \/ base[g] # made[g]}
<1>1. diff.added = [f \in new |-> made[f]] /\ diff.deleted = DOMAIN base \ DOMAIN made
  BY DEF Fx!Diff
<1>2. DOMAIN diff.added = new
  BY <1>1
<1>3. DOMAIN diff.added \cup (DOMAIN base \ diff.deleted) = DOMAIN made
  BY <1>1, <1>2
<1>4. \A f \in DOMAIN made : (IF f \in DOMAIN diff.added THEN diff.added[f] ELSE base[f]) = made[f]
  BY <1>1, <1>2
<1>5. made = [f \in DOMAIN made |-> made[f]]
  BY DEF Fx!PackageFiles
<1>6. Fx!Apply(base, diff) = [f \in DOMAIN made |-> made[f]]
  BY <1>3, <1>4 DEF Fx!Apply
<1> QED BY <1>5, <1>6

LEMMA FirstIsTrue == TrueIndex(Fx!FirstIndex)
  BY DEF TrueIndex, Fx!FirstIndex

\* An upload adds its entry to what it read.
LEMMA WithEffectIsTrue ==
  ASSUME Fx!SideEffectsAssumption, NEW c, TrueIndex(c), NEW u \in Uploads
  PROVE  /\ TrueIndex(Fx!WithEffect(c, u))
         /\ DOMAIN Fx!WithEffect(c, u).effects = DOMAIN c.effects \cup {Key[u]}
<1> DEFINE d == Fx!WithEffect(c, u)
           entry == Fx!Diff(Base, Built[u])
<1>1. c.files = Base /\ d = [files |-> Base, effects |-> d.effects]
  BY DEF TrueIndex, Fx!WithEffect
<1>2. d.effects = [k \in DOMAIN c.effects \cup {Key[u]} |->
                     IF k = Key[u] THEN entry ELSE c.effects[k]]
  BY <1>1 DEF TrueIndex, Fx!WithEffect
<1>3. Fx!Apply(Base, entry) = Built[u]
  BY DiffApplies DEF Fx!SideEffectsAssumption
<1>4. ASSUME NEW k \in DOMAIN d.effects
      PROVE  \E v \in Uploads : Key[v] = k /\ Fx!Apply(Base, d.effects[k]) = Built[v]
  <2>1. CASE k = Key[u]
    BY <1>2, <1>3, <2>1
  <2>2. CASE k # Key[u]
    BY <1>2, <2>2 DEF TrueIndex
  <2> QED BY <2>1, <2>2
<1> QED BY <1>1, <1>2, <1>4 DEF TrueIndex

LEMMA SameCardinality == ASSUME NEW S PROVE Fx!Cardinality(S) = Cardinality(S)
  BY Zenon DEF Fx!Cardinality, Cardinality

LEMMA ImageIsSmall ==
  ASSUME NEW S, IsFiniteSet(S), NEW f
  PROVE  LET T == {f[x] : x \in S} IN IsFiniteSet(T) /\ Cardinality(T) <= Cardinality(S)
<1> DEFINE T == {f[x] : x \in S}
           g == [x \in S |-> f[x]]
<1>1. g \in Surjection(S, T)
  BY DEF Surjection
<1> QED BY <1>1, FS_Surjection

\* There is always an inode left for the temporary file of a process.
LEMMA InodesSuffice ==
  ASSUME Fx!SideEffectsAssumption, FxTypes, NEW w \in Fx!Writers, path[Pid[w]] = 0
  PROVE  \E n \in Fx!Inodes : /\ \A p \in DOMAIN path : path[p] # n
                              /\ \A v \in Fx!Writers : fd[v] # n
<1> DEFINE W == Fx!Writers
           others == ({"index"} \cup Fx!Temps) \ {Pid[w]}
           pathsUsed == {path[p] : p \in others}
           fdsUsed == {fd[v] : v \in W}
           taken == pathsUsed \cup fdsUsed
<1>1. IsFiniteSet(W)
  BY Zenon DEF Fx!SideEffectsAssumption, Fx!IsFiniteSet, IsFiniteSet
<1>2. IsFiniteSet(Fx!Temps)
  BY <1>1, ImageIsSmall DEF Fx!Temps
<1>3. Cardinality(W) \in Nat /\ Cardinality(Fx!Temps) \in Nat
  BY <1>1, <1>2, FS_CardinalityType
<1>4. Fx!Inodes = 1..(Cardinality(Fx!Temps) + Cardinality(W) + 1)
  <2>1. Fx!Cardinality(Fx!Temps) = Cardinality(Fx!Temps) /\ Fx!Cardinality(W) = Cardinality(W)
    BY SameCardinality
  <2> QED BY <2>1 DEF Fx!Inodes
<1>5. IsFiniteSet(others) /\ Cardinality(others) <= Cardinality(Fx!Temps)
  <2> DEFINE T == Fx!Temps \cup {"index"}
  <2>1. /\ IsFiniteSet(T)
        /\ Cardinality(T) =
             IF "index" \in Fx!Temps THEN Cardinality(Fx!Temps) ELSE Cardinality(Fx!Temps) + 1
    BY <1>2, FS_AddElement, Zenon
  <2>2. Pid[w] \in T
    BY DEF Fx!Temps
  <2>3. /\ IsFiniteSet(T \ {Pid[w]})
        /\ Cardinality(T \ {Pid[w]}) = IF Pid[w] \in T THEN Cardinality(T) - 1 ELSE Cardinality(T)
    BY <2>1, FS_RemoveElement, Zenon
  <2>4. others = T \ {Pid[w]}
    OBVIOUS
  <2>5. IsFiniteSet(others) /\ Cardinality(others) = Cardinality(T) - 1
    BY <2>2, <2>3, <2>4, Zenon
  <2> HIDE DEF T, others
  <2> QED BY <1>3, <2>1, <2>5
<1>6. IsFiniteSet(pathsUsed) /\ Cardinality(pathsUsed) <= Cardinality(others)
  BY <1>5, ImageIsSmall
<1>7. IsFiniteSet(fdsUsed) /\ Cardinality(fdsUsed) <= Cardinality(W)
  BY <1>1, ImageIsSmall
<1>8. IsFiniteSet(taken) /\ Cardinality(taken) <= Cardinality(Fx!Temps) + Cardinality(W)
  <2>1. /\ IsFiniteSet(pathsUsed \cup fdsUsed)
        /\ Cardinality(pathsUsed \cup fdsUsed)
             = Cardinality(pathsUsed) + Cardinality(fdsUsed) - Cardinality(pathsUsed \cap fdsUsed)
    BY <1>6, <1>7, FS_Union
  <2>2. IsFiniteSet(pathsUsed \cap fdsUsed)
    BY <1>6, FS_Intersection
  <2>3. /\ Cardinality(pathsUsed) \in Nat /\ Cardinality(fdsUsed) \in Nat
        /\ Cardinality(pathsUsed \cap fdsUsed) \in Nat /\ Cardinality(others) \in Nat
    BY <1>5, <1>6, <1>7, <2>2, FS_CardinalityType
  <2> HIDE DEF pathsUsed, fdsUsed, others
  <2> QED BY <1>3, <1>5, <1>6, <1>7, <2>1, <2>3
<1>9. PICK n \in Fx!Inodes : n \notin taken
  <2> SUFFICES ASSUME Fx!Inodes \subseteq taken PROVE FALSE
    OBVIOUS
  <2>1. IsFiniteSet(Fx!Inodes) /\ Cardinality(Fx!Inodes) = Cardinality(Fx!Temps) + Cardinality(W) + 1
    <3> DEFINE n == Cardinality(Fx!Temps) + Cardinality(W) + 1
    <3>1. 1 \in Int /\ n \in Int /\ n >= 1 /\ n - 1 + 1 = n
      BY <1>3
    <3>2. Fx!Inodes = 1..n
      BY <1>4
    <3> HIDE DEF n
    <3>3. IsFiniteSet(1..n) /\ Cardinality(1..n) = n
      BY <3>1, FS_Interval
    <3> QED BY <3>2, <3>3 DEF n
  <2>2. Cardinality(Fx!Inodes) <= Cardinality(taken)
    BY <1>8, FS_Subset
  <2>3. Cardinality(taken) \in Nat
    BY <1>8, FS_CardinalityType
  <2> QED BY <1>3, <1>8, <2>1, <2>2, <2>3
<1>10. \A p \in DOMAIN path : path[p] # n
  <2>1. 0 # n
    BY <1>3, <1>4
  <2>2. DOMAIN path = {"index"} \cup Fx!Temps
    BY DEF FxTypes
  <2>3. \A p \in others : path[p] # n
    BY <1>9
  <2> QED BY <2>1, <2>2, <2>3
<1>11. \A v \in Fx!Writers : fd[v] # n
  BY <1>9
<1> QED BY <1>10, <1>11

LEMMA InodesBegin == ASSUME Fx!SideEffectsAssumption PROVE 1 \in Fx!Inodes /\ 0 \notin Fx!Inodes
<1>1. IsFiniteSet(Fx!Writers)
  BY Zenon DEF Fx!SideEffectsAssumption, Fx!IsFiniteSet, IsFiniteSet
<1>2. IsFiniteSet(Fx!Temps)
  BY <1>1, ImageIsSmall DEF Fx!Temps
<1>3. Cardinality(Fx!Writers) \in Nat /\ Cardinality(Fx!Temps) \in Nat
  BY <1>1, <1>2, FS_CardinalityType
<1>4. /\ Fx!Cardinality(Fx!Temps) = Cardinality(Fx!Temps)
      /\ Fx!Cardinality(Fx!Writers) = Cardinality(Fx!Writers)
  BY SameCardinality
<1> QED BY <1>3, <1>4 DEF Fx!Inodes

LEMMA FxConstants ==
  ASSUME Fx!SideEffectsAssumption
  PROVE  /\ Uploads \subseteq Fx!Writers /\ FxInstalls \subseteq Fx!Writers
         /\ \A i \in FxInstalls : i \notin Uploads
         /\ "index" \notin Fx!Temps /\ \A w \in Fx!Writers : Pid[w] \in Fx!Temps
  BY DEF Fx!SideEffectsAssumption, Fx!Writers, Fx!Temps

LEMMA FxStarts == ASSUME Fx!SideEffectsAssumption, Fx!Init PROVE FxInv
<1> USE DEF Fx!Init
<1>1. 1 \in Fx!Inodes /\ 0 \notin Fx!Inodes
  BY InodesBegin
<1>2. FxTypes
  BY <1>1 DEF FxTypes, Fx!NoInode
<1>3. IndexesAreSound
  BY FirstIsTrue DEF IndexesAreSound, Fx!ImportedIsWhole
<1>4. PathsDiffer
  BY DEF PathsDiffer, Fx!NoInode
<1>5. OneWritesAtATime
  <2>1. \A w \in Fx!Writers : ~Fx!Busy(w) /\ at[w] \notin {"open", "written"}
    BY DEF Fx!Busy
  <2>2. Fx!Index = {Fx!FirstIndex}
    BY <1>1 DEF Fx!Index
  <2> QED BY <2>1, <2>2 DEF OneWritesAtATime, Fx!Writers
<1> QED BY <1>2, <1>3, <1>4, <1>5 DEF FxInv

LEMMA ReadForUploadKeeps ==
  ASSUME Fx!SideEffectsAssumption, FxInv, NEW u \in Uploads, Fx!ReadForUpload(u)
  PROVE  FxInv'
<1> USE FxConstants DEF FxInv, Fx!ReadForUpload
<1>1. FxTypes'
  BY DEF FxTypes
<1>2. path["index"] \in Fx!Inodes
  BY DEF FxTypes
<1>3. ASSUME NEW c \in Fx!Index, holds' = [holds EXCEPT ![u] = Fx!WithEffect(c, u)],
             at' = [at EXCEPT ![u] = "ready"]
      PROVE  FxInv'
  <2>1. TrueIndex(c)
    BY <1>2, <1>3 DEF Fx!Index, IndexesAreSound
  <2>2. /\ TrueIndex(Fx!WithEffect(c, u))
        /\ DOMAIN Fx!WithEffect(c, u).effects = DOMAIN c.effects \cup {Key[u]}
    BY <2>1, WithEffectIsTrue
  <2>3. /\ holds'[u] = Fx!WithEffect(c, u) /\ \A w \in Fx!Writers \ {u} : holds'[w] = holds[w]
        /\ at'[u] = "ready" /\ \A w \in Fx!Writers \ {u} : at'[w] = at[w]
    BY <1>3 DEF FxTypes
  <2>4. IndexesAreSound'
    BY <2>2, <2>3 DEF IndexesAreSound, Fx!ImportedIsWhole
  <2>5. PathsDiffer'
    BY DEF PathsDiffer
  <2>6. ASSUME ~overlap' PROVE OneWritesAtATime'
    <3>1. ~overlap /\ \A w \in Fx!Writers \ {u} : ~Fx!Busy(w)
      BY <2>6
    <3>2. \A w \in Fx!Writers \ {u} : ~(Fx!Busy(w))'
      BY <2>3, <3>1 DEF Fx!Busy
    <3>3. PICK d \in Fx!Index : \A v \in stored : Key[v] \in DOMAIN d.effects
      BY <3>1 DEF OneWritesAtATime
    <3>4. c = d
      BY <1>2, <3>3, <1>3 DEF Fx!Index, IndexesAreSound
    <3>5. Fx!Index' = Fx!Index
      BY DEF Fx!Index
    <3>6. \A v \in stored' \cup {u} : Key[v] \in DOMAIN (holds'[u]).effects
      BY <2>2, <2>3, <3>3, <3>4
    <3>7. \A w \in Fx!Writers : at'[w] \notin {"open", "written"}
      BY <2>3, <3>2 DEF Fx!Busy
    <3> QED BY <3>2, <3>3, <3>5, <3>6, <3>7 DEF OneWritesAtATime
  <2> QED BY <1>1, <2>4, <2>5, <2>6 DEF OneWritesAtATime
<1>4. ASSUME UNCHANGED holds, at' = [at EXCEPT ![u] = "done"] PROVE FxInv'
  <2>1. at'[u] = "done" /\ \A w \in Fx!Writers \ {u} : at'[w] = at[w]
    BY <1>4 DEF FxTypes
  <2>2. IndexesAreSound' /\ PathsDiffer'
    BY <1>4, <2>1 DEF IndexesAreSound, PathsDiffer, Fx!ImportedIsWhole
  <2>3. ASSUME NEW w \in Fx!Writers, (Fx!Busy(w))' PROVE Fx!Busy(w) /\ at'[w] = at[w]
    BY <2>1, <2>3 DEF Fx!Busy
  <2>4. ASSUME NEW w \in Fx!Writers, at'[w] \in {"open", "written"}
        PROVE  at[w] = at'[w]
    BY <2>1, <2>4
  <2>5. OneWritesAtATime'
    BY <1>4, <2>3, <2>4 DEF OneWritesAtATime, Fx!Index
  <2> QED BY <1>1, <2>2, <2>5
<1> QED BY <1>3, <1>4

LEMMA OpenTempKeeps ==
  ASSUME Fx!SideEffectsAssumption, FxInv, NEW w \in Fx!Writers, Fx!OpenTemp(w)
  PROVE  FxInv'
<1> USE FxConstants, InodesBegin DEF FxInv, Fx!NoInode
<1> DEFINE p == Pid[w]
<1>1. PICK i \in Fx!Inodes :
        /\ \/ path[p] = i
           \/ path[p] = 0 /\ \A q \in DOMAIN path : path[q] # i
        /\ at[w] = "ready" /\ at' = [at EXCEPT ![w] = "open"]
        /\ path' = [path EXCEPT ![p] = i] /\ fd' = [fd EXCEPT ![w] = i]
        /\ content' = [content EXCEPT ![i] = {}]
        /\ UNCHANGED <<holds, imported, stored, overlap>>
  <2>1. CASE path[p] # 0
    <3>1. path[p] \in Fx!Inodes
      BY <2>1 DEF FxTypes
    <3> QED BY <2>1, <3>1 DEF Fx!OpenTemp
  <2>2. CASE path[p] = 0
    <3> DEFINE n == CHOOSE n \in Fx!Inodes : /\ \A q \in DOMAIN path : path[q] # n
                                             /\ \A v \in Fx!Writers : fd[v] # n
    <3>1. n \in Fx!Inodes /\ \A q \in DOMAIN path : path[q] # n
      BY <2>2, InodesSuffice
    <3> QED BY <2>2, <3>1 DEF Fx!OpenTemp
  <2> QED BY <2>1, <2>2
<1>2. at'[w] = "open" /\ fd'[w] = i /\ path'[p] = i /\ content'[i] = {}
  BY <1>1 DEF FxTypes
<1>3. /\ \A v \in Fx!Writers \ {w} : at'[v] = at[v] /\ fd'[v] = fd[v]
      /\ \A q \in ({"index"} \cup Fx!Temps) \ {p} : path'[q] = path[q]
      /\ \A j \in Fx!Inodes \ {i} : content'[j] = content[j]
  BY <1>1 DEF FxTypes
<1>4. FxTypes'
  BY <1>1 DEF FxTypes
<1>5. PathsDiffer'
  BY <1>1, <1>2, <1>3 DEF PathsDiffer, FxTypes
<1>6. IndexesAreSound'
  BY <1>1, <1>2, <1>3 DEF IndexesAreSound, Fx!ImportedIsWhole
<1>7. ASSUME ~overlap' PROVE OneWritesAtATime'
  <2>1. ~overlap /\ Fx!Busy(w)
    BY <1>1, <1>7 DEF Fx!Busy
  <2>2. \A v \in Fx!Writers \ {w} : ~Fx!Busy(v)
    BY <2>1 DEF OneWritesAtATime
  <2>3. \A v \in Fx!Writers \ {w} : ~(Fx!Busy(v))' /\ at'[v] \notin {"open", "written"}
    BY <1>3, <2>2 DEF Fx!Busy
  <2>4. path["index"] # i /\ path["index"] \in Fx!Inodes /\ p # "index"
    BY <1>1 DEF PathsDiffer, FxTypes
  <2>5. Fx!Index' = Fx!Index
    BY <1>3, <2>4 DEF Fx!Index
  <2> QED BY <1>1, <1>2, <2>1, <2>3, <2>5 DEF OneWritesAtATime
<1> QED BY <1>4, <1>5, <1>6, <1>7 DEF OneWritesAtATime

LEMMA WriteTempKeeps ==
  ASSUME Fx!SideEffectsAssumption, FxInv, NEW w \in Fx!Writers, Fx!WriteTemp(w)
  PROVE  FxInv'
<1> USE FxConstants, InodesBegin DEF FxInv, Fx!WriteTemp
<1> DEFINE i == fd[w]
<1>1. i \in Fx!Inodes
  BY DEF IndexesAreSound
<1>2. \/ content' = [content EXCEPT ![i] = {holds[w]}]
      \/ content[i] # {} /\ content' = [content EXCEPT ![i] = {}]
  OBVIOUS
<1>3. /\ at'[w] = "written" /\ \A v \in Fx!Writers \ {w} : at'[v] = at[v]
      /\ \A j \in Fx!Inodes \ {i} : content'[j] = content[j]
      /\ content'[i] = {holds[w]} \/ (content[i] # {} /\ content'[i] = {})
  BY <1>1, <1>2 DEF FxTypes
<1>4. FxTypes'
  BY DEF FxTypes
<1>5. PathsDiffer'
  BY DEF PathsDiffer
<1>6. IndexesAreSound'
  BY <1>3 DEF IndexesAreSound, Fx!ImportedIsWhole
<1>7. ASSUME ~overlap' PROVE OneWritesAtATime'
  <2>1. ~overlap /\ Fx!Busy(w) /\ (Fx!Busy(w))'
    BY <1>3, <1>7 DEF Fx!Busy
  <2>2. \A v \in Fx!Writers \ {w} : ~Fx!Busy(v)
    BY <2>1 DEF OneWritesAtATime
  <2>3. \A v \in Fx!Writers \ {w} : ~(Fx!Busy(v))' /\ at'[v] \notin {"open", "written"}
    BY <1>3, <2>2 DEF Fx!Busy
  <2>4. path[Pid[w]] = i /\ content[i] = {}
    BY <2>1 DEF OneWritesAtATime
  <2>5. path["index"] # i /\ path["index"] \in Fx!Inodes
    BY <1>1, <2>4 DEF PathsDiffer, FxTypes
  <2>6. Fx!Index' = Fx!Index
    BY <1>3, <2>5 DEF Fx!Index
  <2>7. path'[Pid[w]] = fd'[w] /\ fd'[w] \in Fx!Inodes /\ content'[fd'[w]] = {holds'[w]}
    BY <1>1, <1>3, <2>4
  <2> QED BY <1>3, <2>1, <2>3, <2>6, <2>7 DEF OneWritesAtATime
<1> QED BY <1>4, <1>5, <1>6, <1>7 DEF OneWritesAtATime

LEMMA RenameKeeps ==
  ASSUME Fx!SideEffectsAssumption, FxInv, NEW w \in Fx!Writers, Fx!Rename(w)
  PROVE  FxInv'
<1> USE FxConstants, InodesBegin DEF FxInv, Fx!Rename, Fx!NoInode
<1> DEFINE p == Pid[w]
<1>1. at'[w] = "done" /\ \A v \in Fx!Writers \ {w} : at'[v] = at[v]
  BY DEF FxTypes
<1>2. p \in Fx!Temps /\ p # "index"
  OBVIOUS
<1>3. /\ path[p] = 0 => path' = path
      /\ path[p] # 0 =>
           /\ path'["index"] = path[p] /\ path'[p] = 0
           /\ \A q \in Fx!Temps \ {p} : path'[q] = path[q]
  BY <1>2 DEF FxTypes
<1>4. FxTypes'
  BY <1>2 DEF FxTypes, Fx!Writers
<1>5. PathsDiffer'
  BY <1>2, <1>3 DEF PathsDiffer, FxTypes
<1>6. IndexesAreSound'
  BY <1>1 DEF IndexesAreSound, Fx!ImportedIsWhole
<1>7. ASSUME ~overlap' PROVE OneWritesAtATime'
  <2>1. ~overlap /\ Fx!Busy(w)
    BY <1>7 DEF Fx!Busy
  <2>2. \A v \in Fx!Writers \ {w} : ~Fx!Busy(v)
    BY <2>1 DEF OneWritesAtATime
  <2>3. \A v \in Fx!Writers : ~(Fx!Busy(v))' /\ at'[v] \notin {"open", "written"}
    BY <1>1, <2>2 DEF Fx!Busy
  <2>4. path[p] = fd[w] /\ fd[w] \in Fx!Inodes /\ content[fd[w]] = {holds[w]}
    BY <2>1 DEF OneWritesAtATime
  <2>5. path'["index"] = fd[w] /\ Fx!Index' = {holds[w]}
    BY <1>3, <2>4 DEF Fx!Index
  <2>6. \A u \in stored' : Key[u] \in DOMAIN holds[w].effects
    <3>1. CASE w \in Uploads
      BY <2>1, <3>1 DEF OneWritesAtATime
    <3>2. CASE w \notin Uploads
      BY <3>2
    <3> QED BY <3>1, <3>2
  <2> QED BY <2>3, <2>5, <2>6 DEF OneWritesAtATime
<1> QED BY <1>4, <1>5, <1>6, <1>7 DEF OneWritesAtATime

\* A step that lets writers go only, and touches neither paths nor contents.
LEMMA FewerWriters ==
  ASSUME FxInv, FxTypes', UNCHANGED <<path, content, holds, fd, stored, overlap>>,
         \A w \in Fx!Writers : at'[w] = at[w] \/ at'[w] \in {"done", "imported"},
         Fx!ImportedIsWhole'
  PROVE  FxInv'
<1> USE DEF FxInv
<1>1. PathsDiffer' /\ IndexesAreSound'
  BY DEF PathsDiffer, IndexesAreSound
<1>2. \A w \in Fx!Writers : (Fx!Busy(w))' => Fx!Busy(w) /\ at'[w] = at[w]
  BY DEF Fx!Busy
<1>3. \A w \in Fx!Writers : at'[w] \in {"open", "written"} => at'[w] = at[w]
  OBVIOUS
<1>4. Uploads \subseteq Fx!Writers /\ Fx!Index' = Fx!Index
  BY DEF Fx!Writers, Fx!Index
<1>5. OneWritesAtATime'
  BY <1>2, <1>3, <1>4 DEF OneWritesAtATime
<1> QED BY <1>1, <1>5

LEMMA CrashKeeps ==
  ASSUME Fx!SideEffectsAssumption, FxInv, NEW p \in Fx!Temps, Fx!Crash(p)
  PROVE  FxInv'
<1>1. FxTypes'
  BY DEF FxInv, FxTypes, Fx!Crash
<1>2. Fx!ImportedIsWhole'
  BY DEF FxInv, IndexesAreSound, Fx!ImportedIsWhole, Fx!Crash
<1> QED BY <1>1, <1>2, FewerWriters DEF Fx!Crash

LEMMA ImportKeeps ==
  ASSUME Fx!SideEffectsAssumption, FxInv, NEW i \in FxInstalls,
         Fx!Import(i) \/ Fx!ImportWithoutEffects(i)
  PROVE  FxInv'
<1> USE FxConstants DEF FxInv, Fx!Import, Fx!ImportWithoutEffects
<1>1. PICK c \in Fx!Index : imported' = [imported EXCEPT ![i] = Fx!FlatMap(c)]
                            \/ imported' = [imported EXCEPT ![i] = c.files]
  OBVIOUS
<1>2. TrueIndex(c) /\ c.files = Base
  BY DEF FxTypes, IndexesAreSound, Fx!Index, TrueIndex
<1>3. Fx!FlatMap(c) \in {Base} \cup {Built[u] : u \in {v \in Uploads : Key[v] = ImportKey}}
  BY <1>2 DEF Fx!FlatMap, TrueIndex
<1>4. FxTypes'
  BY <1>1 DEF FxTypes
<1>5. Fx!ImportedIsWhole'
  BY <1>1, <1>2, <1>3 DEF FxTypes, IndexesAreSound, Fx!ImportedIsWhole
<1> QED BY <1>4, <1>5, FewerWriters DEF FxTypes

LEMMA RefetchKeeps ==
  ASSUME Fx!SideEffectsAssumption, FxInv, NEW i \in FxInstalls, Fx!Refetch(i)
  PROVE  FxInv'
<1> USE FxConstants DEF FxInv, Fx!Refetch
<1>1. /\ at'[i] = "ready" /\ holds'[i] = Fx!FirstIndex
      /\ \A w \in Fx!Writers \ {i} : at'[w] = at[w] /\ holds'[w] = holds[w]
  BY DEF FxTypes
<1>2. FxTypes'
  BY DEF FxTypes
<1>3. PathsDiffer'
  BY DEF PathsDiffer
<1>4. IndexesAreSound'
  BY <1>1, FirstIsTrue DEF IndexesAreSound, Fx!ImportedIsWhole, FxTypes
<1>5. ASSUME ~overlap' PROVE OneWritesAtATime'
  <2>1. ~overlap /\ \A w \in Fx!Writers \ {i} : ~Fx!Busy(w)
    BY <1>5
  <2>2. \A w \in Fx!Writers \ {i} : ~(Fx!Busy(w))' /\ at'[w] \notin {"open", "written"}
    BY <1>1, <2>1 DEF Fx!Busy
  <2>3. Fx!Index' = Fx!Index
    BY DEF Fx!Index
  <2> QED BY <1>1, <2>1, <2>2, <2>3 DEF OneWritesAtATime
<1> QED BY <1>2, <1>3, <1>4, <1>5 DEF OneWritesAtATime

LEMMA FxInvariant == ASSUME Fx!SideEffectsAssumption PROVE Fx!SafetySpec => []FxInv
<1>1. Fx!Init => FxInv
  BY FxStarts
<1>2. FxInv /\ [Fx!Next]_Fx!fxVars => FxInv'
  <2> SUFFICES ASSUME FxInv, [Fx!Next]_Fx!fxVars PROVE FxInv'
    OBVIOUS
  <2>1. CASE UNCHANGED Fx!fxVars
    <3>1. FxTypes' /\ Fx!ImportedIsWhole'
      BY <2>1 DEF FxInv, FxTypes, IndexesAreSound, Fx!ImportedIsWhole, Fx!fxVars
    <3> QED BY <2>1, <3>1, FewerWriters DEF Fx!fxVars
  <2>2. CASE Fx!Step
    BY <2>2, ReadForUploadKeeps, OpenTempKeeps, WriteTempKeeps, RenameKeeps, ImportKeeps,
       RefetchKeeps DEF Fx!Step
  <2>3. CASE \E p \in Fx!Temps : Fx!Crash(p)
    BY <2>3, CrashKeeps
  <2> QED BY <2>1, <2>2, <2>3 DEF Fx!Next, Fx!Over
<1> QED BY <1>1, <1>2, PTL DEF Fx!SafetySpec

\* What the type invariant of an upload says of the entries of an index.
EffectsTyped(c) == \A k \in DOMAIN c.effects : c.effects[k] \in Fx!Diffs
EffectsAreTyped ==
  /\ \A i \in Fx!Inodes : \A c \in content[i] : EffectsTyped(c)
  /\ \A w \in Fx!Writers : EffectsTyped(holds[w])

LEMMA DiffTyped ==
  ASSUME NEW base \in Fx!PackageFiles, NEW made \in Fx!PackageFiles
  PROVE  Fx!Diff(base, made) \in Fx!Diffs
<1> DEFINE new == {g \in DOMAIN made : g \notin DOMAIN base \/ base[g] # made[g]}
<1>1. /\ DOMAIN base \subseteq FxNames /\ DOMAIN made \subseteq FxNames
      /\ made \in [DOMAIN made -> FxVersions]
  BY DEF Fx!PackageFiles
<1>2. [f \in new |-> made[f]] \in Fx!PackageFiles
  <2>1. new \in SUBSET FxNames /\ new \subseteq DOMAIN made
    BY <1>1
  <2> HIDE DEF new
  <2>2. [f \in new |-> made[f]] \in [new -> FxVersions]
    BY <1>1, <2>1
  <2> QED BY <2>1, <2>2 DEF Fx!PackageFiles
<1> QED BY <1>1, <1>2 DEF Fx!Diff, Fx!Diffs

LEMMA WithEffectTyped ==
  ASSUME Fx!SideEffectsAssumption, NEW c, TrueIndex(c), EffectsTyped(c), NEW u \in Uploads
  PROVE  EffectsTyped(Fx!WithEffect(c, u))
<1> DEFINE d == Fx!WithEffect(c, u)
           entry == Fx!Diff(Base, Built[u])
<1>1. c.files = Base
  BY DEF TrueIndex
<1>2. d.effects = [k \in DOMAIN c.effects \cup {Key[u]} |->
                     IF k = Key[u] THEN entry ELSE c.effects[k]]
  BY <1>1 DEF TrueIndex, Fx!WithEffect
<1>3. entry \in Fx!Diffs
  BY DiffTyped DEF Fx!SideEffectsAssumption
<1> HIDE DEF d, entry
<1>4. \A k \in DOMAIN d.effects : d.effects[k] \in Fx!Diffs
  BY <1>2, <1>3 DEF EffectsTyped
<1> QED BY <1>4 DEF EffectsTyped, d

LEMMA FxStepTyped ==
  ASSUME Fx!SideEffectsAssumption, FxInv, EffectsAreTyped, [Fx!Next]_Fx!fxVars
  PROVE  EffectsAreTyped'
<1> USE DEF EffectsAreTyped
<1>1. \A c \in Fx!Index : TrueIndex(c) /\ EffectsTyped(c)
  BY DEF FxInv, FxTypes, IndexesAreSound, Fx!Index
<1>2. holds = [w \in Fx!Writers |-> holds[w]] /\ content = [i \in Fx!Inodes |-> content[i]]
  BY DEF FxInv, FxTypes
<1>3. ASSUME NEW u \in Uploads, Fx!ReadForUpload(u) PROVE EffectsAreTyped'
  <2>1. content' = content
    BY <1>3 DEF Fx!ReadForUpload
  <2>2. \A w \in Fx!Writers : EffectsTyped(holds'[w])
    <3>1. CASE UNCHANGED holds
      BY <3>1
    <3>2. CASE \E c \in Fx!Index : holds' = [holds EXCEPT ![u] = Fx!WithEffect(c, u)]
      BY <1>1, <1>2, <3>2, WithEffectTyped
    <3> QED BY <1>3, <3>1, <3>2 DEF Fx!ReadForUpload
  <2> QED BY <2>1, <2>2
<1>4. ASSUME NEW w \in Fx!Writers, Fx!OpenTemp(w) \/ Fx!WriteTemp(w) \/ Fx!Rename(w) PROVE EffectsAreTyped'
  <2>1. holds' = holds
    BY <1>4 DEF Fx!OpenTemp, Fx!WriteTemp, Fx!Rename
  <2>2. \A i \in Fx!Inodes : \A c \in content'[i] : EffectsTyped(c)
    <3>1. CASE Fx!OpenTemp(w)
      BY <1>2, <3>1 DEF Fx!OpenTemp
    <3>2. CASE Fx!WriteTemp(w)
      BY <1>2, <3>2 DEF Fx!WriteTemp
    <3>3. CASE Fx!Rename(w)
      BY <3>3 DEF Fx!Rename
    <3> QED BY <1>4, <3>1, <3>2, <3>3
  <2> QED BY <2>1, <2>2
<1>5. ASSUME NEW i \in FxInstalls, Fx!Import(i) \/ Fx!ImportWithoutEffects(i) \/ Fx!Refetch(i)
      PROVE  EffectsAreTyped'
  <2>1. content' = content
    BY <1>5 DEF Fx!Import, Fx!ImportWithoutEffects, Fx!Refetch
  <2>2. EffectsTyped(Fx!FirstIndex)
    BY DEF Fx!FirstIndex, EffectsTyped
  <2>3. \A w \in Fx!Writers : EffectsTyped(holds'[w])
    <3>1. CASE Fx!Refetch(i)
      BY <1>2, <2>2, <3>1 DEF Fx!Refetch
    <3>2. CASE Fx!Import(i) \/ Fx!ImportWithoutEffects(i)
      BY <3>2 DEF Fx!Import, Fx!ImportWithoutEffects
    <3> QED BY <1>5, <3>1, <3>2
  <2> QED BY <2>1, <2>3
<1>6. ASSUME NEW p \in Fx!Temps, Fx!Crash(p) PROVE EffectsAreTyped'
  BY <1>6 DEF Fx!Crash
<1>7. CASE UNCHANGED Fx!fxVars
  BY <1>7 DEF Fx!fxVars
<1> QED BY <1>3, <1>4, <1>5, <1>6, <1>7 DEF Fx!Next, Fx!Step, Fx!Over

\* The states of the uploads into an index and of its readers are what they
\* should be.
THEOREM SideEffectsTypeCorrect ==
  ASSUME Fx!SideEffectsAssumption PROVE Fx!SafetySpec => []Fx!SideEffectsTypeOK
<1>1. ASSUME Fx!Init PROVE EffectsAreTyped
  <2>1. EffectsTyped(Fx!FirstIndex)
    BY DEF Fx!FirstIndex, EffectsTyped
  <2>2. \A i \in Fx!Inodes : \A c \in content[i] : c = Fx!FirstIndex
    BY <1>1 DEF Fx!Init
  <2>3. \A w \in Fx!Writers : holds[w] = Fx!FirstIndex
    BY <1>1 DEF Fx!Init
  <2> QED BY <2>1, <2>2, <2>3 DEF EffectsAreTyped
<1>2. FxInv /\ EffectsAreTyped /\ [Fx!Next]_Fx!fxVars => EffectsAreTyped'
  BY FxStepTyped
<1>3. ASSUME FxInv, EffectsAreTyped PROVE Fx!SideEffectsTypeOK
  <2>1. ASSUME NEW c, TrueIndex(c), EffectsTyped(c) PROVE Fx!IsIndex(c)
    <3>1. DOMAIN c = {"files", "effects"} /\ c.files = Base
      BY <2>1 DEF TrueIndex
    <3>2. DOMAIN c.effects \subseteq Fx!Keys
      BY <2>1 DEF TrueIndex, Fx!Keys
    <3> QED BY <2>1, <3>1, <3>2 DEF Fx!IsIndex, EffectsTyped, Fx!SideEffectsAssumption
  <2>2. /\ \A i \in Fx!Inodes : \A c \in content[i] : Fx!IsIndex(c)
        /\ \A w \in Fx!Writers : Fx!IsIndex(holds[w])
    BY <1>3, <2>1 DEF FxInv, IndexesAreSound, EffectsAreTyped
  <2>3. imported \in [FxInstalls -> Fx!PackageFiles]
    BY <1>3 DEF FxInv, FxTypes, IndexesAreSound, Fx!ImportedIsWhole, Fx!SideEffectsAssumption
  <2> QED BY <1>3, <2>2, <2>3 DEF FxInv, FxTypes, Fx!SideEffectsTypeOK, Fx!NoInode
<1>4. Fx!Init => EffectsAreTyped
  BY <1>1
<1>5. FxInv /\ EffectsAreTyped => Fx!SideEffectsTypeOK
  BY <1>3
<1> QED BY <1>2, <1>4, <1>5, FxInvariant, PTL DEF Fx!SafetySpec

\* Whatever mixture of workers and processes wrote the index of a package last,
\* each of its entries makes the package that was built under its key.
THEOREM EntriesStayTrue ==
  ASSUME Fx!SideEffectsAssumption PROVE Fx!SafetySpec => []Fx!EntriesAreTrue
<1>1. FxInv => Fx!EntriesAreTrue
  BY DEF FxInv, FxTypes, IndexesAreSound, TrueIndex, Fx!EntriesAreTrue, Fx!Index
<1> QED BY <1>1, FxInvariant, PTL

\* An install imports a package as it was fetched or as it was built.
THEOREM ImportsAreWhole ==
  ASSUME Fx!SideEffectsAssumption PROVE Fx!SafetySpec => []Fx!ImportedIsWhole
<1>1. FxInv => Fx!ImportedIsWhole
  BY DEF FxInv, IndexesAreSound
<1> QED BY <1>1, FxInvariant, PTL

\* What uploads stored is lost only where two writers of an index overlapped:
\* crashes, temporary files that are left behind and torn writes lose nothing.
THEOREM OverlapsAloneLose ==
  ASSUME Fx!SideEffectsAssumption PROVE Fx!SafetySpec => []Fx!LostByOverlapOnly
<1>1. FxInv => Fx!LostByOverlapOnly
  BY DEF FxInv, OneWritesAtATime, Fx!LostByOverlapOnly
<1> QED BY <1>1, FxInvariant, PTL

-----------------------------------------------------------------------------
\* The resolution of the tree

\* What the states of a resolution are made of, with the packages that were found.
Wanteds == {w \in [name : Tre!Names, range : (SUBSET Tre!Packages) \ {{}}, optional : BOOLEAN] : Tre!WantedOK(w)}
Aliases(F) == UNION {[D -> F \cup {"true"}] : D \in SUBSET Tre!Names}
ResolvedAs(F) == [name : Tre!Names, id : F]
Results(F) == [missing : SUBSET Wanteds, resolved : SUBSET ResolvedAs(F)]
Gots(F) == [id : F, isNew : BOOLEAN, waits : BOOLEAN, wants : SUBSET Wanteds]
TreeCalls(F) ==
  [phase : {"asking", "children", "peers", "done"}, pending : SUBSET Wanteds, got : SUBSET Gots(F),
   aliases : Aliases(F), depth : Nat, parents : SUBSET Tre!Packages, result : Results(F)]
WaitsFors == [depth : Nat, resolved : BOOLEAN, missing : SUBSET Wanteds]
ImporterStates(F) ==
  [stage : {"first", "loop", "round", "ready", "optional", "again"}, deps : SUBSET F,
   aliases : Aliases(F), missing : SUBSET Wanteds, resolved : SUBSET ResolvedAs(F),
   optional : SUBSET Wanteds]

Found == DOMAIN waits

TreeTypes ==
  /\ source \in Sources
  /\ Found \subseteq Tre!Packages /\ waits \in [Found -> WaitsFors]
  /\ Tre!Projects \subseteq DOMAIN groups /\ DOMAIN groups \subseteq Tre!Projects \cup Found
  /\ groups \in [DOMAIN groups -> TreeCalls(Found)]
  /\ DOMAIN children \subseteq Found /\ children \in [DOMAIN children -> SUBSET Found]
  /\ preferred \subseteq Tre!Packages
  /\ importers \in [Tre!Projects -> ImporterStates(Found)]
  /\ ended \in {"no", "ok", "failed"} /\ refusals \in 0..MaxRefusals

LEMMA MoreAliases ==
  ASSUME NEW F, NEW G, F \subseteq G
  PROVE  Aliases(F) \subseteq Aliases(G)
<1> SUFFICES ASSUME NEW D \in SUBSET Tre!Names, NEW a \in [D -> F \cup {"true"}]
             PROVE  a \in [D -> G \cup {"true"}]
  BY DEF Aliases
<1> QED OBVIOUS

LEMMA MoreIsFound ==
  ASSUME NEW F, NEW G, F \subseteq G
  PROVE  /\ Aliases(F) \subseteq Aliases(G) /\ ResolvedAs(F) \subseteq ResolvedAs(G)
         /\ Results(F) \subseteq Results(G) /\ Gots(F) \subseteq Gots(G)
         /\ TreeCalls(F) \subseteq TreeCalls(G) /\ ImporterStates(F) \subseteq ImporterStates(G)
<1>1. ResolvedAs(F) \subseteq ResolvedAs(G)
  BY DEF ResolvedAs
<1>2. Results(F) \subseteq Results(G)
  BY <1>1 DEF Results
<1>3. Gots(F) \subseteq Gots(G)
  BY DEF Gots
<1>4. TreeCalls(F) \subseteq TreeCalls(G)
  BY <1>2, <1>3, MoreAliases DEF TreeCalls
<1>5. ImporterStates(F) \subseteq ImporterStates(G)
  BY <1>1, MoreAliases DEF ImporterStates
<1> QED BY <1>1, <1>2, <1>3, <1>4, <1>5, MoreAliases

\* An object with some names.
LEMMA AliasesMade ==
  ASSUME NEW F, NEW D \in SUBSET Tre!Names, NEW a \in [D -> F \cup {"true"}]
  PROVE  a \in Aliases(F)
BY DEF Aliases

LEMMA AliasesUsed ==
  ASSUME NEW F, NEW a \in Aliases(F)
  PROVE  DOMAIN a \subseteq Tre!Names /\ \A n \in DOMAIN a : a[n] \in F \cup {"true"}
BY DEF Aliases

LEMMA OverTyped ==
  ASSUME NEW F, NEW a \in Aliases(F), NEW b \in Aliases(F)
  PROVE  Tre!Over(a, b) \in Aliases(F)
<1>1. DOMAIN a \cup DOMAIN b \in SUBSET Tre!Names
  BY AliasesUsed
<1>2. Tre!Over(a, b) \in [DOMAIN a \cup DOMAIN b -> F \cup {"true"}]
  BY AliasesUsed DEF Tre!Over
<1> QED BY <1>1, <1>2, AliasesMade

LEMMA CurrentTyped ==
  ASSUME NEW F \in SUBSET Tre!Packages, NEW call, call.got \in SUBSET Gots(F)
  PROVE  Tre!Current(call) \in Aliases(F)
<1> DEFINE D == {NamedAs[c.id] : c \in call.got}
<1>1. D \in SUBSET Tre!Names
  BY DEF Gots, Tre!Names
<1>2. ASSUME NEW n \in D PROVE (CHOOSE c \in call.got : NamedAs[c.id] = n).id \in F
  <2>1. PICK c \in call.got : NamedAs[c.id] = n
    OBVIOUS
  <2>2. (CHOOSE x \in call.got : NamedAs[x.id] = n) \in call.got
    BY <2>1
  <2> QED BY <2>2 DEF Gots
<1>3. Tre!Current(call) \in [D -> F \cup {"true"}]
  BY <1>2 DEF Tre!Current
<1> QED BY <1>1, <1>3, AliasesMade

LEMMA AroundTyped ==
  ASSUME NEW F \in SUBSET Tre!Packages, NEW call, call.got \in SUBSET Gots(F), call.aliases \in Aliases(F)
  PROVE  Tre!Around(call) \in Aliases(F)
BY CurrentTyped, OverTyped DEF Tre!Around

\* What a call misses, and what it finds around it, are again such.
LEMMA FilterTyped ==
  ASSUME NEW F, NEW r \in Results(F), NEW a \in Aliases(F)
  PROVE  Tre!FilterMissingPeers(r, a) \in Results(F)
<1> DEFINE here == {m \in r.missing : m.name \in DOMAIN a /\ a[m.name] # "true"}
<1>1. r.missing \subseteq Wanteds /\ r.resolved \subseteq ResolvedAs(F)
  BY DEF Results
<1>2. ASSUME NEW m \in here PROVE [name |-> m.name, id |-> a[m.name]] \in ResolvedAs(F)
  BY <1>1, AliasesUsed DEF ResolvedAs, Wanteds
<1> QED BY <1>1, <1>2 DEF Tre!FilterMissingPeers, Results

LEMMA MergeTyped ==
  ASSUME NEW missing \in SUBSET Wanteds
  PROVE  Tre!MergePkgsDeps(missing) \in SUBSET Wanteds
<1> DEFINE of(n) == {m \in missing : m.name = n}
           range(n) == {p \in Tre!Packages : \A m \in of(n) : p \in m.range}
<1>1. ASSUME NEW n \in {m.name : m \in missing}, range(n) # {}
      PROVE  [name |-> n, range |-> range(n), optional |-> \A m \in of(n) : m.optional] \in Wanteds
  <2>1. PICK m \in of(n) : TRUE
    OBVIOUS
  <2>2. n \in Tre!Names /\ \A q \in range(n) : NamedAs[q] = n
    BY <2>1 DEF Wanteds, Tre!WantedOK
  <2> QED BY <1>1, <2>2 DEF Wanteds, Tre!WantedOK
<1> QED BY <1>1 DEF Tre!MergePkgsDeps

LEMMA NewestTyped ==
  ASSUME Tre!TreeAssumption, NEW ids \in SUBSET Tre!Packages, ids # {}, NEW optional \in BOOLEAN
  PROVE  Tre!Newest(ids) \in ids /\ Tre!Wanted({Tre!Newest(ids)}, optional) \in Wanteds
<1>1. Tre!Newest(ids) \in ids
  BY DEF Tre!Newest, Tre!TreeAssumption
<1>2. \A x : (CHOOSE p \in {x} : TRUE) = x
  OBVIOUS
<1>3. Tre!Wanted({Tre!Newest(ids)}, optional)
        = [name |-> NamedAs[Tre!Newest(ids)], range |-> {Tre!Newest(ids)}, optional |-> optional]
  BY <1>2 DEF Tre!Wanted
<1>4. NamedAs[Tre!Newest(ids)] \in Tre!Names
  BY <1>1 DEF Tre!Names
<1> QED BY <1>1, <1>3, <1>4 DEF Wanteds, Tre!WantedOK

LEMMA HoistTyped ==
  ASSUME Tre!TreeAssumption, preferred \subseteq Tre!Packages, NEW missing \in SUBSET Wanteds
  PROVE  Tre!HoistPeers(missing) \in SUBSET Wanteds
<1> DEFINE known(m) == {p \in preferred : NamedAs[p] = m.name}
<1>1. ASSUME NEW m \in missing, known(m) # {}
      PROVE  Tre!Wanted({Tre!Newest(known(m))}, FALSE) \in Wanteds
  BY <1>1, NewestTyped
<1>2. ASSUME NEW m \in missing PROVE [m EXCEPT !.optional = FALSE] \in Wanteds
  BY DEF Wanteds, Tre!WantedOK
<1> QED BY <1>1, <1>2 DEF Tre!HoistPeers

LEMMA HoistableTyped ==
  ASSUME Tre!TreeAssumption, preferred \subseteq Tre!Packages, NEW missing \in SUBSET Wanteds
  PROVE  Tre!HoistableOptionalPeers(missing) \in SUBSET Wanteds
<1> DEFINE fit(n) == {p \in preferred : NamedAs[p] = n /\ \A m \in missing : m.name = n => p \in m.range}
<1>1. ASSUME NEW n, fit(n) # {} PROVE Tre!Wanted({Tre!Newest(fit(n))}, TRUE) \in Wanteds
  BY <1>1, NewestTyped
<1> QED BY <1>1 DEF Tre!HoistableOptionalPeers

LEMMA SourceTyped ==
  ASSUME Tre!TreeAssumption, source \in Sources, NEW id \in Tre!Packages, NEW around
  PROVE  source.peers[id] \in SUBSET Wanteds /\ Tre!Dependencies(id, around) \in SUBSET Wanteds
BY DEF Tre!TreeAssumption, Tre!SourceOK, Tre!WantedOK, Wanteds, Tre!Dependencies

LEMMA RootsTyped ==
  ASSUME Tre!TreeAssumption, source \in Sources, NEW p \in Tre!Projects
  PROVE  source.roots[p] \in SUBSET Wanteds /\ p \notin Tre!Packages
BY DEF Tre!TreeAssumption, Tre!SourceOK, Tre!WantedOK, Wanteds, Tre!Projects

\* The call that looks for the children of a new package is there, when its
\* parent has them.
NewOnesAreThere ==
  \A g \in DOMAIN groups : \A c \in Tre!NewOnes(groups[g]) :
    groups[g].phase # "asking" => c.id \in DOMAIN groups

LEMMA CallTyped ==
  ASSUME TreeTypes, NEW g \in DOMAIN groups
  PROVE  /\ groups[g] \in TreeCalls(Found) /\ groups[g].got \in SUBSET Gots(Found)
         /\ groups[g].aliases \in Aliases(Found) /\ groups[g].result \in Results(Found)
         /\ groups[g].pending \in SUBSET Wanteds /\ groups[g].depth \in Nat
         /\ groups[g].parents \in SUBSET Tre!Packages
<1>1. groups[g] \in TreeCalls(Found)
  BY DEF TreeTypes
<1> QED BY <1>1 DEF TreeCalls

LEMMA PeersResultTyped ==
  ASSUME Tre!TreeAssumption, TreeTypes, NewOnesAreThere, NEW g \in DOMAIN groups, groups[g].phase # "asking"
  PROVE  Tre!PeersResult(g) \in Results(Found)
<1> DEFINE call == groups[g]
           above == IF Tre!InFirst(g) THEN Tre!Around(call) ELSE call.aliases
           results == {Tre!OwnMissing(call)}
             \cup {Tre!FilterMissingPeers(groups[c.id].result, Tre!Around(call)) : c \in Tre!NewOnes(call)}
             \cup {Tre!FilterMissingPeers([missing |-> waits[c.id].missing, resolved |-> {}], above) :
                     c \in {x \in call.got : x.waits}}
<1>1. call.got \in SUBSET Gots(Found) /\ call.aliases \in Aliases(Found)
  BY CallTyped
<1>2. Found \in SUBSET Tre!Packages /\ source \in Sources
  BY DEF TreeTypes
<1>3. Tre!Around(call) \in Aliases(Found) /\ Tre!Current(call) \in Aliases(Found) /\ above \in Aliases(Found)
  BY <1>1, <1>2, AroundTyped, CurrentTyped
<1>4. Tre!OwnMissing(call) \in Results(Found)
  <2>1. UNION {source.peers[c.id] : c \in call.got} \in SUBSET Wanteds
    BY <1>1, <1>2, SourceTyped DEF Gots
  <2>2. [missing |-> UNION {source.peers[c.id] : c \in call.got}, resolved |-> {}] \in Results(Found)
    BY <2>1 DEF Results
  <2> QED BY <2>2, <1>3, FilterTyped DEF Tre!OwnMissing
<1>5. ASSUME NEW c \in Tre!NewOnes(call)
      PROVE  Tre!FilterMissingPeers(groups[c.id].result, Tre!Around(call)) \in Results(Found)
  <2>1. c.id \in DOMAIN groups
    BY DEF NewOnesAreThere
  <2> QED BY <2>1, <1>3, CallTyped, FilterTyped
<1>6. ASSUME NEW c \in call.got
      PROVE  Tre!FilterMissingPeers([missing |-> waits[c.id].missing, resolved |-> {}], above) \in Results(Found)
  <2>1. c.id \in Found
    BY <1>1 DEF Gots
  <2>2. waits[c.id] \in WaitsFors
    BY <2>1 DEF TreeTypes
  <2>3. [missing |-> waits[c.id].missing, resolved |-> {}] \in Results(Found)
    BY <2>2 DEF WaitsFors, Results
  <2> QED BY <2>3, <1>3, FilterTyped
<1>7. \A r \in results : r \in Results(Found)
  BY <1>4, <1>5, <1>6
<1>8. UNION {r.missing : r \in results} \in SUBSET Wanteds
  BY <1>7 DEF Results
<1>9. UNION {r.resolved : r \in results} \in SUBSET ResolvedAs(Found)
  BY <1>7 DEF Results
<1>10. [missing |-> Tre!MergePkgsDeps(UNION {r.missing : r \in results}),
        resolved |-> UNION {r.resolved : r \in results}] \in Results(Found)
  BY <1>8, <1>9, MergeTyped DEF Results
<1>11. Tre!NoResult \in Results(Found)
  BY DEF Tre!NoResult, Results
<1> QED BY <1>10, <1>11 DEF Tre!PeersResult

-----------------------------------------------------------------------------
\* A package's children are not resolved yet.
Open(id) == id \notin DOMAIN groups \/ groups[id].phase # "done"

\* Only one call finds a package new, and what was found new in a call that is
\* still asking has no call of its own.
NewOnce ==
  \A g \in DOMAIN groups : groups[g].phase = "asking" =>
    \A c \in Tre!NewOnes(groups[g]) :
      /\ c.id \notin DOMAIN groups
      /\ \A h \in DOMAIN groups \ {g} : \A d \in Tre!NewOnes(groups[h]) : d.id # c.id

\* It is known at which depth that was.
Depths ==
  /\ \A g \in DOMAIN groups : \A c \in Tre!NewOnes(groups[g]) : waits[c.id].depth = groups[g].depth
  /\ \A g \in DOMAIN groups \ Tre!Projects : groups[g].depth = waits[g].depth + 1

\* Who has to end first.
Awaits(g, id) ==
  groups[g].phase \in {"asking", "children"} /\ \E c \in Tre!NewOnes(groups[g]) : c.id = id
OpenOnesAreAwaited == \A id \in Found : Open(id) => \E g \in DOMAIN groups : Awaits(g, id)

Gotten(call) == {c.id : c \in call.got}
Met(w, id, ids) == w.range \cap (ids \cup {id}) # {}

\* Each dependency of a package will be one of its children.
Complete ==
  refusals = 0 /\ source.auto =>
    /\ \A g \in DOMAIN groups : \A c \in Tre!NewOnes(groups[g]) : c.wants = Tre!Dependencies(c.id, <<>>)
    /\ \A g \in DOMAIN groups \ Tre!Projects : groups[g].phase \in {"asking", "children"} =>
         \A w \in Tre!Dependencies(g, <<>>) : w \in groups[g].pending \/ Met(w, g, Gotten(groups[g]))
    /\ \A g \in DOMAIN groups : groups[g].phase = "children" => groups[g].pending = {}
    /\ \A id \in DOMAIN children : \A w \in Tre!Dependencies(id, <<>>) : Met(w, id, children[id])

ChildrenAreKnown ==
  \A g \in DOMAIN groups \ Tre!Projects : groups[g].phase \in {"peers", "done"} => g \in DOMAIN children

\* The projects do nothing between two rounds.
RoundsEnd ==
  \A p \in Tre!Projects :
    importers[p].stage \in {"loop", "ready", "again"} \/ ended = "ok" => groups[p].phase = "done"

TreeShape == NewOnesAreThere /\ NewOnce /\ Depths /\ OpenOnesAreAwaited /\ ChildrenAreKnown /\ RoundsEnd
TreeInv == TreeTypes /\ TreeShape /\ Complete

LEMMA CallMade ==
  ASSUME NEW F, NEW wants \in SUBSET Wanteds, NEW a \in Aliases(F), NEW n \in Nat, NEW above \in SUBSET Tre!Packages
  PROVE  Tre!Call(wants, a, n, above) \in TreeCalls(F)
BY DEF Tre!Call, TreeCalls, Tre!NoResult, Results

LEMMA NoAliases == ASSUME NEW F PROVE <<>> \in Aliases(F)
BY DEF Aliases

LEMMA TreeStarts == ASSUME Tre!TreeAssumption, Tre!Init PROVE TreeInv
<1> DEFINE names(p) == {w.name : w \in source.roots[p]}
           a(p) == [n \in names(p) |-> "true"]
<1>1. source \in Sources /\ waits = <<>> /\ children = <<>> /\ preferred = {} /\ ended = "no" /\ refusals = 0
      /\ groups = [p \in Tre!Projects |-> Tre!Call(source.roots[p], a(p), 0, {})]
      /\ importers = [p \in Tre!Projects |->
           [stage |-> "first", deps |-> {}, aliases |-> groups[p].aliases, missing |-> {},
            resolved |-> {}, optional |-> {}]]
  BY DEF Tre!Init
<1>2. Found = {} /\ DOMAIN children = {}
  BY <1>1 DEF Found
<1>3. ASSUME NEW p \in Tre!Projects PROVE groups[p] \in TreeCalls(Found) /\ a(p) \in Aliases(Found)
  <2>1. source.roots[p] \in SUBSET Wanteds
    BY <1>1, RootsTyped
  <2>2. a(p) \in [names(p) -> Found \cup {"true"}] /\ names(p) \in SUBSET Tre!Names
    BY <2>1 DEF Wanteds
  <2>3. a(p) \in Aliases(Found)
    BY <2>2, AliasesMade
  <2> QED BY <1>1, <2>1, <2>3, CallMade
<1>4. ASSUME NEW p \in Tre!Projects
      PROVE  groups[p].aliases = a(p) /\ groups[p].got = {} /\ groups[p].phase = "asking"
  BY <1>1 DEF Tre!Call
<1>5. ASSUME NEW p \in Tre!Projects PROVE importers[p] \in ImporterStates(Found)
  BY <1>1, <1>3, <1>4 DEF ImporterStates
<1>6. TreeTypes
  <2>1. groups \in [DOMAIN groups -> TreeCalls(Found)] /\ DOMAIN groups = Tre!Projects
    BY <1>1, <1>3
  <2>2. importers \in [Tre!Projects -> ImporterStates(Found)]
    BY <1>1, <1>5
  <2>3. waits \in [Found -> WaitsFors] /\ children \in [DOMAIN children -> SUBSET Found]
    BY <1>1, <1>2
  <2>4. refusals \in 0..MaxRefusals
    BY <1>1 DEF Tre!TreeAssumption
  <2> QED BY <1>1, <1>2, <2>1, <2>2, <2>3, <2>4 DEF TreeTypes
<1>7. DOMAIN groups = Tre!Projects
  BY <1>1
<1>8. TreeShape
  <2>1. \A g \in DOMAIN groups : Tre!NewOnes(groups[g]) = {} /\ groups[g].phase = "asking"
    BY <1>4, <1>7 DEF Tre!NewOnes
  <2>2. NewOnesAreThere /\ NewOnce /\ Depths
    BY <1>7, <2>1 DEF NewOnesAreThere, NewOnce, Depths
  <2>3. RoundsEnd
    BY <1>1 DEF RoundsEnd
  <2> QED BY <1>2, <1>7, <2>2, <2>3 DEF TreeShape, OpenOnesAreAwaited, ChildrenAreKnown
<1>9. Complete
  BY <1>1, <1>2, <1>4, <1>7 DEF Complete, Tre!NewOnes
<1> QED BY <1>6, <1>8, <1>9 DEF TreeInv

\* A package that is found: the calls keep what they have.
LEMMA CallGets ==
  ASSUME NEW F, NEW call \in TreeCalls(F), NEW q \in SUBSET Wanteds, NEW s \in SUBSET Gots(F)
  PROVE  [call EXCEPT !.pending = q, !.got = s] \in TreeCalls(F)
<1>1. [call EXCEPT !.pending = q] \in TreeCalls(F)
  BY DEF TreeCalls
<1>2. \A k \in TreeCalls(F) : [k EXCEPT !.got = s] \in TreeCalls(F)
  BY DEF TreeCalls
<1> QED BY <1>1, <1>2

LEMMA AnswerChanges ==
  ASSUME Tre!TreeAssumption, TreeTypes, NEW g \in DOMAIN groups, NEW w \in groups[g].pending, NEW id \in w.range,
         Tre!Answer(g, w, id)
  PROVE  /\ id \in Tre!Packages /\ w \in Wanteds /\ groups[g].phase = "asking" /\ ended = "no"
         /\ UNCHANGED <<source, children, importers, ended, refusals>> /\ preferred' \subseteq preferred \cup {id}
         /\ DOMAIN groups' = DOMAIN groups
         /\ \A h \in DOMAIN groups \ {g} : groups'[h] = groups[h]
         /\ groups'[g] \in TreeCalls(Found')
         /\ groups'[g].phase = "asking" /\ groups'[g].depth = groups[g].depth
         /\ groups'[g].pending = groups[g].pending \ {w} /\ groups'[g].aliases = groups[g].aliases
         /\ Found \subseteq Found' /\ Found' \subseteq Found \cup {id}
         /\ waits' \in [Found' -> WaitsFors] /\ \A x \in Found : waits'[x] = waits[x]
         /\ groups[g].got \subseteq groups'[g].got
         /\ id = g => groups'[g].got = groups[g].got /\ Found' = Found
         /\ id # g => \E c \in groups'[g].got :
              /\ groups'[g].got = groups[g].got \cup {c}
              /\ c.id = id /\ id \in Found' /\ c.wants = Tre!Dependencies(id, groups[g].aliases)
              /\ c.isNew = (id \notin Found)
              /\ c.isNew => waits'[id].depth = groups[g].depth
<1> DEFINE call == groups[g]
           c == [id |-> id, isNew |-> Tre!IsNew(g, id),
                 waits |-> ~ Tre!IsNew(g, id) /\ source.hoist /\ id \notin call.parents /\ Tre!WaitsFor(id, call.depth),
                 wants |-> Tre!Dependencies(id, call.aliases)]
<1>1. call \in TreeCalls(Found) /\ call.pending \in SUBSET Wanteds
  BY CallTyped
<1>2. w \in Wanteds /\ id \in Tre!Packages
  BY <1>1 DEF Wanteds
<1>3. /\ call.phase = "asking" /\ ended = "no"
      /\ UNCHANGED <<source, children, importers, ended, refusals>>
      /\ preferred' \subseteq preferred \cup {id}
  BY DEF Tre!Answer, Tre!Answered
<1>4. waits \in [Found -> WaitsFors] /\ groups \in [DOMAIN groups -> TreeCalls(Found)] /\ source \in Sources
  BY DEF TreeTypes
<1>5. CASE id = g
  <2>1. groups' = [groups EXCEPT ![g].pending = @ \ {w}] /\ waits' = waits
    BY <1>5 DEF Tre!Answer
  <2>2. groups'[g] = [call EXCEPT !.pending = @ \ {w}]
    BY <2>1
  <2>3. groups'[g] \in TreeCalls(Found)
    BY <1>1, <2>2 DEF TreeCalls
  <2>4. Found' = Found
    BY <2>1 DEF Found
  <2>5. groups'[g].phase = "asking" /\ groups'[g].depth = call.depth /\ groups'[g].got = call.got
        /\ groups'[g].pending = call.pending \ {w} /\ groups'[g].aliases = call.aliases
    BY <1>1, <1>3, <2>2 DEF TreeCalls
  <2> QED BY <1>2, <1>3, <1>4, <1>5, <2>1, <2>3, <2>4, <2>5
<1>6. CASE id # g
  <2>1. /\ groups' = [groups EXCEPT ![g].pending = @ \ {w}, ![g].got = @ \cup {c}]
        /\ waits' = IF Tre!IsNew(g, id)
                    THEN Tre!Over([i \in {id} |-> [depth |-> call.depth, resolved |-> FALSE, missing |-> {}]], waits)
                    ELSE waits
    BY <1>6 DEF Tre!Answer
  <2>2. groups'[g] = [call EXCEPT !.pending = @ \ {w}, !.got = @ \cup {c}]
    BY <2>1
  <2>3. Tre!IsNew(g, id) = (id \notin Found)
    BY DEF Tre!IsNew, Found
  <2>4. /\ Found' = Found \cup {id} /\ waits' \in [Found' -> WaitsFors]
        /\ \A x \in Found : waits'[x] = waits[x]
        /\ id \notin Found => waits'[id].depth = call.depth
    <3>1. CASE id \in Found
      <4>1. waits' = waits
        BY <2>1, <2>3, <3>1
      <4> QED BY <1>4, <3>1, <4>1 DEF Found
    <3>2. CASE id \notin Found
      <4>1. [depth |-> call.depth, resolved |-> FALSE, missing |-> {}] \in WaitsFors
        BY <1>1 DEF WaitsFors, TreeCalls
      <4>2. waits' = [x \in {id} \cup Found |->
                       IF x \in {id} THEN [depth |-> call.depth, resolved |-> FALSE, missing |-> {}] ELSE waits[x]]
        BY <2>1, <2>3, <3>2 DEF Tre!Over, Found
      <4>3. Found' = Found \cup {id}
        BY <4>2 DEF Found
      <4> QED BY <1>4, <3>2, <4>1, <4>2, <4>3
    <3> QED BY <3>1, <3>2
  <2>5. c \in Gots(Found')
    <3>1. Tre!Dependencies(id, call.aliases) \in SUBSET Wanteds
      BY <1>2, <1>4, SourceTyped
    <3>2. Tre!IsNew(g, id) \in BOOLEAN
      BY <2>3
    <3> QED BY <2>4, <3>1, <3>2 DEF Gots
  <2>9. c.id = id /\ c.wants = Tre!Dependencies(id, call.aliases) /\ c.isNew = (id \notin Found)
    BY <2>3
  <2> HIDE DEF c
  <2>6. call \in TreeCalls(Found')
    BY <1>1, <2>4, MoreIsFound
  <2>7. groups'[g] \in TreeCalls(Found')
    <3>1. call.pending \ {w} \in SUBSET Wanteds /\ call.got \cup {c} \in SUBSET Gots(Found')
      BY <1>1, <2>5, <2>6 DEF TreeCalls
    <3>2. [call EXCEPT !.pending = call.pending \ {w}, !.got = call.got \cup {c}] \in TreeCalls(Found')
      BY <2>6, <3>1, CallGets
    <3> QED BY <2>2, <3>2
  <2>8. groups'[g].phase = "asking" /\ groups'[g].depth = call.depth /\ groups'[g].got = call.got \cup {c}
        /\ groups'[g].pending = call.pending \ {w} /\ groups'[g].aliases = call.aliases
    BY <1>1, <1>3, <2>2 DEF TreeCalls
  <2>10. DOMAIN groups' = DOMAIN groups /\ \A h \in DOMAIN groups \ {g} : groups'[h] = groups[h]
    BY <1>4, <2>1
  <2> QED BY <1>2, <1>3, <1>6, <2>4, <2>7, <2>8, <2>9, <2>10
<1> QED BY <1>5, <1>6

LEMMA AnswerKeeps ==
  ASSUME Tre!TreeAssumption, TreeInv, NEW g \in DOMAIN groups, NEW w \in groups[g].pending, NEW id \in w.range,
         Tre!Answer(g, w, id)
  PROVE  TreeInv'
<1> USE DEF TreeInv
<1>1. /\ id \in Tre!Packages /\ w \in Wanteds /\ groups[g].phase = "asking" /\ ended = "no"
      /\ UNCHANGED <<source, children, importers, ended, refusals>> /\ preferred' \subseteq preferred \cup {id}
      /\ DOMAIN groups' = DOMAIN groups
      /\ \A h \in DOMAIN groups \ {g} : groups'[h] = groups[h]
      /\ groups'[g] \in TreeCalls(Found')
      /\ groups'[g].phase = "asking" /\ groups'[g].depth = groups[g].depth
      /\ groups'[g].pending = groups[g].pending \ {w} /\ groups'[g].aliases = groups[g].aliases
      /\ Found \subseteq Found' /\ Found' \subseteq Found \cup {id}
      /\ waits' \in [Found' -> WaitsFors] /\ \A x \in Found : waits'[x] = waits[x]
      /\ groups[g].got \subseteq groups'[g].got
      /\ id = g => groups'[g].got = groups[g].got /\ Found' = Found
  BY AnswerChanges
<1>2. id # g => \E c \in groups'[g].got :
              /\ groups'[g].got = groups[g].got \cup {c}
              /\ c.id = id /\ id \in Found' /\ c.wants = Tre!Dependencies(id, groups[g].aliases)
              /\ c.isNew = (id \notin Found)
              /\ c.isNew => waits'[id].depth = groups[g].depth
  BY AnswerChanges
<1>3. Tre!Projects' = Tre!Projects /\ \A x, a : Tre!Dependencies(x, a)' = Tre!Dependencies(x, a)
  BY <1>1 DEF Tre!Projects, Tre!Dependencies
<1>4. TreeTypes'
  <2>1. \A h \in DOMAIN groups : groups'[h] \in TreeCalls(Found')
    BY <1>1, MoreIsFound DEF TreeTypes
  <2>2. groups' \in [DOMAIN groups' -> TreeCalls(Found')]
    <3>1. groups' = [h \in DOMAIN groups' |-> groups'[h]]
      BY DEF Tre!Answer, Tre!Over, TreeTypes
    <3> QED BY <1>1, <2>1, <3>1
  <2>3. importers' \in [Tre!Projects -> ImporterStates(Found')]
    BY <1>1, MoreIsFound DEF TreeTypes
  <2>4. children' \in [DOMAIN children' -> SUBSET Found']
    BY <1>1 DEF TreeTypes
  <2> QED BY <1>1, <1>3, <2>2, <2>3, <2>4 DEF TreeTypes
\* What is new in a call was so before, or is this package.
<1>5. ASSUME NEW h \in DOMAIN groups, NEW d \in Tre!NewOnes(groups'[h])
      PROVE  \/ d \in Tre!NewOnes(groups[h]) /\ d.id \in Found
             \/ /\ h = g /\ d.id = id /\ id \notin Found /\ d.wants = Tre!Dependencies(id, groups[g].aliases)
                /\ waits'[id].depth = groups[g].depth
  <2>1. groups[h].got \in SUBSET Gots(Found)
    BY CallTyped DEF TreeInv
  <2>2. CASE h # g
    BY <1>1, <2>1, <2>2 DEF Tre!NewOnes, Gots
  <2>3. CASE h = g /\ d \in groups[g].got
    BY <2>1, <2>3 DEF Tre!NewOnes, Gots
  <2>4. CASE h = g /\ d \notin groups[g].got
    <3>1. d \in groups'[g].got /\ d.isNew
      BY <2>4 DEF Tre!NewOnes
    <3>2. id # g
      BY <1>1, <2>4, <3>1
    <3>3. PICK c \in groups'[g].got :
            /\ groups'[g].got = groups[g].got \cup {c}
            /\ c.id = id /\ id \in Found' /\ c.wants = Tre!Dependencies(id, groups[g].aliases)
            /\ c.isNew = (id \notin Found)
            /\ c.isNew => waits'[id].depth = groups[g].depth
      BY <1>2, <3>2
    <3>4. d = c
      BY <2>4, <3>1, <3>3
    <3> QED BY <2>4, <3>1, <3>3, <3>4
  <2> QED BY <2>2, <2>3, <2>4
<1>6. ASSUME NEW h \in DOMAIN groups PROVE Tre!NewOnes(groups[h]) \subseteq Tre!NewOnes(groups'[h])
  <2>1. groups[h].got \subseteq groups'[h].got
    BY <1>1
  <2> QED BY <2>1 DEF Tre!NewOnes
<1>7. ASSUME NEW h \in DOMAIN groups
      PROVE  groups'[h].phase = groups[h].phase /\ groups'[h].depth = groups[h].depth
  BY <1>1
<1>8. DOMAIN groups \subseteq Tre!Projects \cup Found /\ Tre!Projects \subseteq DOMAIN groups
      /\ \A p \in Tre!Projects : p \notin Tre!Packages
  BY RootsTyped DEF TreeTypes
<1>9. NewOnesAreThere'
  BY <1>1, <1>5, <1>7 DEF TreeShape, NewOnesAreThere
<1>10. NewOnce'
  <2> SUFFICES ASSUME NEW h \in DOMAIN groups, groups[h].phase = "asking", NEW c \in Tre!NewOnes(groups'[h])
               PROVE  /\ c.id \notin DOMAIN groups
                      /\ \A k \in DOMAIN groups \ {h} : \A d \in Tre!NewOnes(groups'[k]) : d.id # c.id
    BY <1>1, <1>7 DEF NewOnce
  <2>1. c.id \notin DOMAIN groups
    BY <1>1, <1>5, <1>8 DEF TreeShape, NewOnce
  <2>2. ASSUME NEW k \in DOMAIN groups \ {h}, NEW d \in Tre!NewOnes(groups'[k]) PROVE d.id # c.id
    BY <1>5, <2>2 DEF TreeShape, NewOnce
  <2> QED BY <2>1, <2>2
<1>11. Depths'
  <2>1. ASSUME NEW h \in DOMAIN groups, NEW c \in Tre!NewOnes(groups'[h])
        PROVE  waits'[c.id].depth = groups'[h].depth
    BY <1>1, <1>5, <1>7 DEF TreeShape, Depths
  <2>2. ASSUME NEW h \in DOMAIN groups \ Tre!Projects PROVE groups'[h].depth = waits'[h].depth + 1
    BY <1>1, <1>7, <1>8 DEF TreeShape, Depths
  <2> QED BY <1>1, <1>3, <2>1, <2>2 DEF Depths
<1>12. OpenOnesAreAwaited'
  <2> SUFFICES ASSUME NEW x \in Found', Open(x)' PROVE \E h \in DOMAIN groups : Awaits(h, x)'
    BY <1>1 DEF OpenOnesAreAwaited
  <2>1. CASE x \in Found
    <3>1. Open(x)
      BY <1>1, <1>7 DEF Open
    <3>2. PICK h \in DOMAIN groups : Awaits(h, x)
      BY <2>1, <3>1 DEF TreeShape, OpenOnesAreAwaited
    <3> QED BY <1>6, <1>7, <3>2 DEF Awaits
  <2>2. CASE x \notin Found
    <3>1. x = id /\ id # g
      BY <1>1, <2>2
    <3>2. PICK c \in groups'[g].got : c.id = id /\ c.isNew = (id \notin Found)
      BY <1>2, <3>1
    <3>3. Awaits(g, x)'
      BY <1>1, <2>2, <3>1, <3>2 DEF Awaits, Tre!NewOnes
    <3> QED BY <3>3
  <2> QED BY <2>1, <2>2
<1>13. ChildrenAreKnown' /\ RoundsEnd'
  <2>1. ChildrenAreKnown'
    BY <1>1, <1>3, <1>7 DEF TreeShape, ChildrenAreKnown
  <2>2. RoundsEnd'
    BY <1>1, <1>3, <1>7, <1>8 DEF TreeShape, RoundsEnd
  <2> QED BY <2>1, <2>2
<1>14. Complete'
  <2> SUFFICES ASSUME refusals = 0, source.auto PROVE Complete'
    BY <1>1 DEF Complete
  <2>1. \A a : Tre!Dependencies(id, a) = Tre!Dependencies(id, <<>>)
    BY DEF Tre!Dependencies
  <2>2. ASSUME NEW h \in DOMAIN groups, NEW c \in Tre!NewOnes(groups'[h])
        PROVE  c.wants = Tre!Dependencies(c.id, <<>>)
    BY <1>5, <2>1 DEF Complete
  <2>3. ASSUME NEW h \in DOMAIN groups \ Tre!Projects, groups[h].phase \in {"asking", "children"},
               NEW v \in Tre!Dependencies(h, <<>>)
        PROVE  v \in groups'[h].pending \/ Met(v, h, Gotten(groups'[h]))
    <3>1. v \in groups[h].pending \/ Met(v, h, Gotten(groups[h]))
      BY <2>3 DEF Complete
    <3>2. Gotten(groups[h]) \subseteq Gotten(groups'[h])
      BY <1>1 DEF Gotten
    <3>3. Met(v, h, Gotten(groups[h])) => Met(v, h, Gotten(groups'[h]))
      BY <3>2 DEF Met
    <3>4. CASE h = g /\ v = w
      <4>1. id \in Gotten(groups'[h]) \cup {h}
        BY <1>2, <3>4 DEF Gotten
      <4> QED BY <3>4, <4>1 DEF Met
    <3>5. CASE ~(h = g /\ v = w)
      BY <1>1, <3>1, <3>3, <3>5
    <3> QED BY <3>4, <3>5
  <2>4. ASSUME NEW h \in DOMAIN groups, groups[h].phase = "children" PROVE groups'[h].pending = {}
    BY <1>1, <2>4 DEF Complete
  <2>5. \A x \in DOMAIN children : \A v \in Tre!Dependencies(x, <<>>) : Met(v, x, children[x])
    BY DEF Complete
  <2> QED BY <1>1, <1>3, <1>7, <2>2, <2>3, <2>4, <2>5 DEF Complete
<1> QED BY <1>4, <1>9, <1>10, <1>11, <1>12, <1>13, <1>14 DEF TreeShape

LEMMA NewOnesFound ==
  ASSUME TreeTypes, NEW g \in DOMAIN groups, NEW c \in Tre!NewOnes(groups[g])
  PROVE  c.id \in Found /\ c \in Gots(Found)
<1>1. groups[g].got \in SUBSET Gots(Found)
  BY CallTyped
<1> QED BY <1>1 DEF Tre!NewOnes, Gots

LEMMA RefusedKeeps ==
  ASSUME Tre!TreeAssumption, TreeInv, NEW g \in DOMAIN groups, NEW w \in groups[g].pending, Tre!Refused(g, w)
  PROVE  TreeInv'
<1> USE DEF TreeInv
<1>1. /\ refusals' = refusals + 1 /\ refusals < MaxRefusals /\ ended = "no" /\ ended' \in {"no", "failed"}
      /\ UNCHANGED <<source, waits, children, preferred, importers, ignored>>
      /\ groups[g].phase = "asking"
      /\ groups' = groups \/ groups' = [groups EXCEPT ![g].pending = @ \ {w}]
  BY DEF Tre!Refused, Tre!Answered
<1>2. Found' = Found
  BY <1>1 DEF Found
<1>3. groups[g] \in TreeCalls(Found) /\ groups \in [DOMAIN groups -> TreeCalls(Found)]
  BY DEF TreeTypes
<1>4. [groups[g] EXCEPT !.pending = @ \ {w}] \in TreeCalls(Found)
  BY <1>3 DEF TreeCalls
<1>5. groups' \in [DOMAIN groups -> TreeCalls(Found)]
  BY <1>1, <1>3, <1>4
<1>6. ASSUME NEW h \in DOMAIN groups
      PROVE  groups'[h].phase = groups[h].phase /\ groups'[h].depth = groups[h].depth /\ groups'[h].got = groups[h].got
  BY <1>1, <1>3 DEF TreeCalls
<1>7. Tre!Projects' = Tre!Projects
  BY <1>1 DEF Tre!Projects
<1>8. TreeTypes'
  BY <1>1, <1>2, <1>5, <1>7 DEF TreeTypes, Tre!TreeAssumption
<1>9. DOMAIN groups' = DOMAIN groups /\ \A h \in DOMAIN groups : Tre!NewOnes(groups'[h]) = Tre!NewOnes(groups[h])
  BY <1>5, <1>6 DEF Tre!NewOnes
<1>10. NewOnesAreThere' /\ NewOnce' /\ Depths'
  <2>1. NewOnesAreThere'
    BY <1>6, <1>9 DEF TreeShape, NewOnesAreThere
  <2>2. NewOnce'
    BY <1>6, <1>9 DEF TreeShape, NewOnce
  <2>3. Depths'
    BY <1>1, <1>6, <1>7, <1>9 DEF TreeShape, Depths
  <2> QED BY <2>1, <2>2, <2>3
<1>11. OpenOnesAreAwaited'
  BY <1>2, <1>6, <1>9 DEF TreeShape, OpenOnesAreAwaited, Open, Awaits
<1>12. ChildrenAreKnown' /\ RoundsEnd'
  <2>1. Tre!Projects \subseteq DOMAIN groups
    BY DEF TreeTypes
  <2> QED BY <1>1, <1>6, <1>7, <1>9, <2>1 DEF TreeShape, ChildrenAreKnown, RoundsEnd
<1>13. refusals' # 0
  BY <1>1 DEF TreeTypes, Tre!TreeAssumption
<1> QED BY <1>8, <1>10, <1>11, <1>12, <1>13 DEF TreeShape, Complete

LEMMA StartChildrenKeeps ==
  ASSUME Tre!TreeAssumption, TreeInv, NEW g \in DOMAIN groups, Tre!StartChildren(g)
  PROVE  TreeInv'
<1> USE DEF TreeInv
<1> DEFINE call == groups[g]
           ids == {x.id : x \in Tre!NewOnes(call)}
           new(c) == CHOOSE x \in Tre!NewOnes(call) : x.id = c
           Made(c) == Tre!Call(new(c).wants, Tre!Around(call), call.depth + 1, call.parents \cup {c})
           old == [groups EXCEPT ![g].phase = "children"]
<1>1. /\ call.phase = "asking" /\ ended = "no" /\ call.pending = {}
      /\ UNCHANGED <<source, waits, children, preferred, importers, ended, refusals, ignored>>
      /\ groups' = Tre!Over([c \in ids |-> Made(c)], old)
  BY DEF Tre!StartChildren, Tre!At
<1>2. groups \in [DOMAIN groups -> TreeCalls(Found)] /\ call \in TreeCalls(Found) /\ Found \in SUBSET Tre!Packages
      /\ source \in Sources
  BY DEF TreeTypes
<1>3. ASSUME NEW c \in ids PROVE new(c) \in Tre!NewOnes(call) /\ new(c).id = c /\ c \notin DOMAIN groups /\ c \in Found
  <2>1. new(c) \in Tre!NewOnes(call) /\ new(c).id = c
    OBVIOUS
  <2> QED BY <1>1, <2>1, NewOnesFound DEF TreeShape, NewOnce
<1>4. /\ DOMAIN groups' = ids \cup DOMAIN groups
      /\ groups' = [h \in DOMAIN groups' |-> groups'[h]]
      /\ \A c \in ids : groups'[c] = Made(c)
      /\ \A h \in DOMAIN groups : groups'[h] = old[h]
  <2>1. DOMAIN old = DOMAIN groups /\ DOMAIN [c \in ids |-> Made(c)] = ids
    BY <1>2
  <2>2. groups' = [h \in ids \cup DOMAIN groups |-> IF h \in ids THEN Made(h) ELSE old[h]]
    BY <1>1, <2>1 DEF Tre!Over
  <2> HIDE DEF Made, old, ids
  <2> QED BY <2>2, <1>3
<1>5. \A h \in DOMAIN groups \ {g} : groups'[h] = groups[h]
  BY <1>2, <1>4
<1>6. groups'[g] = [call EXCEPT !.phase = "children"]
  BY <1>2, <1>4
<1>7. /\ groups'[g] \in TreeCalls(Found) /\ groups'[g].phase = "children"
      /\ groups'[g].got = call.got /\ groups'[g].depth = call.depth /\ groups'[g].pending = call.pending
  BY <1>2, <1>6 DEF TreeCalls
<1>8. ASSUME NEW c \in ids
      PROVE  /\ groups'[c] \in TreeCalls(Found) /\ groups'[c].phase = "asking" /\ groups'[c].got = {}
             /\ groups'[c].depth = call.depth + 1 /\ groups'[c].pending = new(c).wants
  <2>1. new(c) \in Gots(Found) /\ c \in Tre!Packages
    BY <1>2, <1>3, NewOnesFound
  <2>2. new(c).wants \in SUBSET Wanteds
    BY <2>1 DEF Gots
  <2>3. call.parents \cup {c} \in SUBSET Tre!Packages /\ call.depth + 1 \in Nat
    BY <1>2, <2>1 DEF TreeCalls
  <2>4. Tre!Around(call) \in Aliases(Found)
    BY <1>2, AroundTyped DEF TreeCalls
  <2>5. Made(c) \in TreeCalls(Found)
    BY <2>2, <2>3, <2>4, CallMade
  <2>6. Made(c).phase = "asking" /\ Made(c).got = {} /\ Made(c).depth = call.depth + 1 /\ Made(c).pending = new(c).wants
    BY DEF Tre!Call
  <2> QED BY <1>4, <2>5, <2>6
<1> HIDE DEF Made, old
<1>9. Found' = Found
  BY <1>1 DEF Found
<1>10. Tre!Projects' = Tre!Projects /\ \A x, a : Tre!Dependencies(x, a)' = Tre!Dependencies(x, a)
  BY <1>1 DEF Tre!Projects, Tre!Dependencies
<1>11. DOMAIN groups \subseteq Tre!Projects \cup Found /\ Tre!Projects \subseteq DOMAIN groups
       /\ \A p \in Tre!Projects : p \notin Found
  BY <1>2, RootsTyped DEF TreeTypes
<1>12. ASSUME NEW h \in DOMAIN groups' PROVE groups'[h] \in TreeCalls(Found)
  BY <1>2, <1>4, <1>5, <1>7, <1>8
<1>13. ASSUME NEW h \in DOMAIN groups
       PROVE  /\ Tre!NewOnes(groups'[h]) = Tre!NewOnes(groups[h]) /\ groups'[h].depth = groups[h].depth
              /\ groups'[h].got = groups[h].got /\ groups'[h].pending = groups[h].pending
              /\ groups'[h].phase = IF h = g THEN "children" ELSE groups[h].phase
  BY <1>5, <1>7 DEF Tre!NewOnes
<1>14. ASSUME NEW c \in ids PROVE Tre!NewOnes(groups'[c]) = {}
  BY <1>8 DEF Tre!NewOnes
<1>15. TreeTypes'
  <2>1. groups' \in [DOMAIN groups' -> TreeCalls(Found)]
    BY <1>4, <1>12
  <2>2. Tre!Projects \subseteq DOMAIN groups' /\ DOMAIN groups' \subseteq Tre!Projects \cup Found
    BY <1>3, <1>4, <1>11
  <2> QED BY <1>1, <1>9, <1>10, <2>1, <2>2 DEF TreeTypes
<1>16. NewOnesAreThere'
  <2> SUFFICES ASSUME NEW h \in DOMAIN groups', NEW c \in Tre!NewOnes(groups'[h]), groups'[h].phase # "asking"
               PROVE  c.id \in DOMAIN groups'
    BY DEF NewOnesAreThere
  <2>1. h \in DOMAIN groups /\ c \in Tre!NewOnes(groups[h])
    BY <1>4, <1>13, <1>14
  <2>2. h = g \/ c.id \in DOMAIN groups
    BY <1>13, <2>1 DEF TreeShape, NewOnesAreThere
  <2> QED BY <1>4, <2>1, <2>2
<1>17. NewOnce'
  <2> SUFFICES ASSUME NEW h \in DOMAIN groups', groups'[h].phase = "asking", NEW c \in Tre!NewOnes(groups'[h])
               PROVE  /\ c.id \notin DOMAIN groups'
                      /\ \A k \in DOMAIN groups' \ {h} : \A d \in Tre!NewOnes(groups'[k]) : d.id # c.id
    BY DEF NewOnce
  <2>1. h \in DOMAIN groups /\ c \in Tre!NewOnes(groups[h]) /\ h # g /\ groups[h].phase = "asking"
    BY <1>4, <1>13, <1>14
  <2>2. /\ c.id \notin DOMAIN groups
        /\ \A k \in DOMAIN groups \ {h} : \A d \in Tre!NewOnes(groups[k]) : d.id # c.id
    BY <2>1 DEF TreeShape, NewOnce
  <2>3. c.id \notin ids
    BY <2>1, <2>2
  <2>4. ASSUME NEW k \in DOMAIN groups' \ {h}, NEW d \in Tre!NewOnes(groups'[k]) PROVE d.id # c.id
    BY <1>4, <1>13, <1>14, <2>2
  <2> QED BY <1>4, <2>2, <2>3, <2>4
<1>18. Depths'
  <2>1. ASSUME NEW h \in DOMAIN groups', NEW c \in Tre!NewOnes(groups'[h])
        PROVE  waits[c.id].depth = groups'[h].depth
    <3>1. h \in DOMAIN groups /\ c \in Tre!NewOnes(groups[h])
      BY <1>4, <1>13, <1>14
    <3> QED BY <1>13, <3>1 DEF TreeShape, Depths
  <2>2. ASSUME NEW h \in DOMAIN groups' \ Tre!Projects PROVE groups'[h].depth = waits[h].depth + 1
    <3>1. CASE h \in DOMAIN groups
      BY <1>13, <3>1 DEF TreeShape, Depths
    <3>2. CASE h \in ids
      <4>1. waits[h].depth = call.depth
        BY <1>3, <3>2 DEF TreeShape, Depths
      <4> QED BY <1>8, <3>2, <4>1
    <3> QED BY <1>4, <3>1, <3>2
  <2> QED BY <1>1, <1>10, <2>1, <2>2 DEF Depths
<1>19. OpenOnesAreAwaited'
  <2> SUFFICES ASSUME NEW x \in Found, Open(x)' PROVE \E h \in DOMAIN groups' : Awaits(h, x)'
    BY <1>9 DEF OpenOnesAreAwaited
  <2>1. CASE x \in ids
    <3>1. Awaits(g, x)'
      BY <1>3, <1>7, <1>13, <2>1 DEF Awaits
    <3> QED BY <1>4, <3>1
  <2>2. CASE x \notin ids
    <3>1. Open(x)
      BY <1>1, <1>4, <1>13, <2>2 DEF Open
    <3>2. PICK h \in DOMAIN groups : Awaits(h, x)
      BY <3>1 DEF TreeShape, OpenOnesAreAwaited
    <3>3. Awaits(h, x)'
      BY <1>13, <3>2 DEF Awaits
    <3> QED BY <1>4, <3>3
  <2> QED BY <2>1, <2>2
<1>20. ChildrenAreKnown'
  <2> SUFFICES ASSUME NEW h \in DOMAIN groups' \ Tre!Projects, groups'[h].phase \in {"peers", "done"}
               PROVE  h \in DOMAIN children
    BY <1>1, <1>10 DEF ChildrenAreKnown
  <2>1. h \in DOMAIN groups /\ groups[h].phase \in {"peers", "done"}
    BY <1>4, <1>8, <1>13
  <2> QED BY <2>1 DEF TreeShape, ChildrenAreKnown
<1>21. RoundsEnd'
  <2> SUFFICES ASSUME NEW p \in Tre!Projects, importers[p].stage \in {"loop", "ready", "again"}
               PROVE  groups'[p].phase = "done"
    BY <1>1, <1>10 DEF RoundsEnd
  <2>1. groups[p].phase = "done"
    BY DEF TreeShape, RoundsEnd
  <2> QED BY <1>1, <1>11, <1>13, <2>1
<1>22. Complete'
  <2> SUFFICES ASSUME refusals = 0, source.auto PROVE Complete'
    BY <1>1 DEF Complete
  <2>1. ASSUME NEW h \in DOMAIN groups', NEW c \in Tre!NewOnes(groups'[h])
        PROVE  c.wants = Tre!Dependencies(c.id, <<>>)
    <3>1. h \in DOMAIN groups /\ c \in Tre!NewOnes(groups[h])
      BY <1>4, <1>13, <1>14
    <3> QED BY <3>1 DEF Complete
  <2>2. ASSUME NEW h \in DOMAIN groups' \ Tre!Projects, groups'[h].phase \in {"asking", "children"},
               NEW v \in Tre!Dependencies(h, <<>>)
        PROVE  v \in groups'[h].pending \/ Met(v, h, Gotten(groups'[h]))
    <3>1. CASE h \in DOMAIN groups
      <4>1. groups[h].phase \in {"asking", "children"}
        BY <1>1, <1>13, <2>2, <3>1
      <4> QED BY <1>13, <3>1, <4>1 DEF Complete, Gotten
    <3>2. CASE h \in ids
      BY <1>3, <1>8, <3>2 DEF Complete
    <3> QED BY <1>4, <3>1, <3>2
  <2>3. ASSUME NEW h \in DOMAIN groups', groups'[h].phase = "children" PROVE groups'[h].pending = {}
    BY <1>1, <1>4, <1>8, <1>13, <2>3 DEF Complete
  <2>4. \A x \in DOMAIN children : \A v \in Tre!Dependencies(x, <<>>) : Met(v, x, children[x])
    BY DEF Complete
  <2> QED BY <1>1, <1>10, <2>1, <2>2, <2>3, <2>4 DEF Complete
<1> QED BY <1>15, <1>16, <1>17, <1>18, <1>19, <1>20, <1>21, <1>22 DEF TreeShape

\* Calls that were asked end, or projects begin again.
CallGoesOn(h) ==
  \/ groups'[h] = groups[h]
  \/ /\ groups[h].phase = "children" /\ groups'[h].phase = "peers"
     /\ \A c \in Tre!NewOnes(groups[h]) : groups[c.id].phase = "done"
     /\ groups'[h].got = groups[h].got /\ groups'[h].depth = groups[h].depth
  \/ /\ groups[h].phase = "peers" /\ groups'[h].phase = "done"
     /\ groups'[h].got = {} /\ groups'[h].depth = groups[h].depth
  \/ /\ h \in Tre!Projects /\ groups[h].phase = "done" /\ groups'[h].phase = "asking" /\ groups'[h].got = {}

LEMMA ShapeStays ==
  ASSUME Tre!TreeAssumption, TreeInv, UNCHANGED <<source, refusals>>,
         Found' = Found, \A x \in Found : waits'[x].depth = waits[x].depth,
         DOMAIN groups' = DOMAIN groups, \A h \in DOMAIN groups : CallGoesOn(h)
  PROVE  NewOnesAreThere' /\ NewOnce' /\ Depths' /\ OpenOnesAreAwaited'
<1> USE DEF TreeInv
<1>1. Tre!Projects' = Tre!Projects
  BY DEF Tre!Projects
<1>2. DOMAIN groups \subseteq Tre!Projects \cup Found
      /\ \A p \in Tre!Projects : p \notin Found
  BY RootsTyped DEF TreeTypes
<1>3. ASSUME NEW h \in DOMAIN groups, NEW c \in Tre!NewOnes(groups'[h])
      PROVE  /\ c \in Tre!NewOnes(groups[h]) /\ c.id \in Found /\ groups'[h].depth = groups[h].depth
             /\ groups'[h].phase = "asking" <=> groups[h].phase = "asking"
  <2>1. c \in Tre!NewOnes(groups[h]) /\ groups'[h].depth = groups[h].depth
        /\ (groups'[h].phase = "asking" <=> groups[h].phase = "asking")
    BY DEF CallGoesOn, Tre!NewOnes
  <2> QED BY <2>1, NewOnesFound
<1>4. NewOnesAreThere'
  BY <1>3 DEF TreeShape, NewOnesAreThere
<1>5. NewOnce'
  <2> SUFFICES ASSUME NEW h \in DOMAIN groups, groups'[h].phase = "asking", NEW c \in Tre!NewOnes(groups'[h])
               PROVE  /\ c.id \notin DOMAIN groups
                      /\ \A k \in DOMAIN groups \ {h} : \A d \in Tre!NewOnes(groups'[k]) : d.id # c.id
    BY DEF NewOnce
  <2>1. /\ c.id \notin DOMAIN groups
        /\ \A k \in DOMAIN groups \ {h} : \A d \in Tre!NewOnes(groups[k]) : d.id # c.id
    BY <1>3 DEF TreeShape, NewOnce
  <2> QED BY <1>3, <2>1
<1>6. Depths'
  <2>1. ASSUME NEW h \in DOMAIN groups, NEW c \in Tre!NewOnes(groups'[h])
        PROVE  waits'[c.id].depth = groups'[h].depth
    BY <1>3 DEF TreeShape, Depths
  <2>2. ASSUME NEW h \in DOMAIN groups \ Tre!Projects PROVE groups'[h].depth = waits'[h].depth + 1
    <3>1. groups'[h].depth = groups[h].depth
      BY DEF CallGoesOn
    <3> QED BY <1>2, <3>1 DEF TreeShape, Depths
  <2> QED BY <1>1, <2>1, <2>2 DEF Depths
<1>7. OpenOnesAreAwaited'
  <2> SUFFICES ASSUME NEW x \in Found, Open(x)' PROVE \E h \in DOMAIN groups : Awaits(h, x)'
    BY DEF OpenOnesAreAwaited
  <2>1. Open(x)
    <3>1. CASE x \in DOMAIN groups
      <4>1. x \notin Tre!Projects
        BY <1>2
      <4> QED BY <3>1, <4>1 DEF Open, CallGoesOn
    <3> QED BY <3>1 DEF Open
  <2>2. PICK h \in DOMAIN groups : Awaits(h, x)
    BY <2>1 DEF TreeShape, OpenOnesAreAwaited
  <2>3. PICK c \in Tre!NewOnes(groups[h]) : c.id = x
    BY <2>2 DEF Awaits
  <2>4. groups[h].phase \in {"asking", "children"}
    BY <2>2 DEF Awaits
  <2>5. CASE groups'[h] = groups[h]
    BY <2>2, <2>5 DEF Awaits
  <2>6. CASE groups'[h] # groups[h]
    <3>1. groups[h].phase = "children" /\ groups[x].phase = "done"
      BY <2>3, <2>4, <2>6 DEF CallGoesOn
    <3>2. x \in DOMAIN groups
      BY <2>3, <3>1 DEF TreeShape, NewOnesAreThere
    <3> QED BY <2>1, <3>1, <3>2 DEF Open
  <2> QED BY <2>5, <2>6
<1> QED BY <1>4, <1>5, <1>6, <1>7

LEMMA CompleteStays ==
  ASSUME Tre!TreeAssumption, TreeInv, UNCHANGED <<source, refusals>>,
         DOMAIN groups' = DOMAIN groups, \A h \in DOMAIN groups : CallGoesOn(h),
         \A x \in DOMAIN children' :
           \/ x \in DOMAIN children /\ children'[x] = children[x]
           \/ /\ x \in DOMAIN groups \ Tre!Projects /\ groups[x].phase = "children"
              /\ children'[x] = Gotten(groups[x])
  PROVE  Complete'
<1> USE DEF TreeInv
<1> SUFFICES ASSUME refusals = 0, source.auto PROVE Complete'
  BY DEF Complete
<1>1. Tre!Projects' = Tre!Projects /\ \A x, a : Tre!Dependencies(x, a)' = Tre!Dependencies(x, a)
  BY DEF Tre!Projects, Tre!Dependencies
<1>2. ASSUME NEW h \in DOMAIN groups, NEW c \in Tre!NewOnes(groups'[h])
      PROVE  c.wants = Tre!Dependencies(c.id, <<>>)
  <2>1. c \in Tre!NewOnes(groups[h])
    BY DEF CallGoesOn, Tre!NewOnes
  <2> QED BY <2>1 DEF Complete
<1>3. ASSUME NEW h \in DOMAIN groups \ Tre!Projects, groups'[h].phase \in {"asking", "children"}
      PROVE  groups'[h] = groups[h]
  BY <1>3 DEF CallGoesOn
<1>4. ASSUME NEW h \in DOMAIN groups, groups'[h].phase = "children" PROVE groups'[h].pending = {}
  <2>1. groups'[h] = groups[h]
    BY <1>4 DEF CallGoesOn
  <2> QED BY <1>4, <2>1 DEF Complete
<1>5. ASSUME NEW x \in DOMAIN children', NEW v \in Tre!Dependencies(x, <<>>) PROVE Met(v, x, children'[x])
  BY DEF Complete, Met
<1>6. ASSUME NEW h \in DOMAIN groups \ Tre!Projects, groups'[h].phase \in {"asking", "children"},
             NEW v \in Tre!Dependencies(h, <<>>)
      PROVE  v \in groups'[h].pending \/ Met(v, h, Gotten(groups'[h]))
  BY <1>3, <1>6 DEF Complete
<1> QED BY <1>1, <1>2, <1>4, <1>5, <1>6 DEF Complete

LEMMA EndChildrenKeeps ==
  ASSUME Tre!TreeAssumption, TreeInv, NEW g \in DOMAIN groups, Tre!EndChildren(g)
  PROVE  TreeInv'
<1> USE DEF TreeInv
<1>1. /\ groups[g].phase = "children" /\ \A c \in Tre!NewOnes(groups[g]) : groups[c.id].phase = "done"
      /\ children' = IF g \in Tre!Projects THEN children
                     ELSE Tre!Over([i \in {g} |-> Tre!Addresses(groups[g])], children)
      /\ groups' = [groups EXCEPT ![g].phase = "peers"]
      /\ UNCHANGED <<source, waits, preferred, importers, ended, refusals, ignored>>
  BY DEF Tre!EndChildren, Tre!At
<1>2. groups \in [DOMAIN groups -> TreeCalls(Found)] /\ groups[g] \in TreeCalls(Found)
      /\ groups[g].got \in SUBSET Gots(Found)
      /\ Tre!Projects \subseteq DOMAIN groups /\ DOMAIN groups \subseteq Tre!Projects \cup Found
  BY CallTyped DEF TreeTypes
<1>3. groups'[g] = [groups[g] EXCEPT !.phase = "peers"] /\ DOMAIN groups' = DOMAIN groups
      /\ \A h \in DOMAIN groups \ {g} : groups'[h] = groups[h]
  BY <1>1, <1>2
<1>4. groups'[g] \in TreeCalls(Found) /\ groups'[g].phase = "peers" /\ groups'[g].got = groups[g].got
      /\ groups'[g].depth = groups[g].depth
  BY <1>2, <1>3 DEF TreeCalls
<1>5. \A h \in DOMAIN groups : CallGoesOn(h)
  BY <1>1, <1>3, <1>4 DEF CallGoesOn
<1>6. Found' = Found /\ Tre!Projects' = Tre!Projects
  BY <1>1 DEF Found, Tre!Projects
<1>7. Gotten(groups[g]) \in SUBSET Found /\ Tre!Addresses(groups[g]) = Gotten(groups[g])
  BY <1>2 DEF Gotten, Gots, Tre!Addresses
<1>8. /\ DOMAIN children' \subseteq Found /\ children' \in [DOMAIN children' -> SUBSET Found]
      /\ DOMAIN children \subseteq DOMAIN children' /\ g \in Tre!Projects \cup DOMAIN children'
      /\ \A x \in DOMAIN children' :
           \/ x \in DOMAIN children /\ children'[x] = children[x]
           \/ x = g /\ g \in DOMAIN groups \ Tre!Projects /\ children'[x] = Gotten(groups[g])
  <2>1. DOMAIN children \subseteq Found /\ children \in [DOMAIN children -> SUBSET Found]
    BY DEF TreeTypes
  <2>2. CASE g \in Tre!Projects
    BY <1>1, <2>1, <2>2
  <2>3. CASE g \notin Tre!Projects
    <3>1. children' = [x \in {g} \cup DOMAIN children |-> IF x \in {g} THEN Gotten(groups[g]) ELSE children[x]]
      BY <1>1, <1>7, <2>3 DEF Tre!Over
    <3>2. g \in Found
      BY <1>2, <2>3
    <3> HIDE DEF Gotten
    <3> QED BY <1>7, <2>1, <2>3, <3>1, <3>2
  <2> QED BY <2>2, <2>3
<1>9. TreeTypes'
  <2>1. groups' \in [DOMAIN groups' -> TreeCalls(Found)]
    BY <1>1, <1>2, <1>3, <1>4
  <2> QED BY <1>1, <1>3, <1>6, <1>8, <2>1 DEF TreeTypes
<1>10. NewOnesAreThere' /\ NewOnce' /\ Depths' /\ OpenOnesAreAwaited'
  BY <1>1, <1>3, <1>5, <1>6, ShapeStays
<1>11. Complete'
  BY <1>1, <1>3, <1>5, <1>8, CompleteStays
<1>12. ChildrenAreKnown'
  BY <1>3, <1>6, <1>8 DEF TreeShape, ChildrenAreKnown
<1>13. RoundsEnd'
  BY <1>1, <1>2, <1>3, <1>6 DEF TreeShape, RoundsEnd
<1> QED BY <1>9, <1>10, <1>11, <1>12, <1>13 DEF TreeShape

LEMMA DoneIsTyped ==
  ASSUME TreeTypes, NEW g \in DOMAIN groups
  PROVE  /\ Tre!Done(g) \in [DOMAIN groups -> TreeCalls(Found)]
         /\ \A h \in DOMAIN groups \ {g} : Tre!Done(g)[h] = groups[h]
         /\ Tre!Done(g)[g].phase = "done" /\ Tre!Done(g)[g].got = {} /\ Tre!Done(g)[g].depth = groups[g].depth
<1>1. groups \in [DOMAIN groups -> TreeCalls(Found)] /\ groups[g] \in TreeCalls(Found)
  BY CallTyped DEF TreeTypes
<1> DEFINE ended1 == [groups[g] EXCEPT !.phase = "done"]
           ended2 == [ended1 EXCEPT !.got = {}]
           made == [ended2 EXCEPT !.aliases = <<>>]
<1>2. Tre!Done(g) = [groups EXCEPT ![g] = made]
  BY <1>1 DEF Tre!Done
<1>3. ended1 \in TreeCalls(Found) /\ ended1.phase = "done" /\ ended1.depth = groups[g].depth
  BY <1>1 DEF TreeCalls
<1> HIDE DEF ended1
<1>4. ended2 \in TreeCalls(Found) /\ ended2.phase = "done" /\ ended2.depth = groups[g].depth /\ ended2.got = {}
  BY <1>3 DEF TreeCalls
<1> HIDE DEF ended2
<1>5. made \in TreeCalls(Found) /\ made.phase = "done" /\ made.depth = groups[g].depth /\ made.got = {}
  BY <1>4, NoAliases DEF TreeCalls
<1> HIDE DEF made
<1> QED BY <1>1, <1>2, <1>5

LEMMA EndPackageKeeps ==
  ASSUME Tre!TreeAssumption, TreeInv, NEW g \in DOMAIN groups, Tre!EndPackage(g)
  PROVE  TreeInv'
<1> USE DEF TreeInv
<1> DEFINE r == Tre!PeersResult(g)
<1>1. /\ groups[g].phase = "peers" /\ g \notin Tre!Projects
      /\ groups' = [Tre!Done(g) EXCEPT ![g].result = r]
      /\ waits' = [waits EXCEPT ![g].resolved = TRUE, ![g].missing = r.missing]
      /\ UNCHANGED <<source, children, preferred, importers, ended, refusals, ignored>>
  BY DEF Tre!EndPackage, Tre!At
<1>2. /\ Tre!Done(g) \in [DOMAIN groups -> TreeCalls(Found)]
      /\ \A h \in DOMAIN groups \ {g} : Tre!Done(g)[h] = groups[h]
      /\ Tre!Done(g)[g].phase = "done" /\ Tre!Done(g)[g].got = {} /\ Tre!Done(g)[g].depth = groups[g].depth
  BY DoneIsTyped
<1>3. r \in Results(Found)
  BY <1>1, PeersResultTyped DEF TreeShape
<1>4. Tre!Done(g)[g] \in TreeCalls(Found) /\ r.missing \in SUBSET Wanteds
  BY <1>2, <1>3 DEF Results
<1> HIDE DEF r
<1>5. groups'[g] = [Tre!Done(g)[g] EXCEPT !.result = r] /\ DOMAIN groups' = DOMAIN groups
      /\ \A h \in DOMAIN groups \ {g} : groups'[h] = groups[h]
  BY <1>1, <1>2
<1>6. groups'[g] \in TreeCalls(Found) /\ groups'[g].phase = "done" /\ groups'[g].got = {}
      /\ groups'[g].depth = groups[g].depth
  BY <1>2, <1>3, <1>4, <1>5 DEF TreeCalls
<1>7. \A h \in DOMAIN groups : CallGoesOn(h)
  BY <1>1, <1>5, <1>6 DEF CallGoesOn
<1>8. g \in Found /\ waits \in [Found -> WaitsFors]
  BY <1>1 DEF TreeTypes
<1>9. Found' = Found /\ waits' \in [Found -> WaitsFors] /\ \A x \in Found : waits'[x].depth = waits[x].depth
  <2> DEFINE over == [waits[g] EXCEPT !.resolved = TRUE]
             waited == [over EXCEPT !.missing = r.missing]
  <2>1. waits' = [waits EXCEPT ![g] = waited]
    BY <1>1, <1>8
  <2>2. over \in WaitsFors /\ over.depth = waits[g].depth
    BY <1>8 DEF WaitsFors
  <2> HIDE DEF over
  <2>3. waited \in WaitsFors /\ waited.depth = waits[g].depth
    BY <1>4, <2>2 DEF WaitsFors
  <2> HIDE DEF waited
  <2>4. waits' \in [Found -> WaitsFors] /\ \A x \in Found : waits'[x].depth = waits[x].depth
    BY <1>8, <2>1, <2>3
  <2> QED BY <2>4 DEF Found
<1>10. Tre!Projects' = Tre!Projects
  BY <1>1 DEF Tre!Projects
<1>11. TreeTypes'
  <2>1. groups' \in [DOMAIN groups' -> TreeCalls(Found)]
    BY <1>1, <1>2, <1>3, <1>5, <1>6
  <2> QED BY <1>1, <1>5, <1>9, <1>10, <2>1 DEF TreeTypes
<1>12. NewOnesAreThere' /\ NewOnce' /\ Depths' /\ OpenOnesAreAwaited'
  BY <1>1, <1>5, <1>7, <1>9, ShapeStays
<1>13. Complete'
  BY <1>1, <1>5, <1>7, CompleteStays
<1>14. ChildrenAreKnown' /\ RoundsEnd'
  BY <1>1, <1>5, <1>10 DEF TreeShape, TreeTypes, ChildrenAreKnown, RoundsEnd
<1> QED BY <1>11, <1>12, <1>13, <1>14 DEF TreeShape

LEMMA EndProjectKeeps ==
  ASSUME Tre!TreeAssumption, TreeInv, NEW p \in Tre!Projects, Tre!EndProject(p)
  PROVE  TreeInv'
<1> USE DEF TreeInv
<1> DEFINE r == IF Tre!InFirst(p) THEN Tre!PeersResult(p)
                ELSE Tre!FilterMissingPeers(Tre!PeersResult(p), importers[p].aliases)
           stg == IF importers[p].stage = "optional" THEN "again" ELSE "loop"
<1>1. /\ groups[p].phase = "peers" /\ groups' = Tre!Done(p) /\ ended = "no"
      /\ importers' = [importers EXCEPT ![p].stage = stg, ![p].deps = @ \cup Tre!Addresses(groups[p]),
                                        ![p].missing = r.missing, ![p].resolved = r.resolved]
      /\ UNCHANGED <<source, waits, children, preferred, ended, refusals, ignored>>
  BY DEF Tre!EndProject, Tre!At
<1>2. p \in DOMAIN groups /\ importers \in [Tre!Projects -> ImporterStates(Found)]
      /\ importers[p] \in ImporterStates(Found)
  BY DEF TreeTypes
<1>3. /\ Tre!Done(p) \in [DOMAIN groups -> TreeCalls(Found)]
      /\ \A h \in DOMAIN groups \ {p} : Tre!Done(p)[h] = groups[h]
      /\ Tre!Done(p)[p].phase = "done" /\ Tre!Done(p)[p].got = {} /\ Tre!Done(p)[p].depth = groups[p].depth
  BY <1>2, DoneIsTyped
<1>4. r \in Results(Found)
  <2>1. Tre!PeersResult(p) \in Results(Found)
    BY <1>1, <1>2, PeersResultTyped DEF TreeShape
  <2>2. importers[p].aliases \in Aliases(Found)
    BY <1>2 DEF ImporterStates
  <2> QED BY <2>1, <2>2, FilterTyped
<1>5. DOMAIN groups' = DOMAIN groups /\ \A h \in DOMAIN groups : CallGoesOn(h)
  BY <1>1, <1>3 DEF CallGoesOn
<1>6. Found' = Found /\ Tre!Projects' = Tre!Projects
  BY <1>1 DEF Found, Tre!Projects
<1>7. importers' \in [Tre!Projects -> ImporterStates(Found)]
  <2> DEFINE deps == importers[p].deps \cup Tre!Addresses(groups[p])
             made1 == [importers[p] EXCEPT !.stage = stg]
             made2 == [made1 EXCEPT !.deps = deps]
             made3 == [made2 EXCEPT !.missing = r.missing]
             made == [made3 EXCEPT !.resolved = r.resolved]
  <2>1. groups[p].got \in SUBSET Gots(Found)
    BY <1>2, CallTyped
  <2>2. deps \in SUBSET Found
    BY <1>2, <2>1 DEF ImporterStates, Gots, Tre!Addresses
  <2>3. r.missing \in SUBSET Wanteds /\ r.resolved \in SUBSET ResolvedAs(Found)
    BY <1>4 DEF Results
  <2>4. stg \in {"loop", "again"}
    OBVIOUS
  <2>5. importers' = [importers EXCEPT ![p] = made]
    BY <1>1, <1>2
  <2> HIDE DEF deps, r, stg
  <2>6. made1 \in ImporterStates(Found)
    BY <1>2, <2>4 DEF ImporterStates
  <2> HIDE DEF made1
  <2>7. made2 \in ImporterStates(Found)
    BY <2>2, <2>6 DEF ImporterStates
  <2> HIDE DEF made2
  <2>8. made3 \in ImporterStates(Found)
    BY <2>3, <2>7 DEF ImporterStates
  <2> HIDE DEF made3
  <2>9. made \in ImporterStates(Found)
    BY <2>3, <2>8 DEF ImporterStates
  <2> HIDE DEF made
  <2> QED BY <1>2, <2>5, <2>9
<1>8. \A q \in Tre!Projects \ {p} : importers'[q] = importers[q]
  BY <1>1, <1>2
<1>9. TreeTypes'
  BY <1>1, <1>3, <1>5, <1>6, <1>7 DEF TreeTypes
<1>10. NewOnesAreThere' /\ NewOnce' /\ Depths' /\ OpenOnesAreAwaited'
  BY <1>1, <1>5, <1>6, ShapeStays
<1>11. Complete'
  BY <1>1, <1>5, CompleteStays
<1>12. ChildrenAreKnown'
  BY <1>1, <1>3, <1>6 DEF TreeShape, ChildrenAreKnown
<1>13. RoundsEnd'
  <2>1. Tre!Projects \subseteq DOMAIN groups
    BY DEF TreeTypes
  <2> QED BY <1>1, <1>3, <1>6, <1>8, <2>1 DEF TreeShape, RoundsEnd
<1> QED BY <1>9, <1>10, <1>11, <1>12, <1>13 DEF TreeShape

\* More of each name are among what was found.
LEMMA MoreTyped ==
  ASSUME NEW F, NEW have \in SUBSET ResolvedAs(F), NEW but, NEW more \in Tre!OneOfEach(have, but)
  PROVE  {more[n] : n \in DOMAIN more} \in SUBSET F
<1>1. ASSUME NEW n \in DOMAIN more PROVE more[n] \in F
  <2>1. [name |-> n, id |-> more[n]] \in have
    BY DEF Tre!OneOfEach
  <2> QED BY <2>1 DEF ResolvedAs
<1> QED BY <1>1

LEMMA LoopKeeps ==
  ASSUME Tre!TreeAssumption, TreeInv, NEW p \in Tre!Projects, Tre!Loop(p)
  PROVE  TreeInv'
<1> USE DEF TreeInv
<1> DEFINE known == {NamedAs[d] : d \in importers[p].deps} \cup DOMAIN importers[p].aliases
           a == [n \in known |-> "true"]
           wants == Tre!HoistPeers({m \in importers[p].missing : ~ m.optional})
           stg == IF wants = {} THEN "ready" ELSE "round"
           optional == importers[p].optional \cup {m \in importers[p].missing : m.optional}
<1>1. /\ groups[p].phase = "done" /\ ended = "no" /\ importers[p].stage = "loop"
      /\ groups' = IF wants = {} THEN groups ELSE [groups EXCEPT ![p] = Tre!Call(wants, a, 0, {})]
      /\ UNCHANGED <<source, waits, children, preferred, ended, refusals, ignored>>
  BY DEF Tre!Loop, Tre!At
<1>2. PICK more \in IF source.auto THEN Tre!OneOfEach(importers[p].resolved, known) ELSE {<<>>} :
        importers' = [importers EXCEPT ![p].stage = stg, ![p].deps = @ \cup {more[n] : n \in DOMAIN more},
                                       ![p].aliases = a, ![p].optional = optional]
  BY DEF Tre!Loop
<1>3. /\ p \in DOMAIN groups /\ groups \in [DOMAIN groups -> TreeCalls(Found)]
      /\ importers \in [Tre!Projects -> ImporterStates(Found)] /\ importers[p] \in ImporterStates(Found)
      /\ Found \in SUBSET Tre!Packages /\ preferred \subseteq Tre!Packages /\ Tre!Projects \subseteq DOMAIN groups
  BY DEF TreeTypes
<1>4. /\ importers[p].deps \in SUBSET Found /\ importers[p].aliases \in Aliases(Found)
      /\ importers[p].missing \in SUBSET Wanteds /\ importers[p].resolved \in SUBSET ResolvedAs(Found)
      /\ importers[p].optional \in SUBSET Wanteds
  BY <1>3 DEF ImporterStates
<1>5. a \in Aliases(Found)
  <2>1. known \in SUBSET Tre!Names
    BY <1>3, <1>4, AliasesUsed DEF Tre!Names
  <2>2. a \in [known -> Found \cup {"true"}]
    OBVIOUS
  <2> HIDE DEF known, a
  <2> QED BY <2>1, <2>2, AliasesMade
<1>6. wants \in SUBSET Wanteds
  <2>1. {m \in importers[p].missing : ~ m.optional} \in SUBSET Wanteds
    BY <1>4
  <2> QED BY <1>3, <2>1, HoistTyped
<1>7. optional \in SUBSET Wanteds
  BY <1>4
<1>8. {more[n] : n \in DOMAIN more} \in SUBSET Found
  <2>1. more \in IF source.auto THEN Tre!OneOfEach(importers[p].resolved, known) ELSE {<<>>}
    OBVIOUS
  <2>2. CASE source.auto
    <3> HIDE DEF known
    <3>1. more \in Tre!OneOfEach(importers[p].resolved, known)
      BY <2>1, <2>2
    <3> QED BY <1>4, <3>1, MoreTyped
  <2>3. CASE ~ source.auto
    <3>1. more = <<>>
      BY <2>1, <2>3
    <3>2. DOMAIN more = {}
      BY <3>1
    <3> QED BY <3>2
  <2> QED BY <2>2, <2>3
<1>9. stg \in {"ready", "round"} /\ (stg = "ready" => groups' = groups)
  BY <1>1
<1>10. Tre!Call(wants, a, 0, {}) \in TreeCalls(Found)
       /\ Tre!Call(wants, a, 0, {}).phase = "asking" /\ Tre!Call(wants, a, 0, {}).got = {}
  <2>1. Tre!Call(wants, a, 0, {}) \in TreeCalls(Found)
    <3> HIDE DEF wants, a
    <3> QED BY <1>5, <1>6, CallMade
  <2> QED BY <2>1 DEF Tre!Call
<1> HIDE DEF a, wants, optional, stg, known
<1>11. importers' \in [Tre!Projects -> ImporterStates(Found)] /\ importers'[p].stage = stg
       /\ \A q \in Tre!Projects \ {p} : importers'[q] = importers[q]
  <2> DEFINE deps == importers[p].deps \cup {more[n] : n \in DOMAIN more}
             made1 == [importers[p] EXCEPT !.stage = stg]
             made2 == [made1 EXCEPT !.deps = deps]
             made3 == [made2 EXCEPT !.aliases = a]
             made == [made3 EXCEPT !.optional = optional]
  <2>1. deps \in SUBSET Found
    BY <1>4, <1>8
  <2>2. importers' = [importers EXCEPT ![p] = made]
    BY <1>2, <1>3
  <2> HIDE DEF deps
  <2>3. made1 \in ImporterStates(Found) /\ made1.stage = stg
    BY <1>3, <1>9 DEF ImporterStates
  <2> HIDE DEF made1
  <2>4. made2 \in ImporterStates(Found) /\ made2.stage = stg
    BY <2>1, <2>3 DEF ImporterStates
  <2> HIDE DEF made2
  <2>5. made3 \in ImporterStates(Found) /\ made3.stage = stg
    BY <1>5, <2>4 DEF ImporterStates
  <2> HIDE DEF made3
  <2>6. made \in ImporterStates(Found) /\ made.stage = stg
    BY <1>7, <2>5 DEF ImporterStates
  <2> HIDE DEF made
  <2> QED BY <1>3, <2>2, <2>6
<1>12. groups' \in [DOMAIN groups -> TreeCalls(Found)] /\ DOMAIN groups' = DOMAIN groups
       /\ \A h \in DOMAIN groups : CallGoesOn(h)
  BY <1>1, <1>3, <1>10 DEF CallGoesOn
<1>13. Found' = Found /\ Tre!Projects' = Tre!Projects
  BY <1>1 DEF Found, Tre!Projects
<1>14. TreeTypes'
  BY <1>1, <1>11, <1>12, <1>13 DEF TreeTypes
<1>15. NewOnesAreThere' /\ NewOnce' /\ Depths' /\ OpenOnesAreAwaited'
  BY <1>1, <1>12, <1>13, ShapeStays
<1>16. Complete'
  BY <1>1, <1>12, CompleteStays
<1>17. ChildrenAreKnown'
  BY <1>1, <1>13 DEF TreeShape, ChildrenAreKnown
<1>18. RoundsEnd'
  BY <1>1, <1>3, <1>9, <1>11, <1>13 DEF TreeShape, RoundsEnd
<1> QED BY <1>14, <1>15, <1>16, <1>17, <1>18 DEF TreeShape

LEMMA HoistOptionalKeeps ==
  ASSUME Tre!TreeAssumption, TreeInv, Tre!HoistOptional
  PROVE  TreeInv'
<1> USE DEF TreeInv
<1> DEFINE wants == [p \in Tre!Projects |-> Tre!HoistableOptionalPeers(importers[p].optional)]
           stg(p) == IF wants[p] = {} THEN "again" ELSE "optional"
           Again(p) == Tre!Call(wants[p], importers[p].aliases, 0, {})
<1>1. /\ ended = "no" /\ \A p \in Tre!Projects : importers[p].stage = "ready"
      /\ importers' = [p \in Tre!Projects |-> [importers[p] EXCEPT !.stage = stg(p), !.optional = {}]]
      /\ groups' = [g \in DOMAIN groups |-> IF g \in Tre!Projects /\ wants[g] # {} THEN Again(g) ELSE groups[g]]
      /\ UNCHANGED <<source, waits, children, preferred, ended, refusals, ignored>>
  BY DEF Tre!HoistOptional, Tre!Stages
<1>2. \A p \in Tre!Projects : groups[p].phase = "done"
  BY <1>1 DEF TreeShape, RoundsEnd
<1>3. /\ Tre!Projects \subseteq DOMAIN groups /\ groups \in [DOMAIN groups -> TreeCalls(Found)]
      /\ importers \in [Tre!Projects -> ImporterStates(Found)] /\ preferred \subseteq Tre!Packages
  BY DEF TreeTypes
<1>4. ASSUME NEW p \in Tre!Projects
      PROVE  /\ importers[p].optional \in SUBSET Wanteds /\ importers[p].aliases \in Aliases(Found)
             /\ importers[p] \in ImporterStates(Found)
  <2>1. importers[p] \in ImporterStates(Found)
    BY <1>3
  <2> QED BY <2>1 DEF ImporterStates
<1>5. ASSUME NEW p \in Tre!Projects PROVE wants[p] \in SUBSET Wanteds
  BY <1>3, <1>4, HoistableTyped
<1> HIDE DEF wants
<1>6. ASSUME NEW p \in Tre!Projects
      PROVE  Again(p) \in TreeCalls(Found) /\ Again(p).phase = "asking" /\ Again(p).got = {}
  <2>1. Again(p) \in TreeCalls(Found)
    BY <1>4, <1>5, CallMade
  <2> QED BY <2>1 DEF Tre!Call
<1>7. ASSUME NEW p \in Tre!Projects
      PROVE  importers'[p] \in ImporterStates(Found) /\ importers'[p].stage = stg(p)
  <2> DEFINE made1 == [importers[p] EXCEPT !.stage = stg(p)]
             made == [made1 EXCEPT !.optional = {}]
  <2>1. made1 \in ImporterStates(Found) /\ made1.stage = stg(p)
    BY <1>4 DEF ImporterStates
  <2>2. importers'[p] = made
    BY <1>1
  <2> HIDE DEF made1, stg
  <2>3. made \in ImporterStates(Found) /\ made.stage = stg(p)
    BY <2>1 DEF ImporterStates
  <2> QED BY <2>2, <2>3
<1>8. importers' \in [Tre!Projects -> ImporterStates(Found)]
  BY <1>1, <1>7
<1> HIDE DEF Again
<1>9. groups' \in [DOMAIN groups -> TreeCalls(Found)] /\ DOMAIN groups' = DOMAIN groups
      /\ \A h \in DOMAIN groups : CallGoesOn(h)
  BY <1>1, <1>2, <1>3, <1>6 DEF CallGoesOn
<1>10. Found' = Found /\ Tre!Projects' = Tre!Projects
  BY <1>1 DEF Found, Tre!Projects
<1>11. TreeTypes'
  BY <1>1, <1>8, <1>9, <1>10 DEF TreeTypes
<1>12. NewOnesAreThere' /\ NewOnce' /\ Depths' /\ OpenOnesAreAwaited'
  BY <1>1, <1>9, <1>10, ShapeStays
<1>13. Complete'
  BY <1>1, <1>9, CompleteStays
<1>14. ChildrenAreKnown'
  BY <1>1, <1>10 DEF TreeShape, ChildrenAreKnown
<1>15. RoundsEnd'
  <2> SUFFICES ASSUME NEW p \in Tre!Projects, importers'[p].stage \in {"loop", "ready", "again"}
               PROVE  groups'[p].phase = "done"
    BY <1>1, <1>10 DEF RoundsEnd
  <2>1. wants[p] = {}
    BY <1>7
  <2> QED BY <1>1, <1>2, <1>3, <2>1
<1> QED BY <1>11, <1>12, <1>13, <1>14, <1>15 DEF TreeShape

LEMMA TreeSteps ==
  ASSUME Tre!TreeAssumption, TreeInv, [Tre!Next]_Tre!treeVars
  PROVE  TreeInv'
<1>1. ASSUME NEW g \in DOMAIN groups, NEW w \in groups[g].pending, Tre!Refused(g, w) PROVE TreeInv'
  BY <1>1, RefusedKeeps
<1>2. ASSUME NEW g \in DOMAIN groups, NEW w \in groups[g].pending, NEW id \in w.range, Tre!Answer(g, w, id)
      PROVE  TreeInv'
  BY <1>2, AnswerKeeps
<1>3. ASSUME NEW g \in DOMAIN groups, Tre!StartChildren(g) PROVE TreeInv'
  BY <1>3, StartChildrenKeeps
<1>4. ASSUME NEW g \in DOMAIN groups, Tre!EndChildren(g) PROVE TreeInv'
  BY <1>4, EndChildrenKeeps
<1>5. ASSUME NEW g \in DOMAIN groups, Tre!EndPackage(g) PROVE TreeInv'
  BY <1>5, EndPackageKeeps
<1>6. ASSUME NEW p \in Tre!Projects, Tre!EndProject(p) PROVE TreeInv'
  BY <1>6, EndProjectKeeps
<1>7. ASSUME NEW p \in Tre!Projects, Tre!Loop(p) PROVE TreeInv'
  BY <1>7, LoopKeeps
<1>8. CASE Tre!HoistOptional
  BY <1>8, HoistOptionalKeeps
<1>9. ASSUME UNCHANGED <<source, groups, waits, children, preferred, refusals>>,
             \/ UNCHANGED <<importers, ended>>
             \/ Tre!BeginAgain
             \/ Tre!Resolved
      PROVE  TreeInv'
  <2> USE DEF TreeInv
  <2>1. /\ Found' = Found /\ Tre!Projects' = Tre!Projects
        /\ \A x, a : Tre!Dependencies(x, a)' = Tre!Dependencies(x, a)
    BY <1>9 DEF Found, Tre!Projects, Tre!Dependencies
  <2>2. NewOnesAreThere' /\ NewOnce' /\ Depths'
    BY <1>9, <2>1 DEF TreeShape, NewOnesAreThere, NewOnce, Depths
  <2>3. OpenOnesAreAwaited' /\ ChildrenAreKnown'
    BY <1>9, <2>1 DEF TreeShape, OpenOnesAreAwaited, Open, Awaits, ChildrenAreKnown
  <2>4. Complete'
    BY <1>9, <2>1 DEF Complete
  <2>5. CASE UNCHANGED <<importers, ended>>
    <3>1. TreeTypes' /\ RoundsEnd'
      BY <1>9, <2>1, <2>5 DEF TreeShape, TreeTypes, RoundsEnd
    <3> QED BY <2>2, <2>3, <2>4, <3>1 DEF TreeShape
  <2>6. CASE Tre!BeginAgain
    <3>1. /\ \A p \in Tre!Projects : importers[p].stage = "again"
          /\ importers' = [p \in Tre!Projects |-> [importers[p] EXCEPT !.stage = "loop"]] /\ UNCHANGED ended
      BY <2>6 DEF Tre!BeginAgain, Tre!Stages
    <3>2. \A p \in Tre!Projects : importers[p] \in ImporterStates(Found)
      BY DEF TreeTypes
    <3>3. importers' \in [Tre!Projects -> ImporterStates(Found)]
      BY <3>1, <3>2 DEF ImporterStates
    <3>4. TreeTypes'
      BY <1>9, <2>1, <3>1, <3>3 DEF TreeTypes
    <3>5. RoundsEnd'
      BY <1>9, <2>1, <3>1 DEF TreeShape, RoundsEnd
    <3> QED BY <2>2, <2>3, <2>4, <3>4, <3>5 DEF TreeShape
  <2>7. CASE Tre!Resolved
    <3>1. /\ \A p \in Tre!Projects : importers[p].stage \in {"loop", "ready"}
          /\ ended' = "ok" /\ UNCHANGED importers
      BY <2>7 DEF Tre!Resolved, Tre!Stages
    <3>2. TreeTypes'
      BY <1>9, <2>1, <3>1 DEF TreeTypes
    <3>3. RoundsEnd'
      BY <1>9, <2>1, <3>1 DEF TreeShape, RoundsEnd
    <3> QED BY <2>2, <2>3, <2>4, <3>2, <3>3 DEF TreeShape
  <2> QED BY <1>9, <2>5, <2>6, <2>7
<1>10. CASE Tre!BeginAgain \/ Tre!Resolved \/ UNCHANGED Tre!treeVars
  BY <1>9, <1>10 DEF Tre!BeginAgain, Tre!Resolved, Tre!treeVars
<1> QED BY <1>1, <1>2, <1>3, <1>4, <1>5, <1>6, <1>7, <1>8, <1>10 DEF Tre!Next, Tre!Step, Tre!Waiting

LEMMA TreeInvariant == ASSUME Tre!TreeAssumption PROVE Tre!SafetySpec => []TreeInv
<1>1. Tre!Init => TreeInv
  BY TreeStarts
<1>2. TreeInv /\ [Tre!Next]_Tre!treeVars => TreeInv'
  BY TreeSteps
<1> QED BY <1>1, <1>2, PTL DEF Tre!SafetySpec

\* The invariant implies the type that the runs check.
THEOREM TreeTypeCorrect == ASSUME Tre!TreeAssumption PROVE Tre!SafetySpec => []Tre!TreeTypeOK
<1>1. ASSUME TreeInv PROVE Tre!TreeTypeOK
  <2>1. \A g \in DOMAIN groups : groups[g].phase \in {"asking", "children", "peers", "done"}
    BY <1>1, CallTyped DEF TreeInv, TreeCalls
  <2>2. \A p \in Tre!Projects : importers[p] \in ImporterStates(Found)
    BY <1>1 DEF TreeInv, TreeTypes
  <2>3. Tre!Stages \subseteq {"first", "loop", "round", "ready", "optional", "again"}
    BY <2>2 DEF Tre!Stages, ImporterStates
  <2> QED BY <1>1, <2>1, <2>3 DEF TreeInv, TreeTypes, Tre!TreeTypeOK, Found
<1>2. TreeInv => Tre!TreeTypeOK
  BY <1>1
<1> QED BY <1>2, TreeInvariant, PTL

\* Every set of numbers that has any has a smallest one.
LEMMA SmallestOfThem ==
  ASSUME NEW S \in SUBSET Nat, S # {}
  PROVE  \E n \in S : \A m \in S : n <= m
<1>1. IsWellFoundedOn(OpToRel(<, Nat), Nat)
  BY NatLessThanWellFounded
<1> DEFINE R == OpToRel(<, Nat)
<1>2. \A y, x \in Nat : y < x => <<y, x>> \in R
  BY DEF OpToRel
<1> HIDE DEF R
<1>3. PICK n \in S : \A m \in S : <<m, n>> \notin R
  BY <1>1, WFMin DEF R
<1>4. ASSUME NEW m \in S PROVE n <= m
  <2>1. n \in Nat /\ m \in Nat
    OBVIOUS
  <2>2. ~ (m < n)
    BY <1>2, <1>3, <2>1
  <2> QED BY <2>1, <2>2
<1> QED BY <1>4

\* When all projects are done nothing is open: the one that was found at the
\* smallest depth would be awaited by one above it.
LEMMA NothingIsOpen ==
  ASSUME Tre!TreeAssumption, TreeInv, ended = "ok", NEW id \in Found
  PROVE  ~ Open(id)
<1> DEFINE opened == {x \in Found : Open(x)}
           depths == {waits[x].depth : x \in opened}
<1>1. SUFFICES ASSUME opened # {} PROVE FALSE
  OBVIOUS
<1>2. \A x \in Found : waits[x].depth \in Nat
  BY DEF TreeInv, TreeTypes, WaitsFors
<1>3. depths \in SUBSET Nat /\ depths # {}
  BY <1>1, <1>2
<1>4. PICK n \in depths : \A m \in depths : n <= m
  BY <1>3, SmallestOfThem
<1>5. PICK x \in opened : waits[x].depth = n
  BY <1>4
<1>6. PICK g \in DOMAIN groups : Awaits(g, x)
  BY <1>5 DEF TreeInv, TreeShape, OpenOnesAreAwaited
<1>7. groups[g].phase # "done" /\ groups[g].depth = n
  BY <1>5, <1>6 DEF Awaits, TreeInv, TreeShape, Depths
<1>8. g \notin Tre!Projects
  BY <1>7 DEF TreeInv, TreeShape, RoundsEnd
<1>9. g \in opened /\ n = waits[g].depth + 1
  BY <1>7, <1>8 DEF Open, TreeInv, TreeTypes, TreeShape, Depths
<1>10. waits[g].depth \in depths /\ waits[g].depth \in Nat
  BY <1>2, <1>9
<1>11. n <= waits[g].depth
  BY <1>4, <1>10
<1> QED BY <1>9, <1>10, <1>11

\* Whatever was found in whatever order, the tree that comes out is whole: all
\* that it has is resolved, and if nothing failed nothing that is depended on is
\* left out.
THEOREM TreesAreWhole == ASSUME Tre!TreeAssumption PROVE Tre!SafetySpec => []Tre!TreeIsWhole
<1>1. ASSUME TreeInv, ended = "ok" PROVE Found \subseteq DOMAIN children
  <2> SUFFICES ASSUME NEW id \in Found PROVE id \in DOMAIN children
    OBVIOUS
  <2>1. id \in DOMAIN groups /\ groups[id].phase = "done"
    BY <1>1, NothingIsOpen DEF Open
  <2>2. id \notin Tre!Projects
    BY <1>1, RootsTyped DEF TreeInv, TreeTypes
  <2> QED BY <1>1, <2>1, <2>2 DEF TreeInv, TreeShape, ChildrenAreKnown
<1>2. ASSUME TreeInv, ended = "ok"
      PROVE  /\ \A p \in Tre!Projects : importers[p].deps \subseteq DOMAIN children
             /\ \A id \in DOMAIN children :
                  /\ children[id] \subseteq DOMAIN children
                  /\ refusals = 0 /\ source.auto =>
                       \A w \in Tre!Dependencies(id, <<>>) : w.range \cap (children[id] \cup {id}) # {}
  <2>1. Found \subseteq DOMAIN children
    BY <1>1, <1>2
  <2>2. \A p \in Tre!Projects : importers[p].deps \subseteq Found
    <3>1. \A p \in Tre!Projects : importers[p] \in ImporterStates(Found)
      BY <1>2 DEF TreeInv, TreeTypes
    <3> QED BY <3>1 DEF ImporterStates
  <2>3. \A id \in DOMAIN children : children[id] \subseteq Found
    BY <1>2 DEF TreeInv, TreeTypes
  <2> QED BY <1>2, <2>1, <2>2, <2>3 DEF TreeInv, Complete, Met
<1>3. TreeInv => Tre!TreeIsWhole
  BY <1>2 DEF Tre!TreeIsWhole
<1> QED BY <1>3, TreeInvariant, PTL

-----------------------------------------------------------------------------
\* An install of one project

Installing == inst.phase \notin Ins!Rest

InstRecord ==
  [phase : Ins!Rest \cup {"begun", "linking", "building", "ending"},
   read : Ins!Manifests \cup {"none"}, target : Ins!Lockfiles \cup {"none"}, how : {"full", "frozen"},
   again : BOOLEAN, force : BOOLEAN, prune : BOOLEAN, link : SUBSET Ins!Packages,
   import : SUBSET Ins!Packages, build : SUBSET Ins!Packages, write : SUBSET {"wanted", "current"}]

InstallTypes ==
  /\ workspace \in BOOLEAN /\ hardlinks \in BOOLEAN /\ damaged \in BOOLEAN /\ stale \in BOOLEAN
  /\ cache \subseteq NeedBuild /\ manifest \in Ins!Manifests
  /\ wanted \in Ins!Lockfiles \cup {"none"} /\ current \in Ins!Lockfiles \cup {"none"}
  /\ brokeOff \in Ins!Lockfiles \cup {"none"}
  /\ DOMAIN touched \subseteq Ins!Files /\ \A f \in DOMAIN touched : touched[f] \subseteq DOMAIN touched
  /\ disk \in [Ins!Packages -> {"absent", "fresh", "built"}]
  /\ DOMAIN links = Ins!Packages
  /\ \A p \in Ins!Packages : \A a \in DOMAIN links[p] : links[p][a] \in Ins!Packages
  /\ \A a \in DOMAIN roots : roots[a] \in Ins!Packages
  /\ inst \in InstRecord
  /\ edits \in 0..MaxEdits /\ breaks \in 0..MaxBreaks

\* Where the running install is.
InstShape ==
  /\ inst.phase \in {"idle", "skipped", "failed"} => inst = Ins!AtRest(inst.phase)
  /\ inst.phase \notin {"idle", "skipped", "failed"} =>
       inst.target \in Ins!Lockfiles /\ InstallSatisfies[inst.target] = inst.read
  /\ inst.phase \in {"begun", "linking"} =>
       inst.write = IF inst.how = "full" THEN {"wanted", "current"} ELSE {"current"}
  /\ inst.phase # "linking" => inst.link = {} /\ inst.import = {}
  /\ inst.phase \notin {"linking", "building"} => inst.build = {}
  /\ inst.phase \in {"ending", "done"} => inst.write = {}
  /\ inst.link \cup inst.import \cup inst.build \subseteq Ins!PackagesOf(inst.target)
  /\ inst.build \subseteq NeedBuild

\* The lockfile by which node_modules was changed since it became the current
\* one: of the install that is at it, or of one that broke off.
AtIt == (inst.phase \in {"linking", "building"} \/ inst.again) /\ "current" \in inst.write
Half == IF AtIt THEN inst.target ELSE brokeOff

IsGood(p) == disk[p] \in IF p \in NeedBuild THEN {"built"} ELSE {"fresh", "built"}
HasLinks(p, l) == \A a \in DOMAIN InstallChildren[l][p] : a \in DOMAIN links[p] /\ links[p][a] = InstallChildren[l][p][a]

\* Without damage node_modules is what the current lockfile says, but for what
\* an install of another lockfile has changed.
CurrentIsThere ==
  ~damaged =>
    /\ inst.phase \in {"begun", "linking", "building"} => brokeOff \in {"none", inst.target}
    /\ \A p \in Ins!PackagesOf(current) : Half = "none" \/ p \in Ins!PackagesOf(Half) =>
         /\ IsGood(p) \/ (AtIt /\ inst.force)
         /\ Half = "none" \/ InstallChildren[Half][p] = InstallChildren[current][p] => HasLinks(p, current)
    /\ \A a \in DOMAIN Ins!DirectOf(current) :
         Half = "none" \/ (a \in DOMAIN InstallDirect[Half] /\ InstallDirect[Half][a] = InstallDirect[current][a]) =>
           a \in DOMAIN roots /\ roots[a] = InstallDirect[current][a]
    /\ DOMAIN roots \subseteq DOMAIN Ins!DirectOf(current) \cup DOMAIN Ins!DirectOf(Half)
    /\ ~hardlinks => \A p \in cache : disk[p] # "fresh"

\* What the running install has left to do.
RestIsPlanned ==
  /\ inst.phase \in {"linking", "building"} /\ (inst.force \/ ~damaged) =>
       \A p \in Ins!PackagesOf(inst.target) :
         /\ p \in inst.link \/ HasLinks(p, inst.target)
         /\ p \in inst.import \/ IsGood(p) \/ (p \in inst.build /\ disk[p] # "absent")
  /\ inst.phase \in {"linking", "building"} /\ ~damaged => DOMAIN roots \subseteq DOMAIN InstallDirect[inst.target]
  /\ inst.phase = "building" =>
       \A a \in DOMAIN InstallDirect[inst.target] : a \in DOMAIN roots /\ roots[a] = InstallDirect[inst.target][a]
  /\ inst.phase \in {"ending", "done"} =>
       /\ inst.force \/ ~damaged => Ins!IsInstalled(inst.target)
       /\ ~damaged => DOMAIN roots = DOMAIN InstallDirect[inst.target]
  /\ inst.phase \in {"linking", "building", "ending", "done"} /\ inst.prune =>
       \A p \in Ins!Packages \ Ins!PackagesOf(inst.target) : disk[p] = "absent"

\* The files, and what the running install has read and written.
FilesFollow ==
  /\ {"manifest", "wanted"} \subseteq DOMAIN touched
  /\ Ins!Exists("current") <=> current # "none"
  /\ Ins!Exists("state") => current # "none"
  /\ inst.phase \in {"building", "ending", "done"} /\ "current" \notin inst.write => current = inst.target
  /\ ~stale /\ Installing => manifest = inst.read /\ ("wanted" \notin inst.write => wanted = inst.target)

\* What the check concludes from the order in which files were modified.
TimesTell ==
  ~stale =>
    /\ wanted # "none" /\ ~Ins!Newer("manifest", "wanted") => Ins!Satisfied(wanted)
    /\ inst.write # {"wanted"} =>
         /\ Ins!Exists("current") /\ ~Ins!Newer("wanted", "current") => current = wanted
         /\ workspace /\ Ins!Exists("state") /\ ~Ins!Newer("wanted", "state") => current = wanted
    /\ workspace /\ Ins!Exists("state") /\ ~Ins!Newer("manifest", "state") /\ ~damaged =>
         /\ Ins!Satisfied(wanted) /\ current = wanted
         /\ Installing => inst.target = wanted
    /\ inst.phase = "skipped" /\ ~damaged => Ins!Satisfied(wanted) /\ current = wanted

InstallInv ==
  InstallTypes /\ InstShape /\ CurrentIsThere /\ RestIsPlanned /\ FilesFollow /\ TimesTell

-----------------------------------------------------------------------------
LEMMA LockfilesAre ==
  ASSUME Ins!InstallAssumption
  PROVE  /\ "none" \notin Ins!Lockfiles
         /\ Ins!PackagesOf("none") = {} /\ DOMAIN Ins!DirectOf("none") = {}
         /\ \A l \in Ins!Lockfiles :
              /\ Ins!PackagesOf(l) = DOMAIN InstallChildren[l] /\ Ins!PackagesOf(l) \subseteq Ins!Packages
              /\ Ins!DirectOf(l) = InstallDirect[l] /\ DOMAIN InstallDirect[l] # {} /\ InstallSatisfies[l] \in Ins!Manifests
              /\ \A a \in DOMAIN InstallDirect[l] : InstallDirect[l][a] \in Ins!PackagesOf(l)
              /\ \A p \in Ins!PackagesOf(l) : \A a \in DOMAIN InstallChildren[l][p] :
                   InstallChildren[l][p][a] \in Ins!PackagesOf(l)
         /\ NeedBuild \subseteq Ins!Packages
<1>1. Ins!Packages = UNION {DOMAIN InstallChildren[l] : l \in DOMAIN InstallChildren} /\ Ins!Lockfiles = DOMAIN InstallChildren
  BY DEF Ins!InstallAssumption, Ins!Packages, Ins!Lockfiles
<1>2. NeedBuild \subseteq Ins!Packages
  BY <1>1 DEF Ins!InstallAssumption
<1>3. \A l \in Ins!Lockfiles : DOMAIN InstallChildren[l] \subseteq Ins!Packages
  BY <1>1
<1>4. DOMAIN Ins!DirectOf("none") = {} /\ Ins!PackagesOf("none") = {}
  BY DEF Ins!DirectOf, Ins!PackagesOf, Ins!None
<1>5. "none" \notin Ins!Lockfiles
  BY DEF Ins!InstallAssumption, Ins!Lockfiles
<1>6. \A l \in Ins!Lockfiles :
        /\ Ins!PackagesOf(l) = DOMAIN InstallChildren[l] /\ Ins!DirectOf(l) = InstallDirect[l] /\ InstallSatisfies[l] \in Ins!Manifests
  BY <1>5 DEF Ins!DirectOf, Ins!PackagesOf, Ins!None, Ins!Manifests
<1>7. \A l \in Ins!Lockfiles :
        /\ DOMAIN InstallDirect[l] # {}
        /\ \A a \in DOMAIN InstallDirect[l] : InstallDirect[l][a] \in DOMAIN InstallChildren[l]
        /\ \A p \in DOMAIN InstallChildren[l] : \A a \in DOMAIN InstallChildren[l][p] : InstallChildren[l][p][a] \in DOMAIN InstallChildren[l]
  BY DEF Ins!InstallAssumption, Ins!Lockfiles
<1> HIDE DEF Ins!PackagesOf, Ins!DirectOf
<1> QED BY <1>2, <1>3, <1>4, <1>5, <1>6, <1>7

\* What the check may read does not depend on what is in node_modules.
LEMMA FilesStand ==
  ASSUME Ins!InstallAssumption, InstallInv,
         UNCHANGED <<workspace, manifest, wanted, current, touched, stale>>, damaged => damaged',
         UNCHANGED <<inst.write, inst.target, inst.read>>,
         Installing' => Installing, inst'.phase = "skipped" => inst.phase = "skipped",
         inst'.phase \in {"building", "ending", "done"} /\ "current" \notin inst.write => current = inst.target
  PROVE  FilesFollow' /\ TimesTell'
<1>1. FilesFollow'
  BY DEF InstallInv, FilesFollow, Ins!Exists
<1>2. TimesTell'
  BY DEF InstallInv, TimesTell, Ins!Exists, Ins!Newer, Ins!Satisfied
<1> QED BY <1>1, <1>2

\* Nothing changes in node_modules, and no install was or is at it.
LEMMA TreeStands ==
  ASSUME Ins!InstallAssumption, InstallInv,
         UNCHANGED <<hardlinks, cache, current, disk, links, roots, brokeOff>>, damaged => damaged',
         ~AtIt, ~AtIt', inst'.phase \notin {"linking", "building", "ending"},
         inst'.phase = "begun" /\ ~damaged' => brokeOff \in {"none", inst'.target},
         inst'.phase = "done" => inst.phase \in {"ending", "done"} /\ UNCHANGED <<inst.target, inst.force, inst.prune>>
  PROVE  CurrentIsThere' /\ RestIsPlanned'
<1>1. Half' = Half
  BY DEF Half
<1>2. CurrentIsThere'
  BY <1>1 DEF InstallInv, CurrentIsThere, IsGood, HasLinks, Ins!PackagesOf, Ins!DirectOf, Ins!None
<1>3. RestIsPlanned'
  <2> SUFFICES ASSUME inst'.phase = "done" PROVE RestIsPlanned'
    BY DEF RestIsPlanned
  <2> QED BY DEF InstallInv, RestIsPlanned, Ins!IsInstalled, Ins!PackagesOf, Ins!DirectOf, Ins!None
<1> QED BY <1>2, <1>3

LEMMA TypesAre ==
  ASSUME InstallTypes PROVE Ins!InstallTypeOK
<1>1. /\ {workspace, hardlinks} \subseteq BOOLEAN /\ {wanted, current, brokeOff} \subseteq Ins!Lockfiles \cup {Ins!None}
  BY DEF InstallTypes, Ins!None
<1>2. /\ inst.phase \in Ins!Rest \cup {"begun", "linking", "building", "ending"}
      /\ inst.target \in Ins!Lockfiles \cup {Ins!None} /\ inst.read \in Ins!Manifests \cup {Ins!None}
      /\ inst.how \in {"full", "frozen"} /\ inst.write \subseteq {"wanted", "current"}
      /\ inst.link \cup inst.import \cup inst.build \subseteq Ins!Packages
      /\ inst.force \in BOOLEAN /\ inst.prune \in BOOLEAN /\ inst.again \in BOOLEAN
  BY DEF InstallTypes, InstRecord, Ins!None
<1>3. \A f, p, a : {f, p, a} \subseteq BOOLEAN <=> f \in BOOLEAN /\ p \in BOOLEAN /\ a \in BOOLEAN
  OBVIOUS
<1>4. {damaged, stale, inst.force, inst.prune, inst.again} \subseteq BOOLEAN
  BY <1>2, Zenon DEF InstallTypes
<1> QED BY <1>1, <1>2, <1>4 DEF InstallTypes, Ins!InstallTypeOK

LEMMA AtRestIs ==
  ASSUME Ins!InstallAssumption, NEW ph \in Ins!Rest
  PROVE  /\ Ins!AtRest(ph) \in InstRecord
         /\ Ins!AtRest(ph).phase = ph /\ Ins!AtRest(ph).write = {} /\ Ins!AtRest(ph).build = {}
         /\ Ins!AtRest(ph).link = {} /\ Ins!AtRest(ph).import = {}
  BY DEF Ins!AtRest, InstRecord, Ins!None

LEMMA RestingIs ==
  ASSUME Ins!InstallAssumption, InstallInv, inst.phase \in Ins!Rest
  PROVE  inst.write = {} /\ ~AtIt /\ ~Installing
  BY AtRestIs DEF InstallInv, InstShape, Ins!Rest, AtIt, Installing

LEMMA RestIsShaped ==
  ASSUME Ins!InstallAssumption, InstallInv, NEW ph \in {"idle", "skipped", "failed"}, inst' = Ins!AtRest(ph)
  PROVE  InstShape' /\ inst' \in InstRecord /\ ~AtIt' /\ ~Installing'
<1>1. ph \in Ins!Rest
  BY DEF Ins!Rest
<1>2. InstShape'
  BY <1>1, AtRestIs DEF InstShape
<1> QED BY <1>1, <1>2, AtRestIs DEF AtIt, Installing

LEMMA TouchIs ==
  ASSUME NEW f \in Ins!Files, InstallTypes, touched' = Ins!Touch(f)
  PROVE  /\ DOMAIN touched' = DOMAIN touched \cup {f}
         /\ DOMAIN touched' \subseteq Ins!Files /\ \A g \in DOMAIN touched' : touched'[g] \subseteq DOMAIN touched'
         /\ \A g : Ins!Exists(g)' <=> g = f \/ Ins!Exists(g)
         /\ \A g, h : g # f /\ h # f => (Ins!Newer(g, h)' <=> Ins!Newer(g, h))
         /\ \A g : ~Ins!Newer(g, f)'
         /\ \A g : g # f /\ Ins!Exists(g) => Ins!Newer(f, g)'
<1>1. /\ DOMAIN touched' = DOMAIN touched \cup {f}
      /\ \A g \in DOMAIN touched \cup {f} :
           touched'[g] = IF g = f THEN DOMAIN touched \ {f} ELSE touched[g] \ {f}
  BY DEF Ins!Touch
<1>2. DOMAIN touched \subseteq Ins!Files /\ \A g \in DOMAIN touched : touched[g] \subseteq DOMAIN touched
  BY DEF InstallTypes
<1>3. DOMAIN touched' \subseteq Ins!Files /\ \A g \in DOMAIN touched' : touched'[g] \subseteq DOMAIN touched'
  BY <1>1, <1>2
<1> QED BY <1>1, <1>2, <1>3 DEF Ins!Exists, Ins!Newer

LEMMA SkipKeeps == ASSUME Ins!InstallAssumption, InstallInv, Ins!Skip PROVE InstallInv'
<1>1. /\ inst.phase \in Ins!Rest /\ Ins!Exists("state") /\ inst' = Ins!AtRest("skipped")
      /\ UNCHANGED <<workspace, hardlinks, cache, manifest, wanted, current, disk, links, roots, brokeOff,
                     damaged, stale, edits, breaks>>
      /\ IF workspace THEN Ins!WorkspaceUpToDate ELSE Ins!ProjectUpToDate
      /\ touched' = IF workspace /\ Ins!Newer("manifest", "state") THEN Ins!Touch("state") ELSE touched
  BY DEF Ins!Skip
<1>2. inst.write = {} /\ ~AtIt /\ ~Installing
  BY <1>1, RestingIs
<1>3. "skipped" \in Ins!Rest
  BY DEF Ins!Rest
<1>4. InstShape' /\ inst' \in InstRecord /\ ~AtIt' /\ ~Installing' /\ inst'.phase = "skipped" /\ inst'.write = {}
      /\ inst'.link = {} /\ inst'.import = {} /\ inst'.build = {}
  BY <1>1, <1>3, RestIsShaped, AtRestIs
<1>5. CurrentIsThere' /\ RestIsPlanned'
  BY <1>1, <1>2, <1>4, TreeStands
<1>6. CASE touched' = touched /\ ~(workspace /\ Ins!Newer("manifest", "state"))
  <2>1. InstallTypes'
    BY <1>1, <1>4, <1>6 DEF InstallInv, InstallTypes
  <2>2. FilesFollow'
    BY <1>1, <1>4, <1>6 DEF InstallInv, FilesFollow, Ins!Exists
  <2>3. ~stale /\ ~damaged => Ins!Satisfied(wanted) /\ current = wanted
    <3>1. CASE workspace
      BY <1>1, <1>2, <1>6, <3>1 DEF InstallInv, TimesTell
    <3>2. CASE ~workspace
      <4>1. current # "none" /\ Ins!Exists("current") /\ wanted # "none"
        BY <1>1, <3>2 DEF InstallInv, FilesFollow, Ins!ProjectUpToDate, Ins!None
      <4>2. ~stale => current = wanted
        BY <1>1, <1>2, <3>2, <4>1 DEF InstallInv, TimesTell, Ins!ProjectUpToDate, Ins!EqualsCurrent, Ins!None
      <4>3. ~stale => Ins!Satisfied(wanted)
        BY <1>1, <3>2, <4>1 DEF InstallInv, TimesTell, Ins!ProjectUpToDate
      <4> QED BY <4>2, <4>3
    <3> QED BY <3>1, <3>2
  <2>4. TimesTell'
    BY <1>1, <1>2, <1>4, <1>6, <2>3 DEF InstallInv, TimesTell, Ins!Exists, Ins!Newer, Ins!Satisfied
  <2> QED BY <1>4, <1>5, <2>1, <2>2, <2>4 DEF InstallInv
<1>7. CASE workspace /\ Ins!Newer("manifest", "state") /\ touched' = Ins!Touch("state")
  <2>1. InstallTypes /\ "state" \in Ins!Files
    BY DEF InstallInv, InstallTypes, Ins!Files
  <2>2. /\ DOMAIN touched' = DOMAIN touched \cup {"state"}
        /\ DOMAIN touched' \subseteq Ins!Files /\ \A g \in DOMAIN touched' : touched'[g] \subseteq DOMAIN touched'
        /\ \A g : Ins!Exists(g)' <=> g = "state" \/ Ins!Exists(g)
        /\ \A g, h : g # "state" /\ h # "state" => (Ins!Newer(g, h)' <=> Ins!Newer(g, h))
    BY <1>7, <2>1, TouchIs
  <2>3. InstallTypes'
    BY <1>1, <1>4, <2>2 DEF InstallInv, InstallTypes
  <2>4. FilesFollow'
    BY <1>1, <1>4, <2>2 DEF InstallInv, FilesFollow
  <2>5. wanted # "none" /\ Ins!EqualsCurrent(Ins!Newer("wanted", "state")) /\ Ins!Satisfied(wanted)
    BY <1>1, <1>7 DEF Ins!WorkspaceUpToDate, Ins!None
  <2>6. ~stale => current = wanted
    BY <1>1, <1>2, <1>7, <2>5 DEF InstallInv, TimesTell, Ins!EqualsCurrent
  <2>7. Ins!Satisfied(wanted)'
    BY <1>1, <2>5 DEF Ins!Satisfied
  <2>8. TimesTell'
    BY <1>1, <1>2, <1>4, <2>2, <2>6, <2>7 DEF InstallInv, TimesTell
  <2> QED BY <1>4, <1>5, <2>3, <2>4, <2>8 DEF InstallInv
<1> QED BY <1>1, <1>6, <1>7

LEMMA BeginKeeps ==
  ASSUME Ins!InstallAssumption, InstallInv, NEW forced \in BOOLEAN, Ins!Begin(forced)
  PROVE  InstallInv'
<1>1. /\ inst.phase \in Ins!Rest
      /\ UNCHANGED <<workspace, hardlinks, cache, manifest, wanted, current, touched, disk, links, roots,
                     brokeOff, stale, edits, breaks>>
  BY DEF Ins!Begin
<1>2. inst.write = {} /\ ~AtIt /\ ~Installing
  BY <1>1, RestingIs
<1>3. CASE ~Ins!Satisfied(wanted) /\ inst' = Ins!AtRest("failed") /\ UNCHANGED damaged
  <2>1. "failed" \in Ins!Rest
    BY DEF Ins!Rest
  <2>2. InstShape' /\ inst' \in InstRecord /\ ~AtIt' /\ ~Installing' /\ inst'.phase = "failed" /\ inst'.write = {}
      /\ inst'.link = {} /\ inst'.import = {} /\ inst'.build = {}
    BY <1>3, <2>1, RestIsShaped, AtRestIs
  <2>3. CurrentIsThere' /\ RestIsPlanned'
    BY <1>1, <1>2, <1>3, <2>2, TreeStands
  <2>4. InstallTypes'
    BY <1>1, <1>3, <2>2 DEF InstallInv, InstallTypes
  <2>5. FilesFollow'
    BY <1>1, <2>2 DEF InstallInv, FilesFollow, Ins!Exists
  <2>6. TimesTell'
    BY <1>1, <1>2, <1>3, <2>2 DEF InstallInv, TimesTell, Ins!Exists, Ins!Newer, Ins!Satisfied
  <2> QED BY <2>2, <2>3, <2>4, <2>5, <2>6 DEF InstallInv
<1>4. ASSUME NEW l \in Ins!Lockfiles, NEW how \in {"full", "frozen"}, Ins!Satisfied(l),
             how = "frozen" => l = wanted, how = "full" => ~Ins!Satisfied(wanted), Ins!StartsOn(l, how, forced)
      PROVE  InstallInv'
  <2>1. PICK b \in BOOLEAN :
          inst' = [Ins!AtRest("begun") EXCEPT !.read = manifest, !.target = l, !.how = how, !.force = forced,
                     !.prune = b, !.write = IF how = "full" THEN {"wanted", "current"} ELSE {"current"}]
    BY <1>4 DEF Ins!StartsOn
  <2>2. damaged' = (damaged \/ (brokeOff # "none" /\ brokeOff # l))
    BY <1>4 DEF Ins!StartsOn, Ins!None
  <2>3. manifest \in Ins!Manifests /\ InstallSatisfies[l] = manifest
    BY <1>4 DEF InstallInv, InstallTypes, Ins!Satisfied
  <2>4. /\ inst' \in InstRecord /\ inst'.phase = "begun" /\ inst'.read = manifest /\ inst'.target = l
        /\ inst'.how = how /\ inst'.write = IF how = "full" THEN {"wanted", "current"} ELSE {"current"}
        /\ inst'.link = {} /\ inst'.import = {} /\ inst'.build = {} /\ inst'.again = FALSE
    BY <2>1, <2>3 DEF Ins!AtRest, InstRecord, Ins!None
  <2>5. InstShape'
    BY <2>3, <2>4 DEF InstShape
  <2>6. ~AtIt'
    BY <2>4 DEF AtIt
  <2>7. CurrentIsThere' /\ RestIsPlanned'
    BY <1>1, <1>2, <2>2, <2>4, <2>6, TreeStands
  <2>8. InstallTypes'
    BY <1>1, <2>2, <2>4 DEF InstallInv, InstallTypes
  <2>9. FilesFollow'
    BY <1>1, <1>4, <2>4 DEF InstallInv, FilesFollow, Ins!Exists
  <2>10. TimesTell'
    BY <1>1, <1>2, <1>4, <2>2, <2>4 DEF InstallInv, TimesTell, Ins!Exists, Ins!Newer, Ins!Satisfied
  <2> QED BY <2>5, <2>7, <2>8, <2>9, <2>10 DEF InstallInv
<1>5. Ins!Satisfied(wanted) => wanted \in Ins!Lockfiles
  BY DEF InstallInv, InstallTypes, Ins!Satisfied, Ins!None
<1> QED BY <1>3, <1>4, <1>5 DEF Ins!Begin

LEMMA UpdateStateKeeps == ASSUME Ins!InstallAssumption, InstallInv, Ins!UpdateState PROVE InstallInv'
<1>1. /\ inst.phase = "ending" /\ touched' = Ins!Touch("state") /\ inst' = [inst EXCEPT !.phase = "done"]
      /\ stale' = (manifest # inst.read \/ wanted # inst.target)
      /\ UNCHANGED <<workspace, hardlinks, cache, manifest, wanted, current, disk, links, roots, brokeOff, damaged,
                     edits, breaks>>
  BY DEF Ins!UpdateState
<1>2. /\ inst' \in InstRecord /\ inst'.phase = "done"
      /\ UNCHANGED <<inst.read, inst.target, inst.how, inst.again, inst.force, inst.prune, inst.link, inst.import,
                     inst.build, inst.write>>
  BY <1>1 DEF InstallInv, InstallTypes, InstRecord, Ins!Rest
<1>3. InstallTypes /\ "state" \in Ins!Files
  BY DEF InstallInv, Ins!Files
<1>4. /\ DOMAIN touched' = DOMAIN touched \cup {"state"}
      /\ DOMAIN touched' \subseteq Ins!Files /\ \A g \in DOMAIN touched' : touched'[g] \subseteq DOMAIN touched'
      /\ \A g : Ins!Exists(g)' <=> g = "state" \/ Ins!Exists(g)
      /\ \A g, h : g # "state" /\ h # "state" => (Ins!Newer(g, h)' <=> Ins!Newer(g, h))
  BY <1>1, <1>3, TouchIs
<1>5. InstShape'
  BY <1>1, <1>2 DEF InstallInv, InstShape, Ins!PackagesOf
<1>6. ~AtIt /\ ~AtIt' /\ inst.write = {}
  BY <1>1, <1>2 DEF InstallInv, InstShape, AtIt
<1>7. CurrentIsThere' /\ RestIsPlanned'
  BY <1>1, <1>2, <1>6, TreeStands
<1>8. InstallTypes'
  BY <1>1, <1>2, <1>4 DEF InstallInv, InstallTypes
<1>9. current = inst.target /\ current # "none" /\ InstallSatisfies[inst.target] = inst.read /\ inst.target # "none"
  BY <1>1, <1>6, LockfilesAre DEF InstallInv, FilesFollow, InstShape
<1>10. FilesFollow'
  BY <1>1, <1>2, <1>4, <1>6, <1>9 DEF InstallInv, FilesFollow, Installing, Ins!Rest
<1>11. ~stale' => manifest = inst.read /\ wanted = inst.target
  BY <1>1
<1>12. TimesTell'
  BY <1>1, <1>2, <1>9, <1>11 DEF TimesTell, Installing, Ins!Rest, Ins!Satisfied, Ins!None
<1> QED BY <1>5, <1>7, <1>8, <1>10, <1>12 DEF InstallInv

LEMMA RunHooksKeeps == ASSUME Ins!InstallAssumption, InstallInv, Ins!RunHooks PROVE InstallInv'
<1>1. /\ inst.phase = "building" /\ inst.build = {} /\ inst.write = {} /\ brokeOff' = "none"
      /\ inst' = [inst EXCEPT !.phase = "ending"]
      /\ UNCHANGED <<workspace, hardlinks, cache, manifest, wanted, current, touched, disk, links, roots, damaged,
                     stale, edits, breaks>>
  BY DEF Ins!RunHooks, Ins!Linked, Ins!None
<1>2. /\ inst' \in InstRecord /\ inst'.phase = "ending"
      /\ UNCHANGED <<inst.read, inst.target, inst.how, inst.again, inst.force, inst.prune, inst.link, inst.import,
                     inst.build, inst.write>>
  BY <1>1 DEF InstallInv, InstallTypes, InstRecord, Ins!Rest
<1>3. InstShape'
  BY <1>1, <1>2 DEF InstallInv, InstShape, Ins!PackagesOf
<1>4. ~AtIt /\ ~AtIt' /\ Half = brokeOff /\ Half' = "none"
  BY <1>1, <1>2 DEF AtIt, Half
<1>5. InstallTypes'
  BY <1>1, <1>2 DEF InstallInv, InstallTypes
<1>6. /\ current = inst.target /\ current \in Ins!Lockfiles /\ Ins!DirectOf(current) = InstallDirect[current]
      /\ inst.link = {} /\ inst.import = {}
  BY <1>1, LockfilesAre DEF InstallInv, FilesFollow, InstShape
<1>7. inst.force \/ ~damaged =>
        \A p \in Ins!PackagesOf(current) : IsGood(p) /\ HasLinks(p, current)
  BY <1>1, <1>6 DEF InstallInv, RestIsPlanned
<1>8. /\ \A a \in DOMAIN InstallDirect[current] : a \in DOMAIN roots /\ roots[a] = InstallDirect[current][a]
      /\ ~damaged => DOMAIN roots \subseteq DOMAIN InstallDirect[current]
  BY <1>1, <1>6 DEF InstallInv, RestIsPlanned
<1>9. inst.force \/ ~damaged => Ins!IsInstalled(current)
  BY <1>6, <1>7, <1>8 DEF Ins!IsInstalled, IsGood, HasLinks
<1>10. CurrentIsThere'
  <2> SUFFICES ASSUME ~damaged PROVE CurrentIsThere'
    BY <1>1 DEF CurrentIsThere
  <2>1. ~hardlinks => \A p \in cache : disk[p] # "fresh"
    BY DEF InstallInv, CurrentIsThere
  <2>2. /\ \A p \in Ins!PackagesOf(current)' : IsGood(p)' /\ HasLinks(p, current)'
        /\ DOMAIN Ins!DirectOf(current)' = DOMAIN InstallDirect[current]
    BY <1>1, <1>6, <1>7 DEF IsGood, HasLinks, Ins!PackagesOf, Ins!DirectOf
  <2> QED BY <1>1, <1>2, <1>4, <1>6, <1>8, <2>1, <2>2 DEF CurrentIsThere, Ins!DirectOf
<1>11. RestIsPlanned'
  <2>1. Ins!IsInstalled(inst.target)' <=> Ins!IsInstalled(current)
    BY <1>1, <1>2, <1>6 DEF Ins!IsInstalled, Ins!PackagesOf, Ins!DirectOf
  <2>2. \A p \in Ins!Packages \ Ins!PackagesOf(inst.target)' : inst.prune => disk[p] = "absent"
    BY <1>1, <1>2 DEF InstallInv, RestIsPlanned, Ins!PackagesOf
  <2> QED BY <1>1, <1>2, <1>6, <1>8, <1>9, <2>1, <2>2 DEF RestIsPlanned, Ins!Packages
<1>12. FilesFollow' /\ TimesTell'
  BY <1>1, <1>2, <1>6, FilesStand DEF Installing, Ins!Rest
<1> QED BY <1>3, <1>5, <1>10, <1>11, <1>12 DEF InstallInv

LEMMA BreakKeeps == ASSUME Ins!InstallAssumption, InstallInv, Ins!Break PROVE InstallInv'
<1>1. /\ inst.phase \notin Ins!Rest /\ breaks < MaxBreaks /\ breaks' = breaks + 1
      /\ brokeOff' = IF AtIt THEN inst.target ELSE brokeOff
      /\ damaged' = (damaged \/ (AtIt /\ inst.force))
      /\ stale' = (stale \/ inst.write = {"wanted"})
      /\ inst' = Ins!AtRest("failed")
      /\ UNCHANGED <<workspace, hardlinks, cache, manifest, wanted, current, touched, disk, links, roots, edits>>
  BY DEF Ins!Break, AtIt
<1>2. "failed" \in Ins!Rest
  BY DEF Ins!Rest
<1>3. /\ InstShape' /\ inst' \in InstRecord /\ ~AtIt' /\ ~Installing' /\ inst'.phase = "failed" /\ inst'.write = {}
      /\ inst'.link = {} /\ inst'.import = {} /\ inst'.build = {}
  BY <1>1, <1>2, RestIsShaped, AtRestIs
<1>4. Half' = Half
  BY <1>1, <1>3 DEF Half
<1>5. InstallTypes'
  <2>1. breaks' \in 0..MaxBreaks
    BY <1>1 DEF InstallInv, InstallTypes, Ins!InstallAssumption
  <2>2. brokeOff' \in Ins!Lockfiles \cup {"none"}
    BY <1>1 DEF InstallInv, InstallTypes, InstRecord
  <2>3. stale' \in BOOLEAN /\ damaged' \in BOOLEAN
    BY <1>1
  <2> QED BY <1>1, <1>3, <2>1, <2>2, <2>3 DEF InstallInv, InstallTypes
<1>6. CurrentIsThere'
  <2>1. SUFFICES ASSUME ~damaged' PROVE CurrentIsThere'
    BY DEF CurrentIsThere
  <2>2. ~damaged /\ CurrentIsThere /\ ~(AtIt /\ inst.force)
    BY <1>1, <2>1 DEF InstallInv
  <2>3. /\ Ins!PackagesOf(current)' = Ins!PackagesOf(current) /\ Ins!PackagesOf(Half)' = Ins!PackagesOf(Half)
        /\ Ins!DirectOf(current)' = Ins!DirectOf(current) /\ Ins!DirectOf(Half)' = Ins!DirectOf(Half)
    BY <1>1, <1>4 DEF Ins!PackagesOf, Ins!DirectOf
  <2>4. ASSUME NEW p PROVE (IsGood(p)' <=> IsGood(p)) /\ (HasLinks(p, current)' <=> HasLinks(p, current))
    BY <1>1 DEF IsGood, HasLinks
  <2> QED BY <1>1, <1>3, <1>4, <2>2, <2>3, <2>4 DEF CurrentIsThere
<1>7. RestIsPlanned'
  BY <1>3 DEF RestIsPlanned
<1>8. FilesFollow'
  BY <1>1, <1>3 DEF InstallInv, FilesFollow, Ins!Exists
<1>9. TimesTell'
  BY <1>1, <1>3 DEF InstallInv, TimesTell, Ins!Exists, Ins!Newer, Ins!Satisfied
<1> QED BY <1>3, <1>5, <1>6, <1>7, <1>8, <1>9 DEF InstallInv

LEMMA ResolveAgainKeeps ==
  ASSUME Ins!InstallAssumption, InstallInv, NEW l \in Ins!Lockfiles, Ins!ResolveAgain(l)
  PROVE  InstallInv'
<1>1. /\ inst.phase = "linking" /\ breaks < MaxBreaks /\ breaks' = breaks + 1 /\ InstallSatisfies[l] = inst.read
      /\ inst' = [inst EXCEPT !.phase = "begun", !.target = l, !.how = "full", !.again = TRUE,
                              !.link = {}, !.import = {}, !.build = {}, !.write = {"wanted", "current"}]
      /\ damaged' = (damaged \/ l # inst.target)
      /\ UNCHANGED <<workspace, hardlinks, cache, manifest, wanted, current, touched, disk, links, roots, brokeOff,
                     stale, edits>>
  BY DEF Ins!ResolveAgain
<1>2. /\ inst' \in InstRecord /\ inst'.phase = "begun" /\ inst'.target = l /\ inst'.how = "full" /\ inst'.again = TRUE
      /\ inst'.link = {} /\ inst'.import = {} /\ inst'.build = {} /\ inst'.write = {"wanted", "current"}
      /\ UNCHANGED <<inst.read, inst.force, inst.prune>>
  BY <1>1 DEF InstallInv, InstallTypes, InstRecord, Ins!Rest
<1>3. AtIt /\ AtIt' /\ Half = inst.target /\ Half' = l
  BY <1>1, <1>2 DEF InstallInv, InstShape, AtIt, Half
<1>4. InstShape'
  BY <1>1, <1>2 DEF InstShape
<1>5. InstallTypes'
  <2>1. breaks' \in 0..MaxBreaks
    BY <1>1 DEF InstallInv, InstallTypes, Ins!InstallAssumption
  <2>2. damaged' \in BOOLEAN
    BY <1>1
  <2> QED BY <1>1, <1>2, <2>1, <2>2 DEF InstallInv, InstallTypes
<1>6. CurrentIsThere'
  <2> SUFFICES ASSUME ~damaged, l = inst.target PROVE CurrentIsThere'
    BY <1>1 DEF CurrentIsThere
  <2>1. CurrentIsThere
    BY DEF InstallInv
  <2>2. /\ Ins!PackagesOf(current)' = Ins!PackagesOf(current) /\ Ins!PackagesOf(Half)' = Ins!PackagesOf(Half)
        /\ Ins!DirectOf(current)' = Ins!DirectOf(current) /\ Ins!DirectOf(Half)' = Ins!DirectOf(Half)
    BY <1>1, <1>3 DEF Ins!PackagesOf, Ins!DirectOf
  <2>3. ASSUME NEW p PROVE (IsGood(p)' <=> IsGood(p)) /\ (HasLinks(p, current)' <=> HasLinks(p, current))
    BY <1>1 DEF IsGood, HasLinks
  <2>4. brokeOff \in {"none", inst.target}
    BY <1>1, <2>1 DEF CurrentIsThere, InstallInv
  <2> QED BY <1>1, <1>2, <1>3, <2>1, <2>2, <2>3, <2>4 DEF CurrentIsThere
<1>7. RestIsPlanned'
  BY <1>2 DEF RestIsPlanned
<1>8. inst.write # {"wanted"} /\ Installing
  BY <1>1 DEF InstallInv, InstShape, Installing, Ins!Rest
<1>9. FilesFollow'
  BY <1>1, <1>2, <1>8 DEF InstallInv, FilesFollow, Ins!Exists
<1>10. TimesTell'
  BY <1>1, <1>2, <1>8 DEF InstallInv, TimesTell, Ins!Exists, Ins!Newer, Ins!Satisfied
<1> QED BY <1>4, <1>5, <1>6, <1>7, <1>9, <1>10 DEF InstallInv

\* The user edits while nothing runs, or beside an install.
LEMMA EditStands ==
  ASSUME Ins!InstallAssumption, InstallInv, inst' = Ins!Rested,
         UNCHANGED <<hardlinks, cache, current, disk, links, roots, brokeOff, damaged>>
  PROVE  /\ InstShape' /\ inst' \in InstRecord /\ CurrentIsThere' /\ RestIsPlanned'
         /\ inst'.write = inst.write \/ (inst.write = {} /\ inst'.write = {})
         /\ inst'.phase # "skipped" /\ inst.write \subseteq {"wanted", "current"}
         /\ Installing' <=> Installing
         /\ Installing => inst' = inst
         /\ inst'.phase \in {"building", "ending", "done"} /\ "current" \notin inst'.write => current = inst'.target
<1>1. CASE inst.phase \in Ins!Rest
  <2>1. inst' = Ins!AtRest("idle") /\ "idle" \in Ins!Rest
    BY <1>1 DEF Ins!Rested, Ins!Rest
  <2>2. /\ InstShape' /\ inst' \in InstRecord /\ ~AtIt' /\ ~Installing' /\ inst'.phase = "idle" /\ inst'.write = {}
    BY <2>1, RestIsShaped, AtRestIs
  <2>3. inst.write = {} /\ ~AtIt /\ ~Installing
    BY <1>1, RestingIs
  <2>4. CurrentIsThere' /\ RestIsPlanned'
    BY <2>2, <2>3, TreeStands
  <2> QED BY <2>2, <2>3, <2>4
<1>2. CASE inst.phase \notin Ins!Rest
  <2>1. inst' = inst
    BY <1>2 DEF Ins!Rested
  <2>2. InstShape' /\ inst' \in InstRecord
    BY <2>1 DEF InstallInv, InstallTypes, InstShape, Ins!PackagesOf
  <2>3. CurrentIsThere'
    BY <2>1 DEF InstallInv, CurrentIsThere, AtIt, Half, IsGood, HasLinks, Ins!PackagesOf, Ins!DirectOf, Ins!None
  <2>4. RestIsPlanned'
    BY <2>1 DEF InstallInv, RestIsPlanned, IsGood, HasLinks, Ins!PackagesOf, Ins!DirectOf, Ins!None, Ins!IsInstalled
  <2>5. inst'.phase \in {"building", "ending", "done"} /\ "current" \notin inst'.write => current = inst'.target
    BY <2>1 DEF InstallInv, FilesFollow
  <2>6. inst.phase # "skipped" /\ inst.write \subseteq {"wanted", "current"}
    BY <1>2 DEF Ins!Rest, InstallInv, InstallTypes, InstRecord
  <2> QED BY <2>1, <2>2, <2>3, <2>4, <2>5, <2>6 DEF Installing
<1> QED BY <1>1, <1>2

LEMMA EditManifestKeeps ==
  ASSUME Ins!InstallAssumption, InstallInv, NEW m \in Ins!Manifests, Ins!EditManifest(m)
  PROVE  InstallInv'
<1>1. /\ edits < MaxEdits /\ edits' = edits + 1 /\ manifest' = m /\ touched' = Ins!Touch("manifest")
      /\ inst' = Ins!Rested /\ stale' = (stale \/ Installing)
      /\ UNCHANGED <<workspace, hardlinks, cache, wanted, current, disk, links, roots, brokeOff, damaged, breaks>>
  BY DEF Ins!EditManifest, Installing
<1>2. /\ InstShape' /\ inst' \in InstRecord /\ CurrentIsThere' /\ RestIsPlanned'
      /\ inst'.write = inst.write \/ (inst.write = {} /\ inst'.write = {})
      /\ inst'.phase # "skipped"
      /\ Installing' <=> Installing
      /\ inst'.phase \in {"building", "ending", "done"} /\ "current" \notin inst'.write => current = inst'.target
  BY <1>1, EditStands
<1>3. InstallTypes /\ "manifest" \in Ins!Files
  BY DEF InstallInv, Ins!Files
<1>4. /\ DOMAIN touched' = DOMAIN touched \cup {"manifest"}
      /\ DOMAIN touched' \subseteq Ins!Files /\ \A g \in DOMAIN touched' : touched'[g] \subseteq DOMAIN touched'
      /\ \A g : Ins!Exists(g)' <=> g = "manifest" \/ Ins!Exists(g)
      /\ \A g, h : g # "manifest" /\ h # "manifest" => (Ins!Newer(g, h)' <=> Ins!Newer(g, h))
      /\ \A g : g # "manifest" /\ Ins!Exists(g) => Ins!Newer("manifest", g)'
  BY <1>1, <1>3, TouchIs
<1>5. InstallTypes'
  <2>1. edits' \in 0..MaxEdits
    BY <1>1 DEF InstallInv, InstallTypes, Ins!InstallAssumption
  <2>2. stale' \in BOOLEAN
    BY <1>1
  <2> QED BY <1>1, <1>2, <1>4, <2>1, <2>2 DEF InstallInv, InstallTypes
<1>6. FilesFollow'
  BY <1>1, <1>2, <1>4 DEF InstallInv, FilesFollow
<1>7. TimesTell'
  <2>1. Ins!Exists("wanted")
    BY DEF InstallInv, FilesFollow, Ins!Exists
  <2> QED BY <1>1, <1>2, <1>4, <2>1 DEF InstallInv, TimesTell
<1> QED BY <1>2, <1>5, <1>6, <1>7 DEF InstallInv

LEMMA CheckoutKeeps ==
  ASSUME Ins!InstallAssumption, InstallInv, NEW l \in Ins!Lockfiles, Ins!Checkout(l)
  PROVE  InstallInv'
<1>1. /\ edits < MaxEdits /\ edits' = edits + 1 /\ manifest' = InstallSatisfies[l] /\ wanted' = l
      /\ touched' = [f \in DOMAIN touched \cup {"wanted", "manifest"} |->
                       IF f = "manifest" THEN (DOMAIN touched \cup {"wanted"}) \ {"manifest"}
                       ELSE IF f = "wanted" THEN DOMAIN touched \ {"wanted", "manifest"}
                       ELSE touched[f] \ {"wanted", "manifest"}]
      /\ inst' = Ins!Rested /\ stale' = (stale \/ Installing)
      /\ UNCHANGED <<workspace, hardlinks, cache, current, disk, links, roots, brokeOff, damaged, breaks>>
  BY DEF Ins!Checkout, Installing
<1>2. /\ InstShape' /\ inst' \in InstRecord /\ CurrentIsThere' /\ RestIsPlanned'
      /\ inst'.phase # "skipped"
      /\ Installing' <=> Installing
      /\ inst'.phase \in {"building", "ending", "done"} /\ "current" \notin inst'.write => current = inst'.target
  BY <1>1, EditStands
<1>3. /\ DOMAIN touched \subseteq Ins!Files /\ {"manifest", "wanted"} \subseteq DOMAIN touched
      /\ \A g \in DOMAIN touched : touched[g] \subseteq DOMAIN touched
  BY DEF InstallInv, InstallTypes, FilesFollow
<1>4. /\ DOMAIN touched' = DOMAIN touched
      /\ touched'["manifest"] = DOMAIN touched \ {"manifest"}
      /\ touched'["wanted"] = DOMAIN touched \ {"wanted", "manifest"}
      /\ \A g \in DOMAIN touched \ {"manifest", "wanted"} : touched'[g] = touched[g] \ {"wanted", "manifest"}
  BY <1>1, <1>3
<1>5. \A g \in DOMAIN touched' : touched'[g] \subseteq DOMAIN touched'
  BY <1>3, <1>4
<1>6. InstallTypes'
  <2>1. edits' \in 0..MaxEdits
    BY <1>1 DEF InstallInv, InstallTypes, Ins!InstallAssumption
  <2>2. stale' \in BOOLEAN
    BY <1>1
  <2>3. manifest' \in Ins!Manifests
    BY <1>1, LockfilesAre
  <2> QED BY <1>1, <1>2, <1>3, <1>4, <1>5, <2>1, <2>2, <2>3 DEF InstallInv, InstallTypes
<1>7. FilesFollow'
  BY <1>1, <1>2, <1>4 DEF InstallInv, FilesFollow, Ins!Exists
<1>8. Ins!Satisfied(wanted)'
  BY <1>1, LockfilesAre DEF Ins!Satisfied, Ins!None
<1>9. /\ Ins!Exists("current")' => Ins!Newer("wanted", "current")'
      /\ Ins!Exists("state")' => Ins!Newer("wanted", "state")' /\ Ins!Newer("manifest", "state")'
  BY <1>3, <1>4 DEF Ins!Exists, Ins!Newer
<1>10. TimesTell'
  BY <1>2, <1>8, <1>9 DEF TimesTell
<1> QED BY <1>2, <1>6, <1>7, <1>10 DEF InstallInv

LEMMA CheckoutLockfileKeeps ==
  ASSUME Ins!InstallAssumption, InstallInv, NEW l \in Ins!Lockfiles, Ins!CheckoutLockfile(l)
  PROVE  InstallInv'
<1>1. /\ edits < MaxEdits /\ edits' = edits + 1 /\ InstallSatisfies[l] = manifest /\ wanted' = l
      /\ touched' = Ins!Touch("wanted")
      /\ inst' = Ins!Rested /\ stale' = (stale \/ workspace \/ Installing)
      /\ UNCHANGED <<workspace, hardlinks, cache, manifest, current, disk, links, roots, brokeOff, damaged, breaks>>
  BY DEF Ins!CheckoutLockfile, Installing
<1>2. /\ InstShape' /\ inst' \in InstRecord /\ CurrentIsThere' /\ RestIsPlanned'
      /\ inst'.phase # "skipped"
      /\ Installing' <=> Installing
      /\ inst'.phase \in {"building", "ending", "done"} /\ "current" \notin inst'.write => current = inst'.target
  BY <1>1, EditStands
<1>3. InstallTypes /\ "wanted" \in Ins!Files
  BY DEF InstallInv, Ins!Files
<1>4. /\ DOMAIN touched' = DOMAIN touched \cup {"wanted"}
      /\ DOMAIN touched' \subseteq Ins!Files /\ \A g \in DOMAIN touched' : touched'[g] \subseteq DOMAIN touched'
      /\ \A g : Ins!Exists(g)' <=> g = "wanted" \/ Ins!Exists(g)
      /\ \A g : g # "wanted" /\ Ins!Exists(g) => Ins!Newer("wanted", g)'
  BY <1>1, <1>3, TouchIs
<1>5. InstallTypes'
  <2>1. edits' \in 0..MaxEdits
    BY <1>1 DEF InstallInv, InstallTypes, Ins!InstallAssumption
  <2>2. stale' \in BOOLEAN
    BY <1>1
  <2> QED BY <1>1, <1>2, <1>4, <2>1, <2>2 DEF InstallInv, InstallTypes
<1>6. FilesFollow'
  BY <1>1, <1>2, <1>4 DEF InstallInv, FilesFollow
<1>7. Ins!Satisfied(wanted)'
  BY <1>1, LockfilesAre DEF Ins!Satisfied, Ins!None
<1>8. stale' \/ ~workspace'
  BY <1>1
<1>9. Ins!Exists("current")' => Ins!Newer("wanted", "current")'
  BY <1>4
<1>10. TimesTell'
  BY <1>2, <1>7, <1>8, <1>9 DEF TimesTell
<1> QED BY <1>2, <1>5, <1>6, <1>10 DEF InstallInv

LEMMA RemoveModulesKeeps == ASSUME Ins!InstallAssumption, InstallInv, Ins!RemoveModules PROVE InstallInv'
<1>1. /\ inst.phase \in Ins!Rest /\ edits < MaxEdits /\ edits' = edits + 1
      /\ current' = "none" /\ touched' = Ins!Without({"current", "state"})
      /\ disk' = [p \in Ins!Packages |-> "absent"]
      /\ links' = [p \in Ins!Packages |-> <<>>] /\ roots' = <<>>
      /\ inst' = Ins!AtRest("idle") /\ brokeOff' = "none" /\ damaged' = FALSE
      /\ UNCHANGED <<workspace, hardlinks, cache, manifest, wanted, stale, breaks>>
  BY DEF Ins!RemoveModules, Ins!None
<1>2. inst.write = {} /\ ~AtIt /\ ~Installing
  BY <1>1, RestingIs
<1>3. "idle" \in Ins!Rest
  BY DEF Ins!Rest
<1>4. /\ InstShape' /\ inst' \in InstRecord /\ ~AtIt' /\ ~Installing' /\ inst'.phase = "idle" /\ inst'.write = {}
  BY <1>1, <1>3, RestIsShaped, AtRestIs
<1>5. DOMAIN <<>> = {}
  OBVIOUS
<1>6. /\ DOMAIN touched' = DOMAIN touched \ {"current", "state"}
      /\ \A f \in DOMAIN touched' : touched'[f] = touched[f] \ {"current", "state"}
  BY <1>1 DEF Ins!Without
<1>7. InstallTypes'
  <2>1. edits' \in 0..MaxEdits
    BY <1>1 DEF InstallInv, InstallTypes, Ins!InstallAssumption
  <2>2. DOMAIN touched' \subseteq Ins!Files /\ \A f \in DOMAIN touched' : touched'[f] \subseteq DOMAIN touched'
    BY <1>6 DEF InstallInv, InstallTypes
  <2>3. /\ disk' \in [Ins!Packages -> {"absent", "fresh", "built"}]
        /\ DOMAIN links' = Ins!Packages
        /\ \A p \in Ins!Packages : DOMAIN links'[p] = {}
        /\ DOMAIN roots' = {}
    BY <1>1, <1>5
  <2> QED BY <1>1, <1>4, <2>1, <2>2, <2>3 DEF InstallInv, InstallTypes
<1>8. CurrentIsThere'
  <2>1. /\ Ins!PackagesOf(current)' = {} /\ DOMAIN Ins!DirectOf(current)' = {} /\ DOMAIN roots' = {}
    BY <1>1, <1>5 DEF Ins!PackagesOf, Ins!DirectOf, Ins!None
  <2>2. cache \subseteq Ins!Packages
    BY LockfilesAre DEF InstallInv, InstallTypes
  <2>3. \A p \in cache' : disk'[p] = "absent"
    BY <1>1, <2>2
  <2> QED BY <1>4, <2>1, <2>3 DEF CurrentIsThere
<1>9. RestIsPlanned'
  BY <1>4 DEF RestIsPlanned
<1>10. FilesFollow'
  BY <1>1, <1>4, <1>6 DEF InstallInv, FilesFollow, Ins!Exists
<1>11. TimesTell'
  BY <1>1, <1>2, <1>4, <1>6 DEF InstallInv, FilesFollow, TimesTell, Ins!Exists, Ins!Newer, Ins!Satisfied
<1> QED BY <1>4, <1>7, <1>8, <1>9, <1>10, <1>11 DEF InstallInv

LEMMA BuiltElsewhereKeeps ==
  ASSUME Ins!InstallAssumption, InstallInv, NEW p \in NeedBuild, Ins!BuiltElsewhere(p)
  PROVE  InstallInv'
<1>1. /\ edits < MaxEdits /\ edits' = edits + 1 /\ cache' = cache \cup {p}
      /\ damaged' = (damaged \/ (~hardlinks /\ disk[p] = "fresh"))
      /\ UNCHANGED <<workspace, hardlinks, manifest, wanted, current, touched, disk, links, roots, inst,
                     brokeOff, stale, breaks>>
  BY DEF Ins!BuiltElsewhere
<1>2. InstallTypes'
  <2>1. edits' \in 0..MaxEdits
    BY <1>1 DEF InstallInv, InstallTypes, Ins!InstallAssumption
  <2>2. damaged' \in BOOLEAN
    BY <1>1
  <2> QED BY <1>1, <2>1, <2>2 DEF InstallInv, InstallTypes
<1>3. InstShape'
  BY <1>1 DEF InstallInv, InstShape, Ins!PackagesOf
<1>4. CurrentIsThere'
  <2> SUFFICES ASSUME ~damaged, ~(~hardlinks /\ disk[p] = "fresh") PROVE CurrentIsThere'
    BY <1>1 DEF CurrentIsThere
  <2> QED BY <1>1 DEF InstallInv, CurrentIsThere, AtIt, Half, IsGood, HasLinks, Ins!PackagesOf, Ins!DirectOf, Ins!None
<1>5. RestIsPlanned'
  <2>1. ~damaged' => ~damaged
    BY <1>1
  <2>2. UNCHANGED <<inst, disk, links, roots>>
    BY <1>1
  <2> QED BY <2>1, <2>2
       DEF InstallInv, RestIsPlanned, IsGood, HasLinks, Ins!PackagesOf, Ins!DirectOf, Ins!None, Ins!IsInstalled
<1>6. FilesFollow' /\ TimesTell'
  BY <1>1, FilesStand DEF InstallInv, FilesFollow, Installing
<1> QED BY <1>2, <1>3, <1>4, <1>5, <1>6 DEF InstallInv

LEMMA WriteLockfileKeeps ==
  ASSUME Ins!InstallAssumption, InstallInv, NEW f \in {"wanted", "current"}, Ins!WriteLockfile(f)
  PROVE  InstallInv'
<1>1. /\ inst.phase = "building" /\ inst.build = {} /\ f \in inst.write
      /\ wanted' = (IF f = "wanted" THEN inst.target ELSE wanted)
      /\ current' = (IF f = "current" THEN inst.target ELSE current)
      /\ touched' = Ins!Touch(f) /\ inst' = [inst EXCEPT !.write = @ \ {f}]
      /\ UNCHANGED <<workspace, hardlinks, cache, manifest, disk, links, roots, brokeOff, damaged, stale, edits,
                     breaks>>
  BY DEF Ins!WriteLockfile, Ins!Linked
<1>2. /\ inst' \in InstRecord /\ inst'.write = inst.write \ {f}
      /\ UNCHANGED <<inst.phase, inst.read, inst.target, inst.how, inst.again, inst.force, inst.prune, inst.link,
                     inst.import, inst.build>>
  BY <1>1 DEF InstallInv, InstallTypes, InstRecord
<1>3. InstallTypes /\ f \in Ins!Files
  BY DEF InstallInv, Ins!Files
<1>4. /\ DOMAIN touched' = DOMAIN touched \cup {f}
      /\ DOMAIN touched' \subseteq Ins!Files /\ \A g \in DOMAIN touched' : touched'[g] \subseteq DOMAIN touched'
      /\ \A g : Ins!Exists(g)' <=> g = f \/ Ins!Exists(g)
      /\ \A g, h : g # f /\ h # f => (Ins!Newer(g, h)' <=> Ins!Newer(g, h))
      /\ \A g : g # f /\ Ins!Exists(g) => Ins!Newer(f, g)'
  BY <1>1, <1>3, TouchIs
<1>5. /\ inst.target \in Ins!Lockfiles /\ InstallSatisfies[inst.target] = inst.read /\ inst.target # "none"
      /\ inst.link = {} /\ inst.import = {} /\ Ins!DirectOf(inst.target) = InstallDirect[inst.target]
  BY <1>1, LockfilesAre DEF InstallInv, InstShape
<1>6. InstallTypes'
  BY <1>1, <1>2, <1>4, <1>5 DEF InstallInv, InstallTypes
<1>7. InstShape'
  BY <1>1, <1>2 DEF InstallInv, InstShape, Ins!PackagesOf
<1>8. CurrentIsThere'
  <2> SUFFICES ASSUME ~damaged PROVE CurrentIsThere'
    BY <1>1 DEF CurrentIsThere
  <2>1. CASE f = "wanted"
    <3>1. (AtIt' <=> AtIt) /\ Half' = Half
      BY <1>1, <1>2, <2>1 DEF AtIt, Half
    <3> QED BY <1>1, <1>2, <2>1, <3>1
         DEF InstallInv, CurrentIsThere, IsGood, HasLinks, Ins!PackagesOf, Ins!DirectOf, Ins!None
  <2>2. CASE f = "current"
    <3>1. ~AtIt' /\ Half' = brokeOff /\ current' = inst.target
      BY <1>1, <1>2, <2>2 DEF AtIt, Half
    <3>2. \A p \in Ins!PackagesOf(inst.target) : IsGood(p) /\ HasLinks(p, inst.target)
      BY <1>1, <1>5 DEF InstallInv, RestIsPlanned
    <3>3. /\ \A a \in DOMAIN InstallDirect[inst.target] : a \in DOMAIN roots /\ roots[a] = InstallDirect[inst.target][a]
          /\ DOMAIN roots \subseteq DOMAIN InstallDirect[inst.target]
      BY <1>1, <1>5 DEF InstallInv, RestIsPlanned
    <3>4. brokeOff \in {"none", inst.target} /\ (~hardlinks => \A p \in cache : disk[p] # "fresh")
      BY <1>1 DEF InstallInv, CurrentIsThere
    <3>5. /\ \A p \in Ins!PackagesOf(current)' : IsGood(p)' /\ HasLinks(p, current)'
          /\ Ins!DirectOf(current)' = InstallDirect[inst.target]
      BY <1>1, <1>5, <3>1, <3>2 DEF IsGood, HasLinks, Ins!PackagesOf, Ins!DirectOf
    <3> QED BY <1>1, <1>2, <3>1, <3>3, <3>4, <3>5 DEF CurrentIsThere
  <2> QED BY <2>1, <2>2
<1>9. RestIsPlanned'
  BY <1>1, <1>2 DEF InstallInv, RestIsPlanned, IsGood, HasLinks, Ins!PackagesOf
<1>10. FilesFollow'
  <2>1. CASE f = "wanted"
    BY <1>1, <1>2, <1>4, <1>5, <2>1 DEF InstallInv, FilesFollow, Installing
  <2>2. CASE f = "current"
    BY <1>1, <1>2, <1>4, <1>5, <2>2 DEF InstallInv, FilesFollow, Installing
  <2> QED BY <2>1, <2>2
<1>11. TimesTell'
  <2> SUFFICES ASSUME ~stale PROVE TimesTell'
    BY <1>1 DEF TimesTell
  <2>1. manifest = inst.read /\ ("wanted" \notin inst.write => wanted = inst.target) /\ Installing /\ Installing'
    BY <1>1, <1>2 DEF InstallInv, FilesFollow, Installing, Ins!Rest
  <2>2. inst.write \subseteq {"wanted", "current"}
    BY DEF InstallInv, InstallTypes, InstRecord
  <2>3. CASE f = "wanted"
    <3>1. Ins!Satisfied(wanted)'
      BY <1>1, <1>5, <2>1, <2>3 DEF Ins!Satisfied, Ins!None
    <3>2. /\ Ins!Exists("current")' => Ins!Newer("wanted", "current")'
          /\ Ins!Exists("state")' => Ins!Newer("wanted", "state")'
      BY <1>4, <2>3
    <3>3. workspace /\ Ins!Exists("state")' /\ ~Ins!Newer("manifest", "state")' /\ ~damaged =>
            current = wanted /\ inst.target = wanted
      BY <1>4, <2>1, <2>3 DEF InstallInv, TimesTell
    <3> QED BY <1>1, <1>2, <2>3, <3>1, <3>2, <3>3 DEF TimesTell
  <2>4. CASE f = "current"
    <3>1. inst'.write # {"wanted"} => wanted = inst.target
      BY <1>1, <1>2, <2>1, <2>2, <2>4
    <3>2. /\ Ins!Newer("manifest", "wanted")' <=> Ins!Newer("manifest", "wanted")
          /\ Ins!Newer("manifest", "state")' <=> Ins!Newer("manifest", "state")
          /\ Ins!Exists("state")' <=> Ins!Exists("state")
      BY <1>4, <2>4
    <3>3. wanted # "none" /\ ~Ins!Newer("manifest", "wanted") => Ins!Satisfied(wanted)
      BY DEF InstallInv, TimesTell
    <3>4. workspace /\ Ins!Exists("state") /\ ~Ins!Newer("manifest", "state") /\ ~damaged =>
            Ins!Satisfied(wanted) /\ inst.target = wanted
      BY <2>1 DEF InstallInv, TimesTell
    <3>5. wanted' = wanted /\ current' = inst.target /\ Ins!Satisfied(wanted)' = Ins!Satisfied(wanted)
      BY <1>1, <2>4 DEF Ins!Satisfied
    <3> QED BY <1>1, <1>2, <2>1, <3>1, <3>2, <3>3, <3>4, <3>5 DEF TimesTell
  <2> QED BY <2>3, <2>4
<1> QED BY <1>6, <1>7, <1>8, <1>9, <1>10, <1>11 DEF InstallInv

LEMMA BuildKeeps ==
  ASSUME Ins!InstallAssumption, InstallInv, NEW p \in Ins!Packages, NEW u \in BOOLEAN, Ins!Build(p, u)
  PROVE  InstallInv'
<1>1. /\ inst.phase = "building" /\ p \in inst.build /\ disk' = [disk EXCEPT ![p] = "built"]
      /\ cache' = (IF u THEN cache \cup {p} ELSE cache) /\ inst' = [inst EXCEPT !.build = @ \ {p}]
      /\ UNCHANGED <<workspace, hardlinks, manifest, wanted, current, touched, links, roots, brokeOff, damaged,
                     stale, edits, breaks>>
  BY DEF Ins!Build
<1>2. /\ inst' \in InstRecord /\ inst'.build = inst.build \ {p}
      /\ UNCHANGED <<inst.phase, inst.read, inst.target, inst.how, inst.again, inst.force, inst.prune, inst.link,
                     inst.import, inst.write>>
  BY <1>1 DEF InstallInv, InstallTypes, InstRecord
<1>3. /\ disk' \in [Ins!Packages -> {"absent", "fresh", "built"}] /\ disk'[p] = "built"
      /\ \A q \in Ins!Packages \ {p} : disk'[q] = disk[q]
  BY <1>1 DEF InstallInv, InstallTypes
<1>4. p \in NeedBuild /\ p \in Ins!PackagesOf(inst.target) /\ cache \subseteq Ins!Packages
  BY <1>1, LockfilesAre DEF InstallInv, InstShape, InstallTypes
<1>5. InstallTypes'
  BY <1>1, <1>2, <1>3, <1>4 DEF InstallInv, InstallTypes
<1>6. InstShape'
  BY <1>1, <1>2 DEF InstallInv, InstShape, Ins!PackagesOf
<1>7. \A q \in Ins!Packages : IsGood(q) \/ q = p => IsGood(q)'
  BY <1>3 DEF IsGood
<1>8. /\ Ins!PackagesOf(current) \subseteq Ins!Packages /\ Ins!PackagesOf(inst.target) \subseteq Ins!Packages
  BY LockfilesAre DEF InstallInv, InstallTypes, InstRecord
<1>9. (AtIt' <=> AtIt) /\ Half' = Half
  BY <1>1, <1>2 DEF AtIt, Half
<1>10. CurrentIsThere'
  <2> SUFFICES ASSUME ~damaged PROVE CurrentIsThere'
    BY <1>1 DEF CurrentIsThere
  <2>1. ~hardlinks => \A q \in cache' : disk'[q] # "fresh"
    BY <1>1, <1>3, <1>4 DEF InstallInv, CurrentIsThere
  <2>2. \A q \in Ins!PackagesOf(current) : Half = "none" \/ q \in Ins!PackagesOf(Half) =>
          /\ IsGood(q)' \/ (AtIt /\ inst.force)
          /\ Half = "none" \/ InstallChildren[Half][q] = InstallChildren[current][q] => HasLinks(q, current)
    BY <1>7, <1>8 DEF InstallInv, CurrentIsThere
  <2> QED BY <1>1, <1>2, <1>9, <2>1, <2>2
       DEF InstallInv, CurrentIsThere, HasLinks, Ins!PackagesOf, Ins!DirectOf, Ins!None
<1>11. RestIsPlanned'
  <2>1. inst.force \/ ~damaged =>
          \A q \in Ins!PackagesOf(inst.target) :
            /\ q \in inst.link \/ HasLinks(q, inst.target)
            /\ q \in inst.import \/ IsGood(q)' \/ (q \in inst'.build /\ disk'[q] # "absent")
    BY <1>1, <1>2, <1>3, <1>7, <1>8 DEF InstallInv, RestIsPlanned
  <2>2. inst.prune => \A q \in Ins!Packages \ Ins!PackagesOf(inst.target) : disk'[q] = "absent"
    BY <1>1, <1>3, <1>4 DEF InstallInv, RestIsPlanned
  <2>3. Ins!PackagesOf(inst'.target) = Ins!PackagesOf(inst.target) /\ Ins!PackagesOf(inst.target)' = Ins!PackagesOf(inst.target)
    BY <1>2 DEF Ins!PackagesOf
  <2>4. \A q \in Ins!PackagesOf(inst.target) : HasLinks(q, inst.target) => HasLinks(q, inst.target)'
    BY <1>1, <1>2 DEF HasLinks
  <2> QED BY <1>1, <1>2, <2>1, <2>2, <2>3, <2>4 DEF InstallInv, RestIsPlanned, Ins!Packages, Ins!Lockfiles
<1>12. FilesFollow' /\ TimesTell'
  BY <1>1, <1>2, FilesStand DEF InstallInv, FilesFollow, Installing
<1> QED BY <1>5, <1>6, <1>10, <1>11, <1>12 DEF InstallInv

LEMMA ImportPackageKeeps ==
  ASSUME Ins!InstallAssumption, InstallInv, NEW p \in Ins!Packages, Ins!ImportPackage(p)
  PROVE  InstallInv'
<1> DEFINE unpacked == IF inst.force \/ disk[p] = "absent" \/ (hardlinks /\ p \in cache)
                       THEN IF p \in cache THEN "built" ELSE "fresh" ELSE disk[p]
<1>1. /\ inst.phase = "linking" /\ p \in inst.import /\ disk' = [disk EXCEPT ![p] = unpacked]
      /\ inst' = [inst EXCEPT !.import = @ \ {p},
                              !.build = IF p \in NeedBuild \ cache THEN @ \cup {p} ELSE @]
      /\ UNCHANGED <<workspace, hardlinks, cache, manifest, wanted, current, touched, links, roots, brokeOff,
                     damaged, stale, edits, breaks>>
  BY DEF Ins!ImportPackage
<1>2. /\ inst' \in InstRecord /\ inst'.import = inst.import \ {p}
      /\ inst'.build = IF p \in NeedBuild \ cache THEN inst.build \cup {p} ELSE inst.build
      /\ UNCHANGED <<inst.phase, inst.read, inst.target, inst.how, inst.again, inst.force, inst.prune, inst.link,
                     inst.write>>
  BY <1>1 DEF InstallInv, InstallTypes, InstRecord
<1>3. unpacked \in {"fresh", "built"} /\ disk[p] \in {"absent", "fresh", "built"}
  BY DEF InstallInv, InstallTypes
<1>4. /\ disk' \in [Ins!Packages -> {"absent", "fresh", "built"}] /\ disk'[p] = unpacked
      /\ \A q \in Ins!Packages \ {p} : disk'[q] = disk[q]
  BY <1>1, <1>3 DEF InstallInv, InstallTypes
<1>5. p \in Ins!PackagesOf(inst.target) /\ cache \subseteq NeedBuild /\ cache \subseteq Ins!Packages
  BY <1>1, LockfilesAre DEF InstallInv, InstShape, InstallTypes
<1>6. InstallTypes'
  BY <1>1, <1>2, <1>4 DEF InstallInv, InstallTypes
<1>7. InstShape'
  BY <1>1, <1>2, <1>5 DEF InstallInv, InstShape, Ins!PackagesOf
<1>8. /\ Ins!PackagesOf(current) \subseteq Ins!Packages /\ Ins!PackagesOf(inst.target) \subseteq Ins!Packages
  BY LockfilesAre DEF InstallInv, InstallTypes, InstRecord
<1>9. "current" \in inst.write /\ AtIt /\ AtIt' /\ Half = inst.target /\ Half' = Half
  BY <1>1, <1>2 DEF InstallInv, InstShape, AtIt, Half
<1>10. ~inst.force /\ IsGood(p) => unpacked = "built" \/ unpacked = disk[p]
  BY DEF IsGood
<1>11. \A q \in Ins!Packages : ~inst.force /\ IsGood(q) => IsGood(q)'
  BY <1>4, <1>10 DEF IsGood
<1>12. \A q \in Ins!Packages \ {p} : IsGood(q) => IsGood(q)'
  BY <1>4 DEF IsGood
<1>13. ~damaged => (~hardlinks => \A q \in cache : disk[q] # "fresh")
  BY DEF InstallInv, CurrentIsThere
<1>14. inst.force \/ ~damaged => IsGood(p)' \/ p \in NeedBuild \ cache
  <2>1. CASE p \in cache
    <3>1. inst.force \/ ~damaged => unpacked = "built"
      BY <1>3, <1>13, <2>1
    <3> QED BY <1>4, <3>1 DEF IsGood
  <2>2. CASE p \notin NeedBuild
    BY <1>3, <1>4, <2>2 DEF IsGood
  <2> QED BY <2>1, <2>2
<1>15. ~damaged => (~hardlinks => \A q \in cache : disk'[q] # "fresh")
  BY <1>3, <1>4, <1>5, <1>13
<1> HIDE DEF unpacked
<1>16. CurrentIsThere'
  <2> SUFFICES ASSUME ~damaged PROVE CurrentIsThere'
    BY <1>1 DEF CurrentIsThere
  <2>1. \A q \in Ins!PackagesOf(current) : Half = "none" \/ q \in Ins!PackagesOf(Half) =>
          /\ IsGood(q)' \/ (AtIt /\ inst.force)
          /\ Half = "none" \/ InstallChildren[Half][q] = InstallChildren[current][q] => HasLinks(q, current)
    BY <1>8, <1>9, <1>11 DEF InstallInv, CurrentIsThere
  <2> QED BY <1>1, <1>2, <1>9, <1>15, <2>1
       DEF InstallInv, CurrentIsThere, HasLinks, Ins!PackagesOf, Ins!DirectOf, Ins!None
<1>17. RestIsPlanned'
  <2>1. inst.force \/ ~damaged =>
          \A q \in Ins!PackagesOf(inst.target) :
            /\ q \in inst.link \/ HasLinks(q, inst.target)
            /\ q \in inst'.import \/ IsGood(q)' \/ (q \in inst'.build /\ disk'[q] # "absent")
    <3> SUFFICES ASSUME inst.force \/ ~damaged, NEW q \in Ins!PackagesOf(inst.target)
                 PROVE  /\ q \in inst.link \/ HasLinks(q, inst.target)
                        /\ q \in inst'.import \/ IsGood(q)' \/ (q \in inst'.build /\ disk'[q] # "absent")
      OBVIOUS
    <3>1. /\ q \in inst.link \/ HasLinks(q, inst.target)
          /\ q \in inst.import \/ IsGood(q) \/ (q \in inst.build /\ disk[q] # "absent")
      BY <1>1 DEF InstallInv, RestIsPlanned
    <3>2. CASE q = p
      BY <1>2, <1>3, <1>4, <1>14, <3>1, <3>2
    <3>3. CASE q # p
      BY <1>2, <1>4, <1>8, <1>12, <3>1, <3>3
    <3> QED BY <3>2, <3>3
  <2>2. inst.prune => \A q \in Ins!Packages \ Ins!PackagesOf(inst.target) : disk'[q] = "absent"
    BY <1>1, <1>4, <1>5 DEF InstallInv, RestIsPlanned
  <2>3. Ins!PackagesOf(inst'.target) = Ins!PackagesOf(inst.target) /\ Ins!PackagesOf(inst.target)' = Ins!PackagesOf(inst.target)
    BY <1>2 DEF Ins!PackagesOf
  <2>4. \A q \in Ins!PackagesOf(inst.target) : HasLinks(q, inst.target) => HasLinks(q, inst.target)'
    BY <1>1, <1>2 DEF HasLinks
  <2> QED BY <1>1, <1>2, <2>1, <2>2, <2>3, <2>4 DEF InstallInv, RestIsPlanned, Ins!Packages, Ins!Lockfiles
<1>18. FilesFollow' /\ TimesTell'
  BY <1>1, <1>2, FilesStand DEF Installing
<1> QED BY <1>6, <1>7, <1>16, <1>17, <1>18 DEF InstallInv

LEMMA OverIs ==
  ASSUME NEW new, NEW old
  PROVE  /\ DOMAIN Ins!Over(new, old) = DOMAIN new \cup DOMAIN old
         /\ \A a \in DOMAIN new : Ins!Over(new, old)[a] = new[a]
         /\ \A a \in DOMAIN old \ DOMAIN new : Ins!Over(new, old)[a] = old[a]
  BY DEF Ins!Over

LEMMA LinkModulesKeeps ==
  ASSUME Ins!InstallAssumption, InstallInv, NEW p \in Ins!Packages, Ins!LinkModules(p)
  PROVE  InstallInv'
<1> DEFINE new == Ins!Over(InstallChildren[inst.target][p], links[p])
<1>1. /\ inst.phase = "linking" /\ p \in inst.link /\ links' = [links EXCEPT ![p] = new]
      /\ inst' = [inst EXCEPT !.link = @ \ {p}]
      /\ UNCHANGED <<workspace, hardlinks, cache, manifest, wanted, current, touched, disk, roots, brokeOff, damaged,
                     stale, edits, breaks>>
  BY DEF Ins!LinkModules
<1>2. /\ inst' \in InstRecord /\ inst'.link = inst.link \ {p}
      /\ UNCHANGED <<inst.phase, inst.read, inst.target, inst.how, inst.again, inst.force, inst.prune, inst.import,
                     inst.build, inst.write>>
  BY <1>1 DEF InstallInv, InstallTypes, InstRecord
<1>3. /\ p \in Ins!PackagesOf(inst.target) /\ inst.target \in Ins!Lockfiles
      /\ \A a \in DOMAIN InstallChildren[inst.target][p] : InstallChildren[inst.target][p][a] \in Ins!Packages
      /\ Ins!PackagesOf(current) \subseteq Ins!Packages /\ Ins!PackagesOf(inst.target) \subseteq Ins!Packages
  BY <1>1, LockfilesAre DEF InstallInv, InstShape, InstallTypes
<1>4. /\ DOMAIN new = DOMAIN InstallChildren[inst.target][p] \cup DOMAIN links[p]
      /\ \A a \in DOMAIN InstallChildren[inst.target][p] : new[a] = InstallChildren[inst.target][p][a]
      /\ \A a \in DOMAIN links[p] \ DOMAIN InstallChildren[inst.target][p] : new[a] = links[p][a]
  BY OverIs
<1> HIDE DEF new
<1>5. DOMAIN links' = Ins!Packages /\ links'[p] = new /\ \A q \in Ins!Packages \ {p} : links'[q] = links[q]
  BY <1>1 DEF InstallInv, InstallTypes
<1>6. InstallTypes'
  <2>1. \A q \in Ins!Packages : \A a \in DOMAIN links[q] : links[q][a] \in Ins!Packages
    BY DEF InstallInv, InstallTypes
  <2>2. \A a \in DOMAIN new : new[a] \in Ins!Packages
    BY <1>3, <1>4, <2>1
  <2>3. \A q \in Ins!Packages : \A a \in DOMAIN links'[q] : links'[q][a] \in Ins!Packages
    BY <1>5, <2>1, <2>2
  <2> QED BY <1>1, <1>2, <1>5, <2>3 DEF InstallInv, InstallTypes
<1>7. InstShape'
  BY <1>1, <1>2 DEF InstallInv, InstShape, Ins!PackagesOf
<1>8. "current" \in inst.write /\ AtIt /\ AtIt' /\ Half = inst.target /\ Half' = Half
  BY <1>1, <1>2 DEF InstallInv, InstShape, AtIt, Half
<1>9. \A q \in Ins!Packages \ {p} : \A l : HasLinks(q, l) => \A a \in DOMAIN InstallChildren[l][q] : a \in DOMAIN links'[q] /\ links'[q][a] = InstallChildren[l][q][a]
  BY <1>5 DEF HasLinks
<1>10. \A l : InstallChildren[l][p] = InstallChildren[inst.target][p] =>
         \A a \in DOMAIN InstallChildren[l][p] : a \in DOMAIN links'[p] /\ links'[p][a] = InstallChildren[l][p][a]
  BY <1>4, <1>5
<1>11. CurrentIsThere'
  <2> SUFFICES ASSUME ~damaged PROVE CurrentIsThere'
    BY <1>1 DEF CurrentIsThere
  <2>1. \A q \in Ins!PackagesOf(current) : q \in Ins!PackagesOf(inst.target) =>
          /\ IsGood(q) \/ inst.force
          /\ InstallChildren[inst.target][q] = InstallChildren[current][q] => HasLinks(q, current)'
    <3> SUFFICES ASSUME NEW q \in Ins!PackagesOf(current), q \in Ins!PackagesOf(inst.target)
                 PROVE  /\ IsGood(q) \/ inst.force
                        /\ InstallChildren[inst.target][q] = InstallChildren[current][q] => HasLinks(q, current)'
      OBVIOUS
    <3>1. /\ IsGood(q) \/ inst.force
          /\ InstallChildren[inst.target][q] = InstallChildren[current][q] => HasLinks(q, current)
      BY <1>8 DEF InstallInv, CurrentIsThere
    <3>2. CASE q = p
      <4>1. InstallChildren[current][p] = InstallChildren[inst.target][p] => HasLinks(p, current)'
        BY <1>1, <1>10 DEF HasLinks
      <4> QED BY <3>1, <3>2, <4>1
    <3>3. CASE q # p
      <4>1. HasLinks(q, current) => HasLinks(q, current)'
        BY <1>1, <1>3, <1>9, <3>3 DEF HasLinks
      <4> QED BY <3>1, <4>1
    <3> QED BY <3>2, <3>3
  <2>2. inst.target # "none" /\ Ins!PackagesOf(current)' = Ins!PackagesOf(current) /\ Ins!PackagesOf(Half)' = Ins!PackagesOf(inst.target)
    BY <1>1, <1>2, <1>3, <1>8, LockfilesAre DEF Ins!PackagesOf
  <2> QED BY <1>1, <1>2, <1>8, <2>1, <2>2 DEF InstallInv, CurrentIsThere, IsGood, Ins!DirectOf, Ins!None
<1>12. RestIsPlanned'
  <2>1. inst.force \/ ~damaged =>
          \A q \in Ins!PackagesOf(inst.target) :
            /\ q \in inst'.link \/ HasLinks(q, inst.target)'
            /\ q \in inst.import \/ IsGood(q) \/ (q \in inst.build /\ disk[q] # "absent")
    <3> SUFFICES ASSUME inst.force \/ ~damaged, NEW q \in Ins!PackagesOf(inst.target)
                 PROVE  /\ q \in inst'.link \/ HasLinks(q, inst.target)'
                        /\ q \in inst.import \/ IsGood(q) \/ (q \in inst.build /\ disk[q] # "absent")
      OBVIOUS
    <3>1. /\ q \in inst.link \/ HasLinks(q, inst.target)
          /\ q \in inst.import \/ IsGood(q) \/ (q \in inst.build /\ disk[q] # "absent")
      BY <1>1 DEF InstallInv, RestIsPlanned
    <3>2. CASE q = p
      <4>1. HasLinks(p, inst.target)'
        BY <1>1, <1>2, <1>10 DEF HasLinks
      <4> QED BY <3>1, <3>2, <4>1
    <3>3. CASE q # p
      <4>1. HasLinks(q, inst.target) => HasLinks(q, inst.target)'
        BY <1>1, <1>2, <1>3, <1>9, <3>3 DEF HasLinks
      <4> QED BY <1>2, <3>1, <3>3, <4>1
    <3> QED BY <3>2, <3>3
  <2>2. Ins!PackagesOf(inst.target)' = Ins!PackagesOf(inst.target) /\ \A q : IsGood(q)' <=> IsGood(q)
    BY <1>1, <1>2 DEF Ins!PackagesOf, IsGood
  <2> QED BY <1>1, <1>2, <2>1, <2>2 DEF InstallInv, RestIsPlanned, Ins!Packages, Ins!Lockfiles
<1>13. FilesFollow' /\ TimesTell'
  BY <1>1, <1>2, FilesStand DEF Installing
<1> QED BY <1>6, <1>7, <1>11, <1>12, <1>13 DEF InstallInv

LEMMA LinkDirectKeeps == ASSUME Ins!InstallAssumption, InstallInv, Ins!LinkDirect PROVE InstallInv'
<1> DEFINE new == Ins!Over(InstallDirect[inst.target], roots)
<1>1. /\ inst.phase = "linking" /\ inst.link = {} /\ inst.import = {} /\ roots' = new
      /\ inst' = [inst EXCEPT !.phase = "building"]
      /\ UNCHANGED <<workspace, hardlinks, cache, manifest, wanted, current, touched, disk, links, brokeOff, damaged,
                     stale, edits, breaks>>
  BY DEF Ins!LinkDirect
<1>2. /\ inst' \in InstRecord /\ inst'.phase = "building"
      /\ UNCHANGED <<inst.read, inst.target, inst.how, inst.again, inst.force, inst.prune, inst.link, inst.import,
                     inst.build, inst.write>>
  BY <1>1 DEF InstallInv, InstallTypes, InstRecord
<1>3. /\ inst.target \in Ins!Lockfiles /\ inst.target # "none"
      /\ \A a \in DOMAIN InstallDirect[inst.target] : InstallDirect[inst.target][a] \in Ins!Packages
      /\ Ins!DirectOf(inst.target) = InstallDirect[inst.target]
  BY <1>1, LockfilesAre DEF InstallInv, InstShape
<1>4. /\ DOMAIN new = DOMAIN InstallDirect[inst.target] \cup DOMAIN roots
      /\ \A a \in DOMAIN InstallDirect[inst.target] : new[a] = InstallDirect[inst.target][a]
      /\ \A a \in DOMAIN roots \ DOMAIN InstallDirect[inst.target] : new[a] = roots[a]
  BY OverIs
<1> HIDE DEF new
<1>5. InstallTypes'
  <2>1. \A a \in DOMAIN new : new[a] \in Ins!Packages
    BY <1>3, <1>4 DEF InstallInv, InstallTypes
  <2> QED BY <1>1, <1>2, <2>1 DEF InstallInv, InstallTypes
<1>6. InstShape'
  BY <1>1, <1>2 DEF InstallInv, InstShape, Ins!PackagesOf
<1>7. "current" \in inst.write /\ AtIt /\ AtIt' /\ Half = inst.target /\ Half' = Half
  BY <1>1, <1>2 DEF InstallInv, InstShape, AtIt, Half
<1>8. CurrentIsThere'
  <2> SUFFICES ASSUME ~damaged PROVE CurrentIsThere'
    BY <1>1 DEF CurrentIsThere
  <2>1. DOMAIN roots \subseteq DOMAIN InstallDirect[inst.target]
    BY <1>1 DEF InstallInv, RestIsPlanned
  <2>2. \A q \in Ins!PackagesOf(current) : Half = "none" \/ q \in Ins!PackagesOf(Half) =>
          /\ IsGood(q) \/ inst.force
          /\ Half = "none" \/ InstallChildren[Half][q] = InstallChildren[current][q] => HasLinks(q, current)
    BY DEF InstallInv, CurrentIsThere
  <2> QED BY <1>1, <1>2, <1>3, <1>4, <1>7, <2>1, <2>2
       DEF InstallInv, CurrentIsThere, IsGood, HasLinks, Ins!PackagesOf, Ins!DirectOf, Ins!None
<1>9. RestIsPlanned'
  BY <1>1, <1>2, <1>4 DEF InstallInv, RestIsPlanned, IsGood, HasLinks, Ins!PackagesOf
<1>10. FilesFollow' /\ TimesTell'
  BY <1>1, <1>2, <1>7, FilesStand DEF Installing, Ins!Rest
<1> QED BY <1>5, <1>6, <1>8, <1>9, <1>10 DEF InstallInv

LEMMA PruneAndPlanKeeps == ASSUME Ins!InstallAssumption, InstallInv, Ins!PruneAndPlan PROVE InstallInv'
<1> DEFINE l == inst.target
           gone == {a \in DOMAIN Ins!DirectOf(current) :
                      a \notin DOMAIN InstallDirect[l] \/ InstallDirect[l][a] # InstallDirect[current][a]}
           removed == IF inst.prune THEN Ins!Unneeded(l) ELSE {}
           linkage == {p \in Ins!PackagesOf(l) : inst.force \/ Ins!NotThere(p) \/ ~Ins!Unchanged(p, l)}
           import == IF inst.how = "frozen" THEN linkage
                     ELSE {p \in Ins!PackagesOf(l) : inst.force \/ Ins!NotThere(p)}
<1>1. /\ inst.phase = "begun"
      /\ roots' = [a \in DOMAIN roots \ gone |-> roots[a]]
      /\ disk' = [p \in Ins!Packages |-> IF p \in removed THEN "absent" ELSE disk[p]]
      /\ links' = [p \in Ins!Packages |-> IF p \in removed THEN <<>> ELSE links[p]]
      /\ inst' = [inst EXCEPT !.phase = "linking", !.link = linkage, !.import = import]
      /\ UNCHANGED <<workspace, hardlinks, cache, manifest, wanted, current, touched, brokeOff, damaged, stale,
                     edits, breaks>>
  BY DEF Ins!PruneAndPlan, Ins!Prune, Ins!Plan
<1>2. /\ l \in Ins!Lockfiles /\ l # "none" /\ Ins!PackagesOf(l) \subseteq Ins!Packages
      /\ inst.write = (IF inst.how = "full" THEN {"wanted", "current"} ELSE {"current"})
      /\ inst.build = {} /\ InstallSatisfies[l] = inst.read
      /\ Ins!PackagesOf(current) \subseteq Ins!Packages
      /\ cache \subseteq Ins!Packages
  BY <1>1, LockfilesAre DEF InstallInv, InstShape, InstallTypes
<1>3. linkage \subseteq Ins!PackagesOf(l) /\ import \subseteq Ins!PackagesOf(l)
  OBVIOUS
<1>4. \A p \in Ins!PackagesOf(l) :
        /\ p \notin linkage => ~inst.force /\ p \in Ins!PackagesOf(current) /\ disk'[p] # "absent"
                            /\ InstallChildren[current][p] = InstallChildren[l][p]
        /\ p \notin import => ~inst.force /\ p \in Ins!PackagesOf(current) /\ disk'[p] # "absent"
  BY DEF Ins!NotThere, Ins!Unchanged
<1>5. removed = IF inst.prune THEN Ins!Packages \ Ins!PackagesOf(l) ELSE {}
  BY DEF Ins!Unneeded
<1> HIDE DEF linkage, import, removed
<1>6. /\ inst' \in InstRecord /\ inst'.phase = "linking" /\ inst'.link = linkage /\ inst'.import = import
      /\ UNCHANGED <<inst.read, inst.target, inst.how, inst.again, inst.force, inst.prune, inst.build, inst.write>>
  BY <1>1, <1>2, <1>3 DEF InstallInv, InstallTypes, InstRecord
<1>7. /\ disk' \in [Ins!Packages -> {"absent", "fresh", "built"}] /\ DOMAIN links' = Ins!Packages
      /\ \A p \in Ins!Packages \ removed : disk'[p] = disk[p] /\ links'[p] = links[p]
      /\ \A p \in Ins!Packages : disk'[p] \in {disk[p], "absent"} /\ (p \in removed => disk'[p] = "absent")
      /\ \A p \in Ins!Packages \cap removed : links'[p] = <<>>
  BY <1>1 DEF InstallInv, InstallTypes
<1>8. DOMAIN roots' = DOMAIN roots \ gone /\ \A a \in DOMAIN roots' : roots'[a] = roots[a]
  BY <1>1
<1>9. \A p \in Ins!PackagesOf(l) : disk'[p] = disk[p] /\ links'[p] = links[p]
  BY <1>2, <1>5, <1>7
<1>10. InstallTypes'
  <2>1. DOMAIN <<>> = {}
    OBVIOUS
  <2>2. \A p \in Ins!Packages : \A a \in DOMAIN links'[p] : links'[p][a] \in Ins!Packages
    BY <1>7, <2>1 DEF InstallInv, InstallTypes
  <2>3. \A a \in DOMAIN roots' : roots'[a] \in Ins!Packages
    BY <1>8 DEF InstallInv, InstallTypes
  <2> QED BY <1>1, <1>6, <1>7, <2>2, <2>3 DEF InstallInv, InstallTypes
<1>11. InstShape'
  BY <1>2, <1>3, <1>6 DEF InstShape, Ins!PackagesOf
<1>12. AtIt' /\ Half' = l /\ "current" \in inst.write
  BY <1>2, <1>6 DEF AtIt, Half
<1>13. ~damaged =>
         /\ Half \in {"none", l} /\ brokeOff \in {"none", l}
         /\ \A p \in Ins!PackagesOf(current) : p \in Ins!PackagesOf(l) =>
              /\ IsGood(p) \/ inst.force
              /\ InstallChildren[l][p] = InstallChildren[current][p] => HasLinks(p, current)
         /\ \A a \in DOMAIN Ins!DirectOf(current) :
              a \in DOMAIN InstallDirect[l] /\ InstallDirect[l][a] = InstallDirect[current][a] =>
                a \in DOMAIN roots /\ roots[a] = InstallDirect[current][a]
         /\ DOMAIN roots \subseteq DOMAIN Ins!DirectOf(current) \cup DOMAIN InstallDirect[l]
         /\ ~hardlinks => \A p \in cache : disk[p] # "fresh"
  <2> SUFFICES ASSUME ~damaged
               PROVE  /\ Half \in {"none", l} /\ brokeOff \in {"none", l}
                      /\ \A p \in Ins!PackagesOf(current) : p \in Ins!PackagesOf(l) =>
                           /\ IsGood(p) \/ inst.force
                           /\ InstallChildren[l][p] = InstallChildren[current][p] => HasLinks(p, current)
                      /\ \A a \in DOMAIN Ins!DirectOf(current) :
                           a \in DOMAIN InstallDirect[l] /\ InstallDirect[l][a] = InstallDirect[current][a] =>
                             a \in DOMAIN roots /\ roots[a] = InstallDirect[current][a]
                      /\ DOMAIN roots \subseteq DOMAIN Ins!DirectOf(current) \cup DOMAIN InstallDirect[l]
                      /\ ~hardlinks => \A p \in cache : disk[p] # "fresh"
    OBVIOUS
  <2>1. Half \in {"none", l} /\ brokeOff \in {"none", l}
    BY <1>1 DEF InstallInv, CurrentIsThere, Half
  <2>2. Ins!DirectOf(l) = InstallDirect[l] /\ DOMAIN Ins!DirectOf("none") = {}
    BY <1>2, LockfilesAre
  <2>3. DOMAIN roots \subseteq DOMAIN Ins!DirectOf(current) \cup DOMAIN InstallDirect[l]
    BY <2>1, <2>2 DEF InstallInv, CurrentIsThere
  <2>4. \A p \in Ins!PackagesOf(current) : p \in Ins!PackagesOf(l) =>
          /\ IsGood(p) \/ inst.force
          /\ InstallChildren[l][p] = InstallChildren[current][p] => HasLinks(p, current)
    BY <2>1 DEF InstallInv, CurrentIsThere
  <2>5. \A a \in DOMAIN Ins!DirectOf(current) :
          a \in DOMAIN InstallDirect[l] /\ InstallDirect[l][a] = InstallDirect[current][a] =>
            a \in DOMAIN roots /\ roots[a] = InstallDirect[current][a]
    BY <2>1 DEF InstallInv, CurrentIsThere
  <2>6. ~hardlinks => \A p \in cache : disk[p] # "fresh"
    BY DEF InstallInv, CurrentIsThere
  <2> QED BY <2>1, <2>3, <2>4, <2>5, <2>6
<1>14. \A p \in Ins!PackagesOf(l) : (IsGood(p)' <=> IsGood(p)) /\ \A m : HasLinks(p, m) =>
         \A a \in DOMAIN InstallChildren[m][p] : a \in DOMAIN links'[p] /\ links'[p][a] = InstallChildren[m][p][a]
  BY <1>9 DEF IsGood, HasLinks
<1>15. ~damaged => DOMAIN roots' \subseteq DOMAIN InstallDirect[l]
  BY <1>8, <1>13
<1>16. CurrentIsThere'
  <2> SUFFICES ASSUME ~damaged PROVE CurrentIsThere'
    BY <1>1 DEF CurrentIsThere
  <2>1. \A p \in Ins!PackagesOf(current) : p \in Ins!PackagesOf(l) =>
          /\ IsGood(p)' \/ inst.force
          /\ InstallChildren[l][p] = InstallChildren[current][p] => HasLinks(p, current)'
    <3>1. ASSUME NEW p \in Ins!PackagesOf(l), HasLinks(p, current) PROVE HasLinks(p, current)'
      BY <1>1, <1>9, <3>1 DEF HasLinks
    <3> QED BY <1>13, <1>14, <3>1
  <2>2. \A a \in DOMAIN Ins!DirectOf(current) :
          a \in DOMAIN InstallDirect[l] /\ InstallDirect[l][a] = InstallDirect[current][a] =>
            a \in DOMAIN roots' /\ roots'[a] = InstallDirect[current][a]
    BY <1>8, <1>13
  <2>3. ~hardlinks => \A p \in cache : disk'[p] # "fresh"
    BY <1>2, <1>7, <1>13
  <2>4. /\ Ins!PackagesOf(current)' = Ins!PackagesOf(current) /\ Ins!PackagesOf(Half)' = Ins!PackagesOf(l)
        /\ Ins!DirectOf(current)' = Ins!DirectOf(current) /\ Ins!DirectOf(Half)' = InstallDirect[l]
    BY <1>1, <1>2, <1>12 DEF Ins!PackagesOf, Ins!DirectOf, Ins!None
  <2> QED BY <1>1, <1>2, <1>6, <1>12, <1>13, <1>15, <2>1, <2>2, <2>3, <2>4 DEF CurrentIsThere
<1>17. RestIsPlanned'
  <2>1. inst.force \/ ~damaged =>
          \A p \in Ins!PackagesOf(l) :
            /\ p \in linkage \/ HasLinks(p, inst.target)'
            /\ p \in import \/ IsGood(p)'
    <3> SUFFICES ASSUME inst.force \/ ~damaged, NEW p \in Ins!PackagesOf(l)
                 PROVE  (p \in linkage \/ HasLinks(p, inst.target)') /\ (p \in import \/ IsGood(p)')
      OBVIOUS
    <3>1. CASE p \notin linkage
      <4>1. HasLinks(p, current) /\ InstallChildren[current][p] = InstallChildren[l][p] /\ IsGood(p)
        BY <1>4, <1>13, <3>1
      <4>2. HasLinks(p, inst.target)'
        BY <1>6, <1>14, <4>1 DEF HasLinks
      <4> QED BY <1>14, <4>1, <4>2
    <3>2. CASE p \notin import
      <4>1. IsGood(p)'
        BY <1>4, <1>13, <1>14, <3>2
      <4>2. p \in linkage \/ HasLinks(p, inst.target)'
        BY <3>1
      <4> QED BY <4>1, <4>2
    <3> QED BY <3>1, <3>2
  <2>2. inst.prune => \A p \in Ins!Packages \ Ins!PackagesOf(l) : disk'[p] = "absent"
    BY <1>5, <1>7
  <2>3. Ins!PackagesOf(inst.target)' = Ins!PackagesOf(l)
    BY <1>6 DEF Ins!PackagesOf
  <2> QED BY <1>1, <1>6, <1>15, <2>1, <2>2, <2>3 DEF RestIsPlanned, Ins!Packages, Ins!Lockfiles
<1>18. FilesFollow' /\ TimesTell'
  BY <1>1, <1>6, FilesStand DEF Installing, Ins!Rest
<1> QED BY <1>10, <1>11, <1>16, <1>17, <1>18 DEF InstallInv

LEMMA InstallBegins == ASSUME Ins!InstallAssumption, Ins!Init PROVE InstallInv
<1>1. inst = Ins!AtRest("idle") /\ "idle" \in Ins!Rest
  BY DEF Ins!Init, Ins!Rest
<1>2. /\ inst \in InstRecord /\ inst.phase = "idle" /\ inst.write = {} /\ inst.build = {}
      /\ inst.link = {} /\ inst.import = {}
  BY <1>1, AtRestIs
<1>3. /\ DOMAIN touched = {"wanted", "manifest"} /\ touched["manifest"] = {"wanted"} /\ touched["wanted"] = {}
      /\ current = "none" /\ brokeOff = "none" /\ DOMAIN <<>> = {} /\ cache = {}
  BY DEF Ins!Init, Ins!None
<1>4. InstallTypes
  <2>1. disk \in [Ins!Packages -> {"absent", "fresh", "built"}] /\ DOMAIN links = Ins!Packages
    BY DEF Ins!Init
  <2>2. DOMAIN roots = {} /\ \A p \in Ins!Packages : DOMAIN links[p] = {}
    BY <1>3 DEF Ins!Init
  <2>3. edits \in 0..MaxEdits /\ breaks \in 0..MaxBreaks
    BY DEF Ins!Init, Ins!InstallAssumption
  <2> QED BY <1>2, <1>3, <2>1, <2>2, <2>3 DEF Ins!Init, InstallTypes, Ins!Files, Ins!None
<1>5. InstShape
  BY <1>1, <1>2 DEF InstShape
<1>6. ~AtIt /\ ~Installing /\ Half = "none"
  BY <1>2, <1>3 DEF AtIt, Installing, Half, Ins!Rest
<1>7. CurrentIsThere
  <2>1. Ins!PackagesOf(current) = {} /\ DOMAIN Ins!DirectOf(current) = {} /\ DOMAIN roots = {}
    BY <1>3, LockfilesAre DEF Ins!Init
  <2> QED BY <1>2, <1>3, <2>1 DEF CurrentIsThere
<1>8. RestIsPlanned
  BY <1>2 DEF RestIsPlanned
<1>9. FilesFollow
  BY <1>2, <1>3, <1>6 DEF FilesFollow, Ins!Exists
<1>10. TimesTell
  BY <1>2, <1>3 DEF TimesTell, Ins!Exists, Ins!Newer
<1> QED BY <1>4, <1>5, <1>7, <1>8, <1>9, <1>10 DEF InstallInv

LEMMA InstallStutters ==
  ASSUME InstallInv, UNCHANGED Ins!installVars PROVE InstallInv'
<1> USE DEF InstallInv, Ins!installVars
<1>1. InstallTypes' /\ InstShape' /\ FilesFollow'
  BY DEF InstallTypes, InstShape, FilesFollow, Installing, Ins!PackagesOf, Ins!Exists
<1>2. CurrentIsThere'
  BY DEF CurrentIsThere, AtIt, Half, IsGood, HasLinks, Ins!PackagesOf, Ins!DirectOf, Ins!None
<1>3. RestIsPlanned'
  BY DEF RestIsPlanned, IsGood, HasLinks, Ins!PackagesOf, Ins!DirectOf, Ins!None, Ins!IsInstalled
<1>4. TimesTell'
  BY DEF TimesTell, Ins!Exists, Ins!Newer, Ins!Satisfied, Installing
<1> QED BY <1>1, <1>2, <1>3, <1>4

LEMMA InstallInvHolds ==
  ASSUME Ins!InstallAssumption
  PROVE  Ins!SafetySpec => []InstallInv
<1>1. Ins!Init => InstallInv
  BY InstallBegins
<1>2. InstallInv /\ [Ins!Next]_Ins!installVars => InstallInv'
  <2> SUFFICES ASSUME InstallInv, [Ins!Next]_Ins!installVars PROVE InstallInv'
    OBVIOUS
  <2>1. CASE UNCHANGED Ins!installVars
    BY <2>1, InstallStutters
  <2>2. CASE Ins!Step
    <3>1. CASE Ins!PruneAndPlan
      BY <3>1, PruneAndPlanKeeps
    <3>2. CASE Ins!LinkDirect
      BY <3>2, LinkDirectKeeps
    <3>3. CASE Ins!RunHooks
      BY <3>3, RunHooksKeeps
    <3>4. CASE Ins!UpdateState
      BY <3>4, UpdateStateKeeps
    <3>5. ASSUME NEW p \in Ins!Packages, Ins!LinkModules(p) PROVE InstallInv'
      BY <3>5, LinkModulesKeeps
    <3>6. ASSUME NEW p \in Ins!Packages, Ins!ImportPackage(p) PROVE InstallInv'
      BY <3>6, ImportPackageKeeps
    <3>7. ASSUME NEW p \in Ins!Packages, NEW u \in BOOLEAN, Ins!Build(p, u) PROVE InstallInv'
      BY <3>7, BuildKeeps
    <3>8. ASSUME NEW f \in {"wanted", "current"}, Ins!WriteLockfile(f) PROVE InstallInv'
      BY <3>8, WriteLockfileKeeps
    <3> QED BY <2>2, <3>1, <3>2, <3>3, <3>4, <3>5, <3>6, <3>7, <3>8 DEF Ins!Step
  <2>3. CASE Ins!Skip
    BY <2>3, SkipKeeps
  <2>4. CASE Ins!Break
    BY <2>4, BreakKeeps
  <2>5. CASE Ins!RemoveModules
    BY <2>5, RemoveModulesKeeps
  <2>6. ASSUME NEW b \in BOOLEAN, Ins!Begin(b) PROVE InstallInv'
    BY <2>6, BeginKeeps
  <2>7. ASSUME NEW m \in Ins!Manifests, Ins!EditManifest(m) PROVE InstallInv'
    BY <2>7, EditManifestKeeps
  <2>8. ASSUME NEW p \in NeedBuild, Ins!BuiltElsewhere(p) PROVE InstallInv'
    BY <2>8, BuiltElsewhereKeeps
  <2>9. ASSUME NEW l \in Ins!Lockfiles, Ins!ResolveAgain(l) PROVE InstallInv'
    BY <2>9, ResolveAgainKeeps
  <2>10. ASSUME NEW l \in Ins!Lockfiles, Ins!Checkout(l) PROVE InstallInv'
    BY <2>10, CheckoutKeeps
  <2>11. ASSUME NEW l \in Ins!Lockfiles, Ins!CheckoutLockfile(l) PROVE InstallInv'
    BY <2>11, CheckoutLockfileKeeps
  <2> QED BY <2>1, <2>2, <2>3, <2>4, <2>5, <2>6, <2>7, <2>8, <2>9, <2>10, <2>11 DEF Ins!Next
<1> QED BY <1>1, <1>2, PTL DEF Ins!SafetySpec

\* The state of an install and of the project stays in its domains.
THEOREM InstallTypeCorrect ==
  ASSUME Ins!InstallAssumption PROVE Ins!SafetySpec => []Ins!InstallTypeOK
<1>1. InstallInv => Ins!InstallTypeOK
  BY TypesAre DEF InstallInv
<1> QED BY <1>1, InstallInvHolds, PTL

\* For any lockfiles, edits, failures and crashes: an install that ends well
\* leaves what its lockfile says, if what broke off before it was finished or
\* forced (link.ts, lockfileToDepGraph.ts, prune.ts).
THEOREM InstallsAsWanted ==
  ASSUME Ins!InstallAssumption PROVE Ins!SafetySpec => []Ins!InstalledIsWanted
<1>1. InstallInv => Ins!InstalledIsWanted
  <2> SUFFICES ASSUME InstallInv, inst.phase = "done" PROVE Ins!InstalledIsWanted
    BY DEF Ins!InstalledIsWanted
  <2>1. (inst.force \/ ~damaged => Ins!IsInstalled(inst.target)) /\ (~damaged => DOMAIN roots = DOMAIN InstallDirect[inst.target])
    BY DEF InstallInv, RestIsPlanned
  <2> QED BY <2>1 DEF Ins!InstalledIsWanted
<1> QED BY <1>1, InstallInvHolds, PTL

\* "Already up to date" is true, but for what the check is known to miss
\* (checkDepsStatus.ts).
THEOREM UpToDateIsRight ==
  ASSUME Ins!InstallAssumption PROVE Ins!SafetySpec => []Ins!UpToDateIsTrue
<1>1. ASSUME InstallInv PROVE Ins!UpToDateIsTrue
  <2> SUFFICES ASSUME inst.phase = "skipped", ~stale, ~damaged, brokeOff \in {"none", wanted}
               PROVE  Ins!Satisfied(wanted) /\ Ins!IsInstalled(wanted)
    BY DEF Ins!UpToDateIsTrue, Ins!None
  <2>1. Ins!Satisfied(wanted) /\ current = wanted
    BY <1>1 DEF InstallInv, TimesTell
  <2>2. ~AtIt /\ inst.phase \in Ins!Rest
    BY <1>1, RestingIs DEF Ins!Rest
  <2>3. Half = brokeOff
    BY <2>2 DEF Half
  <2>4. \A p \in Ins!PackagesOf(wanted) : IsGood(p) /\ HasLinks(p, wanted)
    BY <1>1, <2>1, <2>2, <2>3 DEF InstallInv, CurrentIsThere
  <2>5. wanted \in Ins!Lockfiles /\ Ins!DirectOf(wanted) = InstallDirect[wanted]
    BY <1>1, <2>1, LockfilesAre DEF InstallInv, InstallTypes, Ins!Satisfied, Ins!None
  <2>6. \A a \in DOMAIN Ins!DirectOf(wanted) : a \in DOMAIN roots /\ roots[a] = InstallDirect[wanted][a]
    BY <1>1, <2>1, <2>2, <2>3, <2>5 DEF InstallInv, CurrentIsThere
  <2> QED BY <2>1, <2>4, <2>6 DEF Ins!IsInstalled, IsGood, HasLinks
<1> QED BY <1>1, InstallInvHolds, PTL

\* After an install that pruned the virtual store it has nothing that the
\* lockfile does not (prune.ts).
THEOREM PrunedIsCleanHolds ==
  ASSUME Ins!InstallAssumption PROVE Ins!SafetySpec => Ins!PrunedIsClean
<1>1. InstallInv /\ [Ins!Next]_Ins!installVars =>
        [inst.phase = "ending" /\ inst'.phase = "done" /\ inst.prune =>
           \A p \in Ins!Packages \ Ins!PackagesOf(inst.target) : disk[p] = "absent"]_Ins!installVars
  BY DEF InstallInv, RestIsPlanned
<1> QED BY <1>1, InstallInvHolds, PTL DEF Ins!SafetySpec, Ins!PrunedIsClean

-----------------------------------------------------------------------------
\* The component that a behaviour is about

About(s) == subject = s

LEMMA SubjectStays == ASSUME [Next]_vars PROVE subject' = subject
BY DEF Next, Only, vars

\* A behaviour about a resolution is one of its model.
LEMMA TreeAlone == Spec => []~About("tree") \/ Tre!SafetySpec
<1>1. Init /\ About("tree") => Tre!Init
  BY DEF Init, About
<1>2. About("tree") /\ [Next]_vars => About("tree")' /\ [Tre!Next]_Tre!treeVars
  BY SubjectStays DEF Next, vars, treeVars, Tre!treeVars, About
<1>3. ~About("tree") /\ [Next]_vars => ~About("tree")'
  BY SubjectStays DEF About
<1> QED BY <1>1, <1>2, <1>3, PTL DEF Spec, Tre!SafetySpec

\* A behaviour about installs is one of their model.
LEMMA InstallAlone == Spec => []~About("install") \/ Ins!SafetySpec
<1>1. Init /\ About("install") => Ins!Init
  BY DEF Init, About
<1>2. About("install") /\ [Next]_vars => About("install")' /\ [Ins!Next]_Ins!installVars
  BY SubjectStays DEF Next, vars, installVars, Ins!installVars, About
<1>3. ~About("install") /\ [Next]_vars => ~About("install")'
  BY SubjectStays DEF About
<1> QED BY <1>1, <1>2, <1>3, PTL DEF Spec, Ins!SafetySpec

\* Installs, for all manifests and lockfiles: what ends well is what the lockfile
\* says, and "already up to date" is true, through edits, frozen and full
\* installs, installs that are killed and node_modules that are removed.
THEOREM InstallsAreSound == Spec => []InstallIsSound
<1>1. Ins!InstallAssumption /\ Tre!TreeAssumption
  BY ComponentsAssumption
<1>2. /\ About("tree") => Tre!TreeIsWhole
      /\ About("install") => Ins!InstalledIsWanted /\ Ins!UpToDateIsTrue
      => InstallIsSound
  BY DEF InstallIsSound, About
<1> QED BY <1>1, <1>2, InstallAlone, TreeAlone, InstallsAsWanted, UpToDateIsRight, TreesAreWhole, PTL

\* An install that pruned the virtual store leaves nothing there that its
\* lockfile does not have.
THEOREM PrunesLeaveNothing == Spec => PrunedIsClean
<1>1. Ins!InstallAssumption
  BY ComponentsAssumption
<1>2. ~About("install") /\ [Next]_vars =>
        [inst.phase = "ending" /\ inst'.phase = "done" /\ inst.prune =>
           \A p \in Ins!Packages \ Ins!PackagesOf(inst.target) : disk[p] = "absent"]_Ins!installVars
  BY DEF About, Next, Only, vars, installVars, Ins!installVars
<1>3. Spec => Ins!PrunedIsClean \/ []~About("install")
  BY <1>1, InstallAlone, PrunedIsCleanHolds, PTL
<1>4. Spec /\ []~About("install") => Ins!PrunedIsClean
  BY <1>2, PTL DEF Spec, Ins!PrunedIsClean
<1> QED BY <1>3, <1>4, PTL DEF PrunedIsClean
=============================================================================
