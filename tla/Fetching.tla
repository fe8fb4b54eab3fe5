------------------------------ MODULE Fetching ------------------------------
\* The download of one tarball: the attempts of
\* fetching/tarball-fetcher/src/remoteTarballFetcher.ts, around the redirects
\* of network/fetch/src/fetchFromRegistry.ts, around the (switched off)
\* retries of network/fetch/src/fetch.ts.
EXTENDS Naturals

CONSTANTS
  Retries,       \* fetch-retries of the download
  MaxRedirects,  \* MAX_FOLLOWED_REDIRECTS
  MirrorHosts    \* hosts that a redirect may lead to

FetchingAssumption ==
  /\ Retries \in Nat /\ MaxRedirects \in Nat
  /\ "registry" \notin MirrorHosts

\* Retries of one request: the download asks for none.
InnerRetries == 0

Hosts == {"registry"} \cup MirrorHosts

VARIABLES
  dl,         \* what the download does
  attempt,    \* attempts of the download
  inner,      \* attempts of the request
  redirects,  \* followed in this attempt
  host,       \* where the request goes
  hasAuth,    \* getAuthHeaderByURI knows a header for the tarball
  auth,       \* headers.authorization is set
  integrity,  \* the lockfile has an integrity for the tarball
  body,       \* what arrived of the tarball
  requests,   \* history: requests sent
  transient,  \* history: attempts that failed with an error worth a retry
  leaked      \* history: a host other than the registry got the header

dlVars == <<dl, attempt, inner, redirects, host, hasAuth, auth, integrity, body,
            requests, transient, leaked>>

Over == {"stored", "failed", "crashed"}
MaxRequests == (Retries + 1) * (MaxRedirects + 1)

FetchingTypeOK ==
  /\ dl \in {"sending", "answered", "extracting", "retrying"} \cup Over
  /\ attempt \in 1..(Retries + 1) /\ inner \in 1..(InnerRetries + 1)
  /\ redirects \in 0..(MaxRedirects + 1)
  /\ host \in Hosts
  /\ {hasAuth, auth, integrity, leaked} \subseteq BOOLEAN
  /\ body \in {"none", "truncated", "altered", "good"}
  /\ requests \in 0..(MaxRequests * 3)
  /\ transient \in 0..(Retries + 1)

Init ==
  /\ dl = "sending" /\ attempt = 1 /\ inner = 1 /\ redirects = 0
  /\ host = "registry" /\ body = "none"
  /\ hasAuth \in BOOLEAN /\ auth = hasAuth /\ integrity \in BOOLEAN
  /\ requests = 0 /\ transient = 0 /\ leaked = FALSE

-----------------------------------------------------------------------------
\* Mutant of AttemptFails: one attempt too many.
AttemptFailsLate ==
  /\ transient' = transient + 1
  /\ dl' = IF attempt <= Retries + 1 THEN "retrying" ELSE "failed"
  /\ UNCHANGED <<attempt, inner, redirects, host, hasAuth, auth, integrity, leaked>>

\* op.retry of the download: another attempt with fresh headers, or the end.
\* (`retrying` waits for the timer.)
AttemptFails ==
  /\ transient' = transient + 1
  /\ dl' = IF attempt <= Retries THEN "retrying" ELSE "failed"
  /\ UNCHANGED <<attempt, inner, redirects, host, hasAuth, auth, integrity, leaked>>

\* The timer of op.retry: the next attempt starts over, a header that was
\* dropped is back.
NextAttempt ==
  /\ dl = "retrying"
  /\ dl' = "sending" /\ attempt' = attempt + 1
  /\ inner' = 1 /\ redirects' = 0 /\ host' = "registry"
  /\ auth' = hasAuth
  /\ body' = "none"
  /\ UNCHANGED <<hasAuth, integrity, requests, transient, leaked>>

\* nodeFetch sends the request.
Send ==
  /\ dl = "sending"
  /\ dl' = "answered"
  /\ requests' = requests + 1
  /\ leaked' = (leaked \/ (auth /\ host # "registry"))
  /\ UNCHANGED <<attempt, inner, redirects, host, hasAuth, auth, integrity, body, transient>>

\* Mutant of RequestFails: a bad answer of the registry ends the download.
RequestFailsAtOnce ==
  /\ dl = "answered"
  /\ dl' = "failed"
  /\ transient' = transient + 1
  /\ UNCHANGED <<attempt, inner, redirects, host, hasAuth, auth, integrity, leaked, body, requests>>

\* A network error or a status 408, 409, 420, 429 or 5xx: fetch retries it if
\* it may, else it rejects or resolves with the bad response (fetch.ts 76-78),
\* which makes a FetchError of the attempt.
RequestFails ==
  /\ dl = "answered"
  /\ \/ /\ inner <= InnerRetries
        /\ inner' = inner + 1 /\ dl' = "sending"
        /\ UNCHANGED <<attempt, redirects, host, hasAuth, auth, integrity, transient, leaked>>
     \/ inner > InnerRetries /\ AttemptFails
  /\ UNCHANGED <<body, requests>>

\* A certificate that cannot be trusted (NO_RETRY_ERROR_CODES): the error
\* leaves the callback of op.attempt, whose promise nobody awaits, and an
\* unhandled rejection ends the process.
CertificateFails ==
  /\ dl = "answered"
  /\ dl' = "crashed"
  /\ UNCHANGED <<attempt, inner, redirects, host, hasAuth, auth, integrity, body, requests, transient, leaked>>

\* Mutant of Redirect: the header stays.
RedirectKeepingAuth(h) ==
  /\ dl = "answered" /\ redirects < MaxRedirects
  /\ redirects' = redirects + 1
  /\ host' = h /\ inner' = 1 /\ dl' = "sending"
  /\ UNCHANGED <<attempt, hasAuth, auth, integrity, body, requests, transient, leaked>>

\* Mutant of Redirect: nothing counts the redirects.
RedirectUncounted(h) ==
  /\ dl = "answered" /\ requests < MaxRequests * 3
  /\ host' = h /\ inner' = 1 /\ dl' = "sending"
  /\ auth' = (auth /\ h = "registry")
  /\ UNCHANGED <<attempt, redirects, hasAuth, integrity, body, requests, transient, leaked>>

\* fetchFromRegistry follows a redirect itself and drops the authorization
\* header on another host, for good.
Redirect(h) ==
  /\ dl = "answered" /\ redirects < MaxRedirects
  /\ redirects' = redirects + 1
  /\ host' = h /\ inner' = 1 /\ dl' = "sending"
  /\ auth' = (auth /\ h = "registry")
  /\ UNCHANGED <<attempt, hasAuth, integrity, body, requests, transient, leaked>>

\* A redirect too many is returned as it is: not a 200.
TooManyRedirects ==
  /\ dl = "answered" /\ redirects >= MaxRedirects
  /\ AttemptFails
  /\ UNCHANGED <<body, requests>>

\* 401, 403 and 404 are not tried again.
Refused ==
  /\ dl = "answered"
  /\ dl' = "failed"
  /\ UNCHANGED <<attempt, inner, redirects, host, hasAuth, auth, integrity, body, requests, transient, leaked>>

\* Another status than 200 (a 400, say).
BadStatus ==
  /\ dl = "answered"
  /\ AttemptFails
  /\ UNCHANGED <<body, requests>>

\* A 200: the body is read.  One that differs from its content-length is a
\* BadTarballError; without content-length nobody can tell.
BodyRead(b, hasLength) ==
  /\ dl = "answered"
  /\ body' = b
  /\ IF b = "truncated" /\ hasLength THEN AttemptFails
     ELSE /\ dl' = "extracting"
          /\ UNCHANGED <<attempt, inner, redirects, host, hasAuth, auth, integrity, transient, leaked>>
  /\ UNCHANGED requests

\* The body breaks off: for await throws.
BodyFails ==
  /\ dl = "answered"
  /\ AttemptFails
  /\ UNCHANGED <<body, requests>>

\* Mutant of Extract: the worker does not compare the integrity.
ExtractUnverified ==
  /\ dl = "extracting"
  /\ dl' = IF body = "truncated" THEN "failed" ELSE "stored"
  /\ UNCHANGED <<attempt, inner, redirects, host, hasAuth, auth, integrity, transient, leaked, body, requests>>

\* addTarballToStore in a worker: the integrity first, then the archive,
\* which fails to unpack when it is cut short.  Either error is retried.
Extract ==
  /\ dl = "extracting"
  /\ IF body = "truncated" \/ (integrity /\ body # "good") THEN AttemptFails
     ELSE /\ dl' = "stored"
          /\ UNCHANGED <<attempt, inner, redirects, host, hasAuth, auth, integrity, transient, leaked>>
  /\ UNCHANGED <<body, requests>>

-----------------------------------------------------------------------------
Step ==
  \/ Send \/ RequestFails \/ CertificateFails \/ TooManyRedirects \/ Refused
  \/ BadStatus \/ BodyFails \/ Extract \/ NextAttempt
  \/ \E h \in Hosts : Redirect(h)
  \/ \E b \in {"truncated", "altered", "good"}, l \in BOOLEAN : BodyRead(b, l)
Ended == dl \in Over /\ UNCHANGED dlVars
Next == Step \/ Ended

SafetySpec == Init /\ [][Next]_dlVars
Spec == SafetySpec /\ WF_dlVars(Step)

-----------------------------------------------------------------------------
\* Properties

\* The credentials of the registry never go to another host, through any
\* chain of redirects and retries: the workaround of fetchFromRegistry.ts:80.
AuthStaysAtTheRegistry == ~leaked

\* The three nested loops send (retries + 1) * (redirects + 1) requests at
\* most: the retries of a request do not multiply those of the download.
RequestsAreBounded == requests <= MaxRequests

\* An error that may pass ends the download only in its last attempt: fewer
\* such errors, of whatever layer and in whatever order, are survived.
TransientErrorsAreSurvived ==
  dl = "failed" /\ transient = attempt => attempt = Retries + 1

\* A tarball of which the lockfile knows the integrity is stored whole and
\* unchanged or not at all.
StoredIsVerified == dl = "stored" /\ integrity => body = "good"
=============================================================================
