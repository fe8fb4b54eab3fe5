---------------------------- MODULE RecursiveRun ----------------------------
\* `pnpm -r run` and `pnpm -r exec`
\* (exec/plugin-commands-script-runners/src/{runRecursive,exec}.ts): chunks of
\* projects one after the other, the scripts of a chunk under p-limit, one
\* status per PROJECT in the summary, and the verdict of the command.
EXTENDS Naturals, FiniteSets, Sequences

CONSTANTS
  Projects,     \* the selected projects
  Deps,         \* project -> its dependencies in the workspace
  Sorted,       \* the chunks sortPackages makes of them
  Matches,      \* project -> its scripts that the given name or pattern selects
  Concurrency   \* workspaceConcurrency

\* sequenceGraph keeps the edges inside the selection and drops self-edges.
Edges(p) == {d \in Deps[p] : d # p /\ d \in Projects}

RunAssumption ==
  /\ Deps \in [Projects -> SUBSET Projects]
  /\ Concurrency \in Nat \ {0}
  /\ \A p \in Projects : IsFiniteSet(Matches[p])
  \* the chunks are a partition
  /\ Sorted \in Seq(SUBSET Projects)
  /\ \A p \in Projects : \E i \in DOMAIN Sorted : p \in Sorted[i]
  /\ \A i, j \in DOMAIN Sorted : i # j => Sorted[i] \cap Sorted[j] = {}
  \* the order of an acyclic graph (GraphSequencer)
  /\ \A i, j \in DOMAIN Sorted : \A p \in Sorted[i], d \in Sorted[j] : d \in Edges(p) => j < i

VARIABLES
  opts,      \* the command and its flags
  chunk,     \* index of the chunk that runs, 0 before the first
  task,      \* where each script of each project is
  result,    \* result[prefix].status
  snapshot,  \* projects that failed, as the summary a task writes has them
  summary,   \* the same in pnpm-exec-summary.json, <<>> when there is none
  outcome    \* of the command

runVars == <<opts, chunk, task, result, snapshot, summary, outcome>>

Commands == [cmd : {"run", "exec"}, bail : BOOLEAN, report : BOOLEAN,
             required : BOOLEAN, reverse : BOOLEAN, resume : 1..Len(Sorted)]
Scripts == UNION {Matches[p] : p \in Projects} \cup {"command"}
Ended == {"ok", "failed"}

\* getSpecifiedScripts; `exec` runs its command in every project.
SelectedScripts(p) == IF opts.cmd = "exec" THEN {"command"} ELSE Matches[p]
Tasks == {t \in Projects \X Scripts : t[2] \in SelectedScripts(t[1])}

\* The order, reversed, and what is left of it from the chunk of resumeFrom on.
Chunks ==
  LET order == IF opts.reverse
               THEN [i \in DOMAIN Sorted |-> Sorted[Len(Sorted) + 1 - i]] ELSE Sorted
  IN  SubSeq(order, opts.resume, Len(order))

TasksOf(i) == {t \in Tasks : t[1] \in Chunks[i]}
InSummary == UNION {Chunks[i] : i \in DOMAIN Chunks}
Failures == {p \in InSummary : result[p] = "failure"}

RunTypeOK ==
  /\ opts \in Commands
  /\ chunk \in 0..Len(Sorted)
  /\ task \in [Projects \X Scripts ->
               {"none", "queued", "running", "failing", "reporting"} \cup Ended]
  /\ result \in [Projects -> {"queued", "skipped", "running", "passed", "failure"}]
  /\ snapshot \in [Projects \X Scripts -> SUBSET Projects]
  /\ summary = <<>> \/ summary \in [failed : SUBSET Projects]
  /\ outcome \in {"running", "resolved", "rejected", "exited"}

Init ==
  /\ opts \in Commands
  /\ chunk = 0
  /\ task = [t \in Projects \X Scripts |-> "none"]
  /\ result = [p \in Projects |-> "queued"]
  /\ snapshot = [t \in Projects \X Scripts |-> {}]
  /\ summary = <<>>
  /\ outcome = "running"

-----------------------------------------------------------------------------
\* The chunk starts: projects without the script are skipped, the scripts of
\* the others wait for p-limit.
EnterChunk(i) ==
  /\ chunk' = i
  /\ result' = [p \in Projects |-> IF p \in Chunks[i] /\ SelectedScripts(p) = {}
                                   THEN "skipped" ELSE result[p]]
  /\ task' = [t \in DOMAIN task |-> IF t \in TasksOf(i) THEN "queued" ELSE task[t]]

\* A required script must be in every project that is about to run.
MissesRequired == opts.cmd = "run" /\ opts.required
                  /\ \E p \in InSummary : SelectedScripts(p) = {}

Begin ==
  /\ chunk = 0 /\ outcome = "running"
  /\ \/ /\ MissesRequired
        /\ outcome' = "exited"
        /\ UNCHANGED <<chunk, task, result>>
     \/ ~MissesRequired /\ EnterChunk(1) /\ UNCHANGED outcome
  /\ UNCHANGED <<opts, snapshot, summary>>

\* p-limit: a slot is taken until the function of the task settles.
SlotsTaken == Cardinality({t \in Tasks : task[t] \in {"running", "failing", "reporting"}})

StartTask(t) ==
  /\ task[t] = "queued" /\ SlotsTaken < Concurrency /\ outcome # "exited"
  /\ task' = [task EXCEPT ![t] = "running"]
  /\ result' = [result EXCEPT ![t[1]] = "running"]
  /\ UNCHANGED <<opts, chunk, snapshot, summary, outcome>>

TaskPasses(t) ==
  /\ task[t] = "running" /\ outcome # "exited"
  /\ task' = [task EXCEPT ![t] = "ok"]
  /\ result' = [result EXCEPT ![t[1]] = "passed"]
  /\ UNCHANGED <<opts, chunk, snapshot, summary, outcome>>

\* Mutant of TaskFails: without bail the failure is not recorded.
TaskFailsSilently(t) ==
  /\ task[t] = "running" /\ outcome # "exited"
  /\ task' = [task EXCEPT ![t] = IF opts.bail THEN "failing" ELSE "failed"]
  /\ result' = [result EXCEPT ![t[1]] = IF opts.bail THEN "failure" ELSE "passed"]
  /\ UNCHANGED <<opts, chunk, snapshot, summary, outcome>>

\* Without bail the failure is only recorded; with it the task goes on to
\* write the summary and to throw.
TaskFails(t) ==
  /\ task[t] = "running" /\ outcome # "exited"
  /\ task' = [task EXCEPT ![t] = IF opts.bail THEN "failing" ELSE "failed"]
  /\ result' = [result EXCEPT ![t[1]] = "failure"]
  /\ UNCHANGED <<opts, chunk, snapshot, summary, outcome>>

\* writeRecursiveSummary takes the results as they are once the directory is
\* there.
TakeSummary(t) ==
  /\ task[t] = "failing" /\ opts.report /\ outcome # "exited"
  /\ task' = [task EXCEPT ![t] = "reporting"]
  /\ snapshot' = [snapshot EXCEPT ![t] = Failures]
  /\ UNCHANGED <<opts, chunk, result, summary, outcome>>

\* Mutant of Throw: the error is thrown before the summary is written.
ThrowAtOnce(t) ==
  /\ task[t] \in {"failing", "reporting"} /\ outcome # "exited"
  /\ task' = [task EXCEPT ![t] = "failed"]
  /\ outcome' = IF outcome = "running" THEN "rejected" ELSE outcome
  /\ UNCHANGED <<opts, chunk, result, snapshot, summary>>

\* The summary is on disk, or was not asked for: the task rejects, and with
\* it the Promise.all of its chunk.  Its siblings go on.
Throw(t) ==
  /\ task[t] = IF opts.report THEN "reporting" ELSE "failing"
  /\ outcome # "exited"
  /\ summary' = IF opts.report THEN [failed |-> snapshot[t]] ELSE summary
  /\ task' = [task EXCEPT ![t] = "failed"]
  /\ outcome' = IF outcome = "running" THEN "rejected" ELSE outcome
  /\ UNCHANGED <<opts, chunk, result, snapshot>>

\* Mutant of ChunkIsDone: one script that ended is enough.
ChunkHasEnded == TasksOf(chunk) = {} \/ \E t \in TasksOf(chunk) : task[t] \in Ended

\* Promise.all of the chunk resolves.
ChunkIsDone == \A t \in TasksOf(chunk) : task[t] \in Ended

\* Mutant of NextChunk: the chunk is run once more.
NextChunkAgain ==
  /\ chunk \in 1..(Len(Chunks) - 1) /\ outcome = "running" /\ ChunkIsDone
  /\ EnterChunk(chunk)
  /\ UNCHANGED <<opts, snapshot, summary, outcome>>

NextChunk ==
  /\ chunk \in 1..(Len(Chunks) - 1) /\ outcome = "running" /\ ChunkIsDone
  /\ EnterChunk(chunk + 1)
  /\ UNCHANGED <<opts, snapshot, summary, outcome>>

\* hasCommand
NothingRan == opts.cmd = "run" /\ \A t \in Tasks : task[t] = "none"

\* After the last chunk: no script at all may be an error (if every project
\* was selected, without --if-present), the summary is written, and
\* throwOnCommandFail decides by it.
Finish ==
  /\ chunk = Len(Chunks) /\ outcome = "running" /\ ChunkIsDone
  /\ \/ NothingRan /\ outcome' = "exited" /\ UNCHANGED summary
     \/ /\ summary' = IF opts.report THEN [failed |-> Failures] ELSE summary
        /\ outcome' = IF Failures = {} THEN "resolved" ELSE "rejected"
  /\ UNCHANGED <<opts, chunk, task, result, snapshot>>

\* errorHandler kills the scripts that still run and exits.
ExitProcess ==
  /\ outcome = "rejected"
  /\ outcome' = "exited"
  /\ UNCHANGED <<opts, chunk, task, result, snapshot, summary>>

TaskStep(t) == StartTask(t) \/ TaskPasses(t) \/ TaskFails(t) \/ TakeSummary(t) \/ Throw(t)
Step == Begin \/ NextChunk \/ Finish \/ ExitProcess \/ \E t \in Tasks : TaskStep(t)
Stopped == outcome \in {"resolved", "exited"} /\ UNCHANGED runVars
Next == Step \/ Stopped

\* Scripts end, and the event loop does not stop while work is left.
SafetySpec == Init /\ [][Next]_runVars
Spec == SafetySpec /\ WF_runVars(Step)

-----------------------------------------------------------------------------
\* Properties

\* A script runs only when those of its project's dependencies have ended
\* (those of its dependents under --reverse), and have passed if a failure
\* bails: the order sort-packages promises, over chunks that overlap in time
\* only through p-limit.
DependenciesFirst ==
  \A t \in Tasks : task[t] \notin {"none", "queued"} =>
    \A u \in Tasks :
      /\ u[1] \in InSummary
      /\ IF opts.reverse THEN t[1] \in Edges(u[1]) ELSE u[1] \in Edges(t[1])
      => task[u] = "ok" \/ (task[u] = "failed" /\ ~opts.bail)

\* The command succeeds only if every script passed, when failures bail or
\* when no project runs more than one script.  (With several matched scripts
\* and --no-bail the status of the last one replaces a failure, 130 and 158.)
SuccessMeansAllPassed ==
  outcome = "resolved" =>
    \A t \in Tasks : /\ t[1] \in InSummary
                     /\ opts.bail \/ Cardinality(SelectedScripts(t[1])) = 1
                     => task[t] = "ok"

\* A run that stops at a failure leaves a summary with a failure in it, for
\* the run that resumes from there: also when two tasks fail at once and the
\* older snapshot is written last.
FailureIsInTheSummary ==
  /\ outcome \in {"rejected", "exited"} /\ opts.report
  /\ \E t \in Tasks : task[t] = "failed"
  /\ \A p \in Projects : Cardinality(SelectedScripts(p)) <= 1
  => summary # <<>> /\ summary.failed # {}

\* The command comes to an end: no task keeps a slot of p-limit for ever.
CommandEnded == outcome \in {"resolved", "exited"}
=============================================================================
