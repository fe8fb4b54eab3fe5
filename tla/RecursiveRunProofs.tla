------------------------- MODULE RecursiveRunProofs -------------------------
(***************************************************************************)
(* Proofs about RecursiveRun, for any projects, acyclic order, scripts and *)
(* concurrency: the order of the scripts, the verdict of the command, and  *)
(* the summary a later run resumes from; and about Rebuild, for any        *)
(* projects, packages without cycles and targets: what the walk of a       *)
(* lockfile, the chunks and the groups are, which builds have ended when a *)
(* script starts, and what the state files still mention.                  *)
(***************************************************************************)
EXTENDS InstallProofs, FiniteSetTheorems, TLAPS

-----------------------------------------------------------------------------
\* The chunks

Order == IF opts.reverse THEN [i \in DOMAIN Sorted |-> Sorted[Len(Sorted) + 1 - i]] ELSE Sorted

\* A chunk is one of the sorted ones, counted from the other end if reversed.
Place(i) == IF opts.reverse THEN Len(Sorted) + 2 - opts.resume - i ELSE opts.resume + i - 1

LEMMA ChunkPlaces ==
  ASSUME Run!RunAssumption, opts \in Run!Commands
  PROVE  /\ Run!Chunks \in Seq(SUBSET RunProjects) /\ Len(Run!Chunks) \in Nat \ {0}
         /\ \A i \in 1..Len(Run!Chunks) : Place(i) \in DOMAIN Sorted /\ Run!Chunks[i] = Sorted[Place(i)]
<1>1. Sorted \in Seq(SUBSET RunProjects) /\ Len(Sorted) \in Nat /\ DOMAIN Sorted = 1..Len(Sorted)
  BY DEF Run!RunAssumption
<1>2. opts.resume \in 1..Len(Sorted) /\ opts.reverse \in BOOLEAN
  BY DEF Run!Commands
<1>3. /\ Order \in Seq(SUBSET RunProjects) /\ Len(Order) = Len(Sorted)
      /\ \A k \in 1..Len(Sorted) :
           Order[k] = Sorted[IF opts.reverse THEN Len(Sorted) + 1 - k ELSE k]
  <2>1. CASE opts.reverse
    <3>1. \A k \in 1..Len(Sorted) : Len(Sorted) + 1 - k \in 1..Len(Sorted)
      BY <1>1
    <3>2. Order \in [1..Len(Sorted) -> SUBSET RunProjects]
      BY <1>1, <2>1, <3>1 DEF Order
    <3> QED BY <1>1, <2>1, <3>2 DEF Order
  <2>2. CASE ~opts.reverse
    BY <1>1, <2>2 DEF Order
  <2> QED BY <2>1, <2>2
<1>4. Run!Chunks = SubSeq(Order, opts.resume, Len(Order))
  BY DEF Run!Chunks, Order
<1>5. /\ Run!Chunks \in Seq(SUBSET RunProjects)
      /\ Len(Run!Chunks) = Len(Sorted) - opts.resume + 1
      /\ \A i \in 1..Len(Run!Chunks) : Run!Chunks[i] = Order[opts.resume + i - 1]
  BY <1>1, <1>2, <1>3, <1>4
<1>6. ASSUME NEW i \in 1..Len(Run!Chunks)
      PROVE  Place(i) \in DOMAIN Sorted /\ Run!Chunks[i] = Sorted[Place(i)]
  <2>1. opts.resume + i - 1 \in 1..Len(Sorted)
    BY <1>1, <1>2, <1>5
  <2>2. Run!Chunks[i] = Sorted[IF opts.reverse THEN Len(Sorted) + 1 - (opts.resume + i - 1)
                               ELSE opts.resume + i - 1]
    BY <1>3, <1>5, <2>1
  <2>3. CASE opts.reverse
    <3>1. Len(Sorted) + 1 - (opts.resume + i - 1) = Place(i) /\ Place(i) \in 1..Len(Sorted)
      BY <1>1, <1>2, <2>1, <2>3 DEF Place
    <3> QED BY <1>1, <2>2, <2>3, <3>1
  <2>4. CASE ~opts.reverse
    BY <1>1, <2>1, <2>2, <2>4 DEF Place
  <2> QED BY <2>3, <2>4
<1> QED BY <1>1, <1>2, <1>5, <1>6

\* No project is in two chunks, and what a project waits for is in an earlier
\* one.
LEMMA ChunksInOrder ==
  ASSUME Run!RunAssumption, opts \in Run!Commands,
         NEW i \in 1..Len(Run!Chunks), NEW j \in 1..Len(Run!Chunks), NEW p \in Run!Chunks[i], NEW d \in Run!Chunks[j]
  PROVE  /\ p = d => i = j
         /\ (IF opts.reverse THEN p \in Run!Edges(d) ELSE d \in Run!Edges(p)) => j < i
<1>1. /\ Place(i) \in DOMAIN Sorted /\ Place(j) \in DOMAIN Sorted
      /\ p \in Sorted[Place(i)] /\ d \in Sorted[Place(j)]
  BY ChunkPlaces
<1>2. Len(Sorted) \in Nat /\ opts.resume \in Nat /\ i \in Nat /\ j \in Nat /\ DOMAIN Sorted = 1..Len(Sorted)
      /\ opts.reverse \in BOOLEAN
  BY ChunkPlaces DEF Run!Commands, Run!RunAssumption
<1>3. p = d => Place(i) = Place(j)
  BY <1>1 DEF Run!RunAssumption
<1>4. /\ d \in Run!Edges(p) => Place(j) < Place(i)
      /\ p \in Run!Edges(d) => Place(i) < Place(j)
  BY <1>1 DEF Run!RunAssumption
<1>5. CASE opts.reverse
  <2>1. Place(i) = Len(Sorted) + 2 - opts.resume - i /\ Place(j) = Len(Sorted) + 2 - opts.resume - j
    BY <1>5 DEF Place
  <2> QED BY <1>2, <1>3, <1>4, <1>5, <2>1
<1>6. CASE ~opts.reverse
  <2>1. Place(i) = opts.resume + i - 1 /\ Place(j) = opts.resume + j - 1
    BY <1>6 DEF Place
  <2> QED BY <1>2, <1>3, <1>4, <1>6, <2>1
<1> QED BY <1>5, <1>6
-----------------------------------------------------------------------------
\* The invariant

Quiet == {"none", "ok", "failed"}
TaskStates == {"none", "queued", "running", "failing", "reporting", "ok", "failed"}

Types ==
  /\ opts \in Run!Commands
  /\ chunk \in 0..Len(Run!Chunks)
  /\ task \in [RunProjects \X Run!Scripts -> TaskStates]
  /\ result \in [RunProjects -> {"queued", "skipped", "running", "passed", "failure"}]
  /\ snapshot \in [RunProjects \X Run!Scripts -> SUBSET RunProjects]

\* A task that is not "none" belongs to a chunk that was entered; those of the
\* chunks before the one that runs have ended.
TasksFollowChunks ==
  /\ \A t \in Run!Tasks : task[t] # "none" => \E i \in 1..chunk : t[1] \in Run!Chunks[i]
  /\ \A i \in 1..Len(Run!Chunks) : i < chunk => \A t \in Run!TasksOf(i) : task[t] \in Run!Ended

\* With bail a failure and an outcome come together, and no chunk is entered
\* after one.
BailStops ==
  /\ opts.bail /\ outcome \in {"running", "resolved"} => \A t \in Run!Tasks : task[t] # "failed"
  /\ opts.bail => \A i \in 1..Len(Run!Chunks) : i < chunk => \A t \in Run!TasksOf(i) : task[t] = "ok"
  /\ ~opts.bail => \A t \in Run!Tasks : task[t] \notin {"failing", "reporting"}
  /\ outcome = "resolved" \/ (~opts.bail /\ outcome # "running") =>
       \A t \in Run!Tasks : task[t] \in Quiet

\* What is selected in p is at most the script s.
OnlyScript(p, s) == Run!SelectedScripts(p) = {s}

\* The status of a project with one script is that of the script.
StatusOfOne ==
  \A t \in Run!Tasks : OnlyScript(t[1], t[2]) =>
    /\ task[t] \in {"failed", "failing", "reporting"} => result[t[1]] = "failure"
    /\ task[t] = "reporting" => t[1] \in snapshot[t]

OneEach == \A t \in Run!Tasks : OnlyScript(t[1], t[2])
HasFailure == summary # <<>> /\ summary.failed # {}

\* The verdict, and the summary.
Verdict ==
  /\ outcome = "resolved" =>
       \A t \in Run!Tasks : t[1] \in Run!InSummary /\ (opts.bail \/ OnlyScript(t[1], t[2])) => task[t] = "ok"
  /\ OneEach /\ opts.report /\ (\E t \in Run!Tasks : task[t] = "failed")
     /\ (opts.bail \/ outcome \in {"rejected", "exited"}) => HasFailure

RunInv == Types /\ TasksFollowChunks /\ BailStops /\ StatusOfOne /\ Verdict

\* The counts of the run's model are those of the library.
LEMMA ScriptsAreCounted ==
  ASSUME NEW S
  PROVE  Run!Cardinality(S) = Cardinality(S) /\ (Run!IsFiniteSet(S) <=> IsFiniteSet(S))
<1>1. Run!Cardinality(S) = Cardinality(S)
  BY Zenon DEF Run!Cardinality, Cardinality
<1>2. Run!IsFiniteSet(S) <=> IsFiniteSet(S)
  BY Zenon DEF Run!IsFiniteSet, IsFiniteSet
<1> QED BY <1>1, <1>2

\* At most one script, and one of them: it is the only one.
LEMMA OneScript ==
  ASSUME Run!RunAssumption, NEW t \in Run!Tasks, opts \in Run!Commands,
         Cardinality(Run!SelectedScripts(t[1])) <= 1
  PROVE  OnlyScript(t[1], t[2])
<1>1. t[1] \in RunProjects /\ t[2] \in Run!SelectedScripts(t[1])
  BY DEF Run!Tasks
<1>2. IsFiniteSet({"command"})
  BY FS_Singleton
<1>3. IsFiniteSet(Run!SelectedScripts(t[1]))
  <2>1. IsFiniteSet(Matches[t[1]])
    BY <1>1, ScriptsAreCounted DEF Run!RunAssumption
  <2>2. CASE opts.cmd = "exec"
    BY <1>2, <2>2 DEF Run!SelectedScripts
  <2>3. CASE opts.cmd # "exec"
    BY <2>1, <2>3 DEF Run!SelectedScripts
  <2> QED BY <2>2, <2>3
<1>4. Cardinality(Run!SelectedScripts(t[1])) \in Nat
  BY <1>3, FS_CardinalityType
<1>5. Run!SelectedScripts(t[1]) # {}
  BY <1>1
<1>6. Cardinality(Run!SelectedScripts(t[1])) # 0
  BY <1>3, <1>5, FS_EmptySet
<1>7. Cardinality(Run!SelectedScripts(t[1])) = 1
  BY <1>4, <1>6
<1>8. PICK x : Run!SelectedScripts(t[1]) = {x}
  BY <1>3, <1>7, FS_Singleton
<1> QED BY <1>1, <1>8 DEF OnlyScript

\* Where a task is, and that only one task of such a project exists.
LEMMA OneTask ==
  ASSUME NEW t \in Run!Tasks, NEW u \in Run!Tasks, OnlyScript(u[1], u[2]), t[1] = u[1]
  PROVE  t = u
BY DEF Run!Tasks, OnlyScript

-----------------------------------------------------------------------------
\* The steps

LEMMA InitInv ==
  ASSUME Run!RunAssumption, Run!Init
  PROVE  RunInv
<1>1. Len(Run!Chunks) \in Nat \ {0}
  BY ChunkPlaces DEF Run!Init
<1>2. \A t \in Run!Tasks : task[t] = "none"
  BY DEF Run!Init, Run!Tasks
<1> QED BY <1>1, <1>2 DEF Run!Init, RunInv, Types, TaskStates, TasksFollowChunks, BailStops, Quiet,
        StatusOfOne, Verdict, OneEach

\* What stays when the flags do.
LEMMA SameOpts ==
  ASSUME opts' = opts
  PROVE  /\ Run!Tasks' = Run!Tasks /\ Run!Chunks' = Run!Chunks /\ Run!InSummary' = Run!InSummary
         /\ \A i : Run!TasksOf(i)' = Run!TasksOf(i)
         /\ \A p, s : OnlyScript(p, s)' = OnlyScript(p, s)
         /\ OneEach' = OneEach
<1>1. \A p : Run!SelectedScripts(p)' = Run!SelectedScripts(p)
  BY DEF Run!SelectedScripts
<1>2. Run!Tasks' = Run!Tasks
  BY <1>1 DEF Run!Tasks
<1>3. Run!Chunks' = Run!Chunks
  BY DEF Run!Chunks
<1>4. \A p, s : OnlyScript(p, s)' = OnlyScript(p, s)
  BY <1>1 DEF OnlyScript
<1> QED BY <1>2, <1>3, <1>4 DEF Run!InSummary, Run!TasksOf, OneEach

\* A chunk is entered when the one before it is done.
LEMMA EnteringIsSafe ==
  ASSUME Run!RunAssumption, RunInv, outcome = "running", NEW i \in 1..Len(Run!Chunks), i = chunk + 1,
         chunk # 0 => Run!ChunkIsDone, Run!EnterChunk(i), UNCHANGED <<opts, snapshot, summary, outcome>>
  PROVE  RunInv'
<1> USE DEF RunInv
<1>1. Run!Tasks' = Run!Tasks /\ Run!Chunks' = Run!Chunks /\ Run!InSummary' = Run!InSummary
      /\ (\A k : Run!TasksOf(k)' = Run!TasksOf(k)) /\ (\A p, s : OnlyScript(p, s)' = OnlyScript(p, s)) /\ OneEach' = OneEach
  BY SameOpts
<1>2. Len(Run!Chunks) \in Nat \ {0} /\ chunk \in Nat /\ chunk' = i
  BY ChunkPlaces DEF Types, Run!EnterChunk
<1>3. \A t \in Run!Tasks : t \in RunProjects \X Run!Scripts /\ t[1] \in RunProjects
  BY DEF Run!Tasks
<1>4. \A t \in Run!Tasks : task'[t] = IF t \in Run!TasksOf(i) THEN "queued" ELSE task[t]
  BY <1>3 DEF Run!EnterChunk, Types
<1>5. Types'
  <2>1. task' \in [RunProjects \X Run!Scripts -> TaskStates]
    BY DEF Run!EnterChunk, Types, TaskStates
  <2>2. result' \in [RunProjects -> {"queued", "skipped", "running", "passed", "failure"}]
    BY DEF Run!EnterChunk, Types
  <2> QED BY <1>1, <1>2, <2>1, <2>2 DEF Types
<1>6. \A t \in Run!TasksOf(i) : task[t] = "none"
  <2> SUFFICES ASSUME NEW t \in Run!TasksOf(i), task[t] # "none"  PROVE FALSE
    OBVIOUS
  <2>1. t \in Run!Tasks /\ t[1] \in Run!Chunks[i]
    BY DEF Run!TasksOf
  <2>2. PICK k \in 1..chunk : t[1] \in Run!Chunks[k]
    BY <2>1 DEF TasksFollowChunks
  <2>3. k \in 1..Len(Run!Chunks) /\ k # i
    BY <1>2, <2>2
  <2> QED BY <2>1, <2>2, <2>3, ChunksInOrder DEF Types
<1>7. \A k \in 1..Len(Run!Chunks) : k < i => \A t \in Run!TasksOf(k) : t \in Run!Tasks /\ t \notin Run!TasksOf(i)
  <2> SUFFICES ASSUME NEW k \in 1..Len(Run!Chunks), k < i, NEW t \in Run!TasksOf(k), t \in Run!TasksOf(i)
               PROVE FALSE
    BY DEF Run!TasksOf
  <2>1. t[1] \in Run!Chunks[i] /\ t[1] \in Run!Chunks[k] /\ k # i
    BY <1>2 DEF Run!TasksOf
  <2> QED BY <2>1, ChunksInOrder DEF Types
<1>8. \A k \in 1..Len(Run!Chunks) : k < i =>
        \A t \in Run!TasksOf(k) : task'[t] = task[t] /\ task[t] \in Run!Ended
  <2> SUFFICES ASSUME NEW k \in 1..Len(Run!Chunks), k < i, NEW t \in Run!TasksOf(k)
               PROVE task'[t] = task[t] /\ task[t] \in Run!Ended
    OBVIOUS
  <2>1. k < chunk \/ k = chunk
    BY <1>2
  <2>2. task[t] \in Run!Ended
    BY <1>2, <2>1 DEF TasksFollowChunks, Run!ChunkIsDone
  <2> QED BY <1>4, <1>7, <2>2
<1>9. TasksFollowChunks'
  <2>1. ASSUME NEW t \in Run!Tasks, task'[t] # "none"  PROVE \E k \in 1..i : t[1] \in Run!Chunks[k]
    <3>1. CASE t \in Run!TasksOf(i)
      BY <3>1, <1>2 DEF Run!TasksOf
    <3>2. CASE t \notin Run!TasksOf(i)
      <4>1. PICK k \in 1..chunk : t[1] \in Run!Chunks[k]
        BY <1>4, <2>1, <3>2 DEF TasksFollowChunks
      <4>2. k \in 1..i
        BY <1>2, <4>1
      <4> QED BY <4>1, <4>2
    <3> QED BY <3>1, <3>2
  <2> QED BY <1>1, <1>2, <1>8, <2>1 DEF TasksFollowChunks
<1>10. BailStops'
  <2>1. opts.bail /\ outcome \in {"running", "resolved"} => \A t \in Run!Tasks : task'[t] # "failed"
    BY <1>4 DEF BailStops
  <2>2. opts.bail => \A k \in 1..Len(Run!Chunks) : k < i => \A t \in Run!TasksOf(k) : task'[t] = "ok"
    <3> SUFFICES ASSUME opts.bail, NEW k \in 1..Len(Run!Chunks), k < i, NEW t \in Run!TasksOf(k)
                 PROVE task'[t] = "ok"
      OBVIOUS
    <3>1. t \in Run!Tasks /\ task'[t] = task[t] /\ task[t] \in Run!Ended
      BY <1>7, <1>8
    <3>2. task[t] # "failed"
      BY <3>1 DEF BailStops
    <3> QED BY <3>1, <3>2 DEF Run!Ended
  <2>3. ~opts.bail => \A t \in Run!Tasks : task'[t] \notin {"failing", "reporting"}
    BY <1>4 DEF BailStops
  <2> QED BY <1>1, <1>2, <2>1, <2>2, <2>3 DEF BailStops
<1>11. \A t \in Run!Tasks : result'[t[1]] = result[t[1]]
  <2> SUFFICES ASSUME NEW t \in Run!Tasks  PROVE result'[t[1]] = result[t[1]]
    OBVIOUS
  <2>1. Run!SelectedScripts(t[1]) # {}
    BY DEF Run!Tasks
  <2> QED BY <1>3, <2>1 DEF Run!EnterChunk
<1>12. StatusOfOne'
  <2>1. snapshot' = snapshot
    OBVIOUS
  <2>2. \A t \in Run!Tasks : task'[t] \in {"failed", "failing", "reporting"} => task[t] = task'[t]
    BY <1>4
  <2> QED BY <1>1, <1>11, <2>1, <2>2 DEF StatusOfOne
<1>13. Verdict'
  <2>1. \A t \in Run!Tasks : task'[t] = "failed" => task[t] = "failed"
    BY <1>4
  <2>2. HasFailure' = HasFailure
    BY DEF HasFailure
  <2> QED BY <1>1, <2>1, <2>2 DEF Verdict
<1> QED BY <1>5, <1>9, <1>10, <1>12, <1>13

\* A step of one task: what it needs to keep the invariant is that the new
\* state of the task, its status and its snapshot agree.
LEMMA TaskStepIsSafe ==
  ASSUME Run!RunAssumption, RunInv, outcome # "exited", NEW t \in Run!Tasks, Run!TaskStep(t)
  PROVE  RunInv'
<1> USE DEF RunInv
<1>1. UNCHANGED <<opts, chunk>>
  BY DEF Run!TaskStep, Run!StartTask, Run!TaskPasses, Run!TaskFails, Run!TakeSummary, Run!Throw
<1>2. Run!Tasks' = Run!Tasks /\ Run!Chunks' = Run!Chunks /\ Run!InSummary' = Run!InSummary
      /\ (\A k : Run!TasksOf(k)' = Run!TasksOf(k)) /\ (\A p, s : OnlyScript(p, s)' = OnlyScript(p, s)) /\ OneEach' = OneEach
  BY <1>1, SameOpts
<1>3. \A u \in Run!Tasks : u \in RunProjects \X Run!Scripts /\ u[1] \in RunProjects
  BY DEF Run!Tasks
<1>4. task[t] \in {"queued", "running", "failing", "reporting"}
  BY DEF Run!TaskStep, Run!StartTask, Run!TaskPasses, Run!TaskFails, Run!TakeSummary, Run!Throw
<1>5. PICK new \in TaskStates \ {"none", "queued"} : task' = [task EXCEPT ![t] = new]
  <2>1. CASE Run!StartTask(t)
    BY <2>1 DEF Run!StartTask, TaskStates
  <2>2. CASE Run!TaskPasses(t)
    BY <2>2 DEF Run!TaskPasses, TaskStates
  <2>3. CASE Run!TaskFails(t)
    <3>1. CASE opts.bail
      BY <2>3, <3>1 DEF Run!TaskFails, TaskStates
    <3>2. CASE ~opts.bail
      BY <2>3, <3>2 DEF Run!TaskFails, TaskStates
    <3> QED BY <3>1, <3>2
  <2>4. CASE Run!TakeSummary(t)
    BY <2>4 DEF Run!TakeSummary, TaskStates
  <2>5. CASE Run!Throw(t)
    BY <2>5 DEF Run!Throw, TaskStates
  <2> QED BY <2>1, <2>2, <2>3, <2>4, <2>5 DEF Run!TaskStep
<1>6. task'[t] = new /\ \A u \in Run!Tasks \ {t} : task'[u] = task[u]
  BY <1>3, <1>5 DEF Types
<1>7. Types'
  <2>1. task' \in [RunProjects \X Run!Scripts -> TaskStates]
    BY <1>5 DEF Types
  <2>2. result' \in [RunProjects -> {"queued", "skipped", "running", "passed", "failure"}]
    BY <1>3 DEF Types, Run!TaskStep, Run!StartTask, Run!TaskPasses, Run!TaskFails, Run!TakeSummary, Run!Throw
  <2>3. snapshot' \in [RunProjects \X Run!Scripts -> SUBSET RunProjects]
    <3>1. CASE Run!TakeSummary(t)
      <4>1. Run!Failures \in SUBSET RunProjects
        BY ChunkPlaces DEF Run!Failures, Run!InSummary, Types
      <4> QED BY <1>3, <3>1, <4>1 DEF Types, Run!TakeSummary
    <3>2. CASE ~Run!TakeSummary(t)
      BY <3>2 DEF Types, Run!TaskStep, Run!StartTask, Run!TaskPasses, Run!TaskFails, Run!Throw
    <3> QED BY <3>1, <3>2
  <2> QED BY <1>1, <1>2, <2>1, <2>2, <2>3 DEF Types
\* The task is in the chunk that runs.
<1>8. \A i \in 1..Len(Run!Chunks) : i < chunk => t \notin Run!TasksOf(i)
  BY <1>4 DEF TasksFollowChunks, Run!Ended
<1>9. PICK i \in 1..chunk : t[1] \in Run!Chunks[i]
  BY <1>4 DEF TasksFollowChunks
<1>10. Len(Run!Chunks) \in Nat /\ chunk \in Nat /\ i \in 1..Len(Run!Chunks) /\ t[1] \in Run!InSummary
  BY <1>9, ChunkPlaces DEF Types, Run!InSummary
<1>11. TasksFollowChunks'
  <2>1. \A u \in Run!Tasks : task'[u] # "none" => \E k \in 1..chunk : u[1] \in Run!Chunks[k]
    BY <1>6, <1>9 DEF TasksFollowChunks
  <2>2. ASSUME NEW k \in 1..Len(Run!Chunks), k < chunk, NEW u \in Run!TasksOf(k)
        PROVE  task'[u] \in Run!Ended
    BY <1>6, <1>8, <2>2 DEF TasksFollowChunks, Run!TasksOf
  <2> QED BY <1>1, <1>2, <2>1, <2>2 DEF TasksFollowChunks
<1>12. outcome # "resolved" /\ (~opts.bail => outcome = "running")
  BY <1>4 DEF BailStops, Quiet
<1>13. BailStops'
  <2>1. opts.bail => (new = "failed" => outcome' \notin {"running", "resolved"})
    BY <1>3, <1>5, <1>6, <1>12 DEF Run!TaskStep, Run!StartTask, Run!TaskPasses, Run!TaskFails, Run!TakeSummary, Run!Throw
  <2>2. outcome' = outcome \/ (opts.bail /\ outcome' = "rejected")
    <3>1. CASE Run!Throw(t)
      BY <3>1, <1>4, <1>12 DEF Run!Throw, BailStops
    <3>2. CASE ~Run!Throw(t)
      BY <3>2 DEF Run!TaskStep, Run!StartTask, Run!TaskPasses, Run!TaskFails, Run!TakeSummary
    <3> QED BY <3>1, <3>2
  <2>3. opts.bail /\ outcome' \in {"running", "resolved"} => \A u \in Run!Tasks : task'[u] # "failed"
    BY <1>6, <2>1, <2>2 DEF BailStops
  <2>4. opts.bail => \A k \in 1..Len(Run!Chunks) : k < chunk => \A u \in Run!TasksOf(k) : task'[u] = "ok"
    BY <1>6, <1>8 DEF BailStops, Run!TasksOf
  <2>5. ~opts.bail => new \notin {"failing", "reporting"}
    <3>1. CASE Run!TaskFails(t)
      BY <1>5, <1>6, <1>3, <3>1 DEF Run!TaskFails, Types
    <3>2. CASE Run!TakeSummary(t)
      BY <3>2 DEF Run!TakeSummary, BailStops
    <3>3. CASE ~Run!TaskFails(t) /\ ~Run!TakeSummary(t)
      BY <3>3, <1>3, <1>5, <1>6 DEF Run!TaskStep, Run!StartTask, Run!TaskPasses, Run!Throw, Types
    <3> QED BY <3>1, <3>2, <3>3
  <2>6. ~opts.bail => \A u \in Run!Tasks : task'[u] \notin {"failing", "reporting"}
    BY <1>6, <2>5 DEF BailStops
  <2>7. outcome' # "resolved" /\ (~opts.bail => outcome' = "running")
    BY <1>12, <2>2
  <2> QED BY <1>1, <1>2, <2>3, <2>4, <2>6, <2>7 DEF BailStops
<1>14. \A u \in Run!Tasks : u[1] # t[1] => result'[u[1]] = result[u[1]]
  BY <1>3 DEF Types, Run!TaskStep, Run!StartTask, Run!TaskPasses, Run!TaskFails, Run!TakeSummary, Run!Throw
<1>15. \A u \in Run!Tasks \ {t} : snapshot'[u] = snapshot[u]
  BY <1>3 DEF Types, Run!TaskStep, Run!StartTask, Run!TaskPasses, Run!TaskFails, Run!TakeSummary, Run!Throw
<1>16. OnlyScript(t[1], t[2]) =>
         /\ new \in {"failed", "failing", "reporting"} => result'[t[1]] = "failure"
         /\ new = "reporting" => t[1] \in snapshot'[t]
  <2> SUFFICES ASSUME OnlyScript(t[1], t[2])
               PROVE  /\ new \in {"failed", "failing", "reporting"} => result'[t[1]] = "failure"
                      /\ new = "reporting" => t[1] \in snapshot'[t]
    OBVIOUS
  <2>1. CASE Run!StartTask(t)
    BY <2>1, <1>3, <1>6 DEF Run!StartTask, Types
  <2>2. CASE Run!TaskPasses(t)
    BY <2>2, <1>3, <1>6 DEF Run!TaskPasses, Types
  <2>3. CASE Run!TaskFails(t)
    <3>1. result'[t[1]] = "failure"
      BY <2>3, <1>3 DEF Run!TaskFails, Types
    <3>2. new # "reporting"
      <4>1. CASE opts.bail
        BY <4>1, <2>3, <1>3, <1>6 DEF Run!TaskFails, Types
      <4>2. CASE ~opts.bail
        BY <4>2, <2>3, <1>3, <1>6 DEF Run!TaskFails, Types
      <4> QED BY <4>1, <4>2
    <3> QED BY <3>1, <3>2
  <2>4. CASE Run!TakeSummary(t)
    <3>1. result'[t[1]] = "failure" /\ result[t[1]] = "failure"
      BY <2>4 DEF Run!TakeSummary, StatusOfOne
    <3>2. snapshot'[t] = Run!Failures
      BY <2>4, <1>3 DEF Run!TakeSummary, Types
    <3>3. t[1] \in Run!Failures
      BY <1>10, <3>1 DEF Run!Failures
    <3> QED BY <3>1, <3>2, <3>3
  <2>5. CASE Run!Throw(t)
    <3>1. result'[t[1]] = "failure"
      <4>1. task[t] \in {"failing", "reporting"}
        BY <2>5 DEF Run!Throw
      <4>2. result[t[1]] = "failure"
        BY <4>1 DEF StatusOfOne
      <4> QED BY <2>5, <4>2 DEF Run!Throw
    <3>2. new # "reporting"
      BY <2>5, <1>3, <1>6 DEF Run!Throw, Types
    <3> QED BY <3>1, <3>2
  <2> QED BY <2>1, <2>2, <2>3, <2>4, <2>5 DEF Run!TaskStep
<1>17. StatusOfOne'
  <2> SUFFICES ASSUME NEW u \in Run!Tasks, OnlyScript(u[1], u[2])
               PROVE  /\ task'[u] \in {"failed", "failing", "reporting"} => result'[u[1]] = "failure"
                      /\ task'[u] = "reporting" => u[1] \in snapshot'[u]
    BY <1>2 DEF StatusOfOne
  <2>1. CASE u = t
    BY <2>1, <1>6, <1>16
  <2>2. CASE u # t
    <3>1. u[1] # t[1]
      BY <2>2, OneTask
    <3> QED BY <2>2, <3>1, <1>6, <1>14, <1>15 DEF StatusOfOne
  <2> QED BY <2>1, <2>2
<1>18. Verdict'
  <2>1. outcome' # "resolved"
    BY <1>12 DEF Run!TaskStep, Run!StartTask, Run!TaskPasses, Run!TaskFails, Run!TakeSummary, Run!Throw
  <2>2. ASSUME OneEach, opts.report, NEW u \in Run!Tasks, task'[u] = "failed",
               opts.bail \/ outcome' \in {"rejected", "exited"}
        PROVE  HasFailure'
    <3>1. CASE Run!Throw(t)
      <4>1. task[t] = "reporting" /\ summary' = [failed |-> snapshot[t]]
        BY <2>2, <3>1 DEF Run!Throw
      <4>2. t[1] \in snapshot[t]
        BY <2>2, <4>1 DEF StatusOfOne, OneEach
      <4>3. summary'.failed = snapshot[t] /\ summary' # <<>>
        BY <4>1
      <4> QED BY <4>2, <4>3 DEF HasFailure
    <3>2. CASE ~Run!Throw(t)
      <4>1. summary' = summary /\ outcome' = outcome
        BY <3>2 DEF Run!TaskStep, Run!StartTask, Run!TaskPasses, Run!TaskFails, Run!TakeSummary
      <4>2. opts.bail
        BY <2>2, <4>1, <1>12
      <4>3. new # "failed"
        BY <3>2, <4>2, <1>3, <1>6 DEF Run!TaskStep, Run!StartTask, Run!TaskPasses, Run!TaskFails, Run!TakeSummary, Types
      <4>4. task[u] = "failed"
        BY <2>2, <4>3, <1>6
      <4>5. HasFailure
        BY <2>2, <4>2, <4>4 DEF Verdict
      <4> QED BY <4>1, <4>5 DEF HasFailure
    <3> QED BY <3>1, <3>2
  <2> QED BY <1>1, <1>2, <2>1, <2>2 DEF Verdict
<1> QED BY <1>7, <1>11, <1>13, <1>17, <1>18

\* When the last chunk is done every task of the summary has ended, and all
\* the others were never queued.
LEMMA LastChunk ==
  ASSUME Run!RunAssumption, RunInv, chunk = Len(Run!Chunks), Run!ChunkIsDone
  PROVE  \A t \in Run!Tasks : /\ task[t] \in Quiet
                              /\ t[1] \in Run!InSummary => task[t] \in Run!Ended
<1> USE DEF RunInv
<1>1. Len(Run!Chunks) \in Nat \ {0} /\ DOMAIN Run!Chunks = 1..Len(Run!Chunks)
  BY ChunkPlaces DEF Types
<1>2. ASSUME NEW i \in 1..Len(Run!Chunks), NEW t \in Run!Tasks, t[1] \in Run!Chunks[i]
      PROVE  task[t] \in Run!Ended
  <2>1. t \in Run!TasksOf(i)
    BY <1>2 DEF Run!TasksOf
  <2>2. CASE i < chunk
    BY <2>1, <2>2 DEF TasksFollowChunks
  <2>3. CASE i = chunk
    BY <2>1, <2>3 DEF Run!ChunkIsDone
  <2> QED BY <1>1, <2>2, <2>3
<1>3. ASSUME NEW t \in Run!Tasks, task[t] # "none"  PROVE task[t] \in Run!Ended
  BY <1>2, <1>3 DEF TasksFollowChunks
<1> QED BY <1>1, <1>2, <1>3 DEF Run!InSummary, Quiet, Run!Ended

LEMMA FinishIsSafe ==
  ASSUME Run!RunAssumption, RunInv, Run!Finish
  PROVE  RunInv'
<1> USE DEF RunInv
<1>1. UNCHANGED <<opts, chunk, task, result, snapshot>> /\ outcome = "running"
  BY DEF Run!Finish
<1>2. Run!Tasks' = Run!Tasks /\ Run!Chunks' = Run!Chunks /\ Run!InSummary' = Run!InSummary
      /\ (\A k : Run!TasksOf(k)' = Run!TasksOf(k)) /\ (\A p, s : OnlyScript(p, s)' = OnlyScript(p, s)) /\ OneEach' = OneEach
  BY <1>1, SameOpts
<1>3. \A t \in Run!Tasks : /\ task[t] \in Quiet
                           /\ t[1] \in Run!InSummary => task[t] \in Run!Ended
  BY LastChunk DEF Run!Finish
<1>4. opts.bail => \A t \in Run!Tasks : task[t] # "failed"
  BY <1>1 DEF BailStops
<1>5. ASSUME NEW t \in Run!Tasks, OnlyScript(t[1], t[2]), task[t] = "failed"
      PROVE  Run!Failures # {} /\ ~Run!NothingRan
  <2>1. result[t[1]] = "failure"
    BY <1>5 DEF StatusOfOne
  <2>2. t[1] \in Run!InSummary
    <3>1. PICK i \in 1..chunk : t[1] \in Run!Chunks[i]
      BY <1>5 DEF TasksFollowChunks
    <3> QED BY <3>1, ChunkPlaces DEF Run!Finish, Run!InSummary, Types
  <2> QED BY <1>5, <2>1, <2>2 DEF Run!Failures, Run!NothingRan
<1>6. Types' /\ TasksFollowChunks' /\ StatusOfOne'
  BY <1>1, <1>2 DEF Types, TasksFollowChunks, StatusOfOne
<1>7. BailStops'
  BY <1>1, <1>2, <1>3, <1>4 DEF BailStops, Quiet
<1>8. Verdict'
  <2>1. ASSUME outcome' = "resolved", NEW t \in Run!Tasks, t[1] \in Run!InSummary, opts.bail \/ OnlyScript(t[1], t[2])
        PROVE  task[t] = "ok"
    <3>1. Run!Failures = {}
      <4>1. CASE Run!NothingRan /\ outcome' = "exited"
        BY <2>1, <4>1
      <4>2. CASE outcome' = IF Run!Failures = {} THEN "resolved" ELSE "rejected"
        BY <2>1, <4>2
      <4> QED BY <4>1, <4>2 DEF Run!Finish
    <3>2. task[t] # "failed"
      BY <2>1, <3>1, <1>4, <1>5
    <3> QED BY <2>1, <3>2, <1>3 DEF Run!Ended
  <2>2. ASSUME OneEach, opts.report, NEW t \in Run!Tasks, task[t] = "failed"  PROVE HasFailure'
    <3>1. Run!Failures # {} /\ ~Run!NothingRan
      BY <2>2, <1>5 DEF OneEach
    <3>2. summary' = [failed |-> Run!Failures]
      BY <2>2, <3>1 DEF Run!Finish
    <3>3. summary'.failed = Run!Failures /\ summary' # <<>>
      BY <3>2
    <3> QED BY <3>1, <3>3 DEF HasFailure
  <2> QED BY <1>1, <1>2, <2>1, <2>2 DEF Verdict
<1> QED BY <1>6, <1>7, <1>8

LEMMA OthersAreSafe ==
  ASSUME Run!RunAssumption, RunInv, (Run!Begin /\ outcome' = "exited") \/ Run!ExitProcess \/ UNCHANGED Run!runVars
  PROVE  RunInv'
<1> USE DEF RunInv
<1>1. UNCHANGED <<opts, chunk, task, result, snapshot, summary>>
  <2>1. CASE Run!Begin /\ outcome' = "exited"
    BY <2>1 DEF Run!Begin
  <2>2. CASE Run!ExitProcess
    BY <2>2 DEF Run!ExitProcess
  <2>3. CASE UNCHANGED Run!runVars
    BY <2>3 DEF Run!runVars
  <2> QED BY <2>1, <2>2, <2>3
<1>2. Run!Tasks' = Run!Tasks /\ Run!Chunks' = Run!Chunks /\ Run!InSummary' = Run!InSummary
      /\ (\A k : Run!TasksOf(k)' = Run!TasksOf(k)) /\ (\A p, s : OnlyScript(p, s)' = OnlyScript(p, s)) /\ OneEach' = OneEach
  BY <1>1, SameOpts
<1>3. \/ outcome' = outcome
      \/ /\ outcome' = "exited"
         /\ \A t \in Run!Tasks : task[t] = "none"
      \/ outcome = "rejected" /\ outcome' = "exited"
  <2>1. CASE Run!Begin /\ outcome' = "exited"
    <3>1. chunk = 0
      BY <2>1 DEF Run!Begin
    <3>2. \A t \in Run!Tasks : task[t] = "none"
      BY <3>1 DEF TasksFollowChunks
    <3> QED BY <2>1, <3>2
  <2>2. CASE Run!ExitProcess
    BY <2>2 DEF Run!ExitProcess
  <2>3. CASE UNCHANGED Run!runVars
    BY <2>3 DEF Run!runVars
  <2> QED BY <2>1, <2>2, <2>3
<1>4. Types' /\ TasksFollowChunks' /\ StatusOfOne'
  BY <1>1, <1>2 DEF Types, TasksFollowChunks, StatusOfOne
<1>5. BailStops'
  BY <1>1, <1>2, <1>3 DEF BailStops, Quiet
<1>6. HasFailure' = HasFailure
  BY <1>1 DEF HasFailure
<1>7. Verdict'
  BY <1>1, <1>2, <1>3, <1>6 DEF Verdict
<1> QED BY <1>4, <1>5, <1>7

LEMMA NextInv ==
  ASSUME Run!RunAssumption, RunInv, [Run!Next]_Run!runVars
  PROVE  RunInv'
<1>1. Len(Run!Chunks) \in Nat \ {0} /\ chunk \in Nat
  BY ChunkPlaces DEF RunInv, Types
<1>2. CASE Run!Begin
  <2>1. CASE outcome' = "exited"
    BY <1>2, <2>1, OthersAreSafe
  <2>2. CASE outcome' # "exited"
    <3>1. /\ Run!EnterChunk(1) /\ chunk = 0 /\ outcome = "running"
          /\ UNCHANGED <<opts, snapshot, summary, outcome>>
      BY <1>2, <2>2 DEF Run!Begin
    <3>2. 1 \in 1..Len(Run!Chunks) /\ 1 = chunk + 1
      BY <1>1, <3>1
    <3> QED BY <3>1, <3>2, EnteringIsSafe
  <2> QED BY <2>1, <2>2
<1>3. CASE Run!NextChunk
  <2>1. chunk + 1 \in 1..Len(Run!Chunks)
    BY <1>1, <1>3 DEF Run!NextChunk
  <2> QED BY <1>3, <2>1, EnteringIsSafe DEF Run!NextChunk
<1>4. CASE Run!Finish
  BY <1>4, FinishIsSafe
<1>5. CASE Run!ExitProcess
  BY <1>5, OthersAreSafe
<1>6. CASE \E t \in Run!Tasks : Run!TaskStep(t)
  <2>1. PICK t \in Run!Tasks : Run!TaskStep(t)
    BY <1>6
  <2>2. outcome # "exited"
    BY <2>1 DEF Run!TaskStep, Run!StartTask, Run!TaskPasses, Run!TaskFails, Run!TakeSummary, Run!Throw
  <2> QED BY <2>1, <2>2, TaskStepIsSafe
<1>7. CASE UNCHANGED Run!runVars
  BY <1>7, OthersAreSafe
<1> QED BY <1>2, <1>3, <1>4, <1>5, <1>6, <1>7 DEF Run!Next, Run!Step, Run!Stopped

-----------------------------------------------------------------------------
\* The theorems

\* The invariant holds of every run, whatever the flags, the scripts and the
\* order in which p-limit lets them go.
THEOREM RunInvariant ==
  ASSUME Run!RunAssumption
  PROVE  Run!SafetySpec => []RunInv
<1>1. Run!Init => RunInv
  BY InitInv
<1>2. RunInv /\ [Run!Next]_Run!runVars => RunInv'
  BY NextInv
<1> QED BY <1>1, <1>2, PTL DEF Run!SafetySpec

\* What else the type invariant of a run says.
RunTypes ==
  /\ summary = <<>> \/ summary \in [failed : SUBSET RunProjects]
  /\ outcome \in {"running", "resolved", "rejected", "exited"}

LEMMA RunStepTyped == 
  ASSUME Run!RunAssumption, RunInv, RunTypes, [Run!Next]_Run!runVars
  PROVE  RunTypes'
<1> USE DEF RunTypes
<1>1. Run!Failures \subseteq RunProjects
  <2>1. Run!Chunks \in Seq(SUBSET RunProjects)
    BY ChunkPlaces DEF RunInv, Types
  <2> QED BY <2>1 DEF Run!Failures, Run!InSummary
<1>2. CASE Run!Begin \/ Run!NextChunk \/ Run!ExitProcess
  BY <1>2 DEF Run!Begin, Run!NextChunk, Run!ExitProcess
<1>3. CASE Run!Finish
  BY <1>1, <1>3 DEF Run!Finish
<1>4. ASSUME NEW t \in Run!Tasks, Run!TaskStep(t) PROVE RunTypes'
  <2>1. CASE Run!Throw(t)
    <3>1. snapshot[t] \in SUBSET RunProjects
      BY DEF RunInv, Types, Run!Tasks
    <3> QED BY <2>1, <3>1 DEF Run!Throw
  <2>2. CASE ~Run!Throw(t)
    BY <1>4, <2>2 DEF Run!TaskStep, Run!StartTask, Run!TaskPasses, Run!TaskFails, Run!TakeSummary
  <2> QED BY <2>1, <2>2
<1>5. CASE UNCHANGED Run!runVars
  BY <1>5 DEF Run!runVars
<1> QED BY <1>2, <1>3, <1>4, <1>5 DEF Run!Next, Run!Step, Run!Stopped

\* The states of a run are what they should be.
THEOREM RunTypeCorrect == ASSUME Run!RunAssumption PROVE Run!SafetySpec => []Run!RunTypeOK
<1>1. Run!Init => RunTypes
  BY DEF Run!Init, RunTypes
<1>2. RunInv /\ RunTypes /\ [Run!Next]_Run!runVars => RunTypes'
  BY RunStepTyped
<1>3. ASSUME RunInv, RunTypes PROVE Run!RunTypeOK
  <2>1. Len(Run!Chunks) \in Nat \ {0} /\ Place(Len(Run!Chunks)) \in DOMAIN Sorted
    BY <1>3, ChunkPlaces DEF RunInv, Types
  <2>2. Len(Run!Chunks) <= Len(Sorted)
    BY <1>3, <2>1 DEF RunInv, Types, Run!RunAssumption, Run!Commands, Place
  <2>3. chunk \in 0..Len(Sorted)
    BY <1>3, <2>1, <2>2 DEF RunInv, Types, Run!RunAssumption
  <2> QED BY <1>3, <2>3 DEF RunInv, Types, RunTypes, Run!RunTypeOK, TaskStates, Run!Ended
<1>4. RunInv /\ RunTypes => Run!RunTypeOK
  BY <1>3
<1> QED BY <1>1, <1>2, <1>4, RunInvariant, PTL DEF Run!SafetySpec

\* No script starts before those of its project's dependencies have ended, of
\* which none has failed if a failure bails (runRecursive: the chunks of
\* sortPackages, one after the other, from the one of resumeFrom on).
THEOREM RunsDependenciesFirst ==
  ASSUME Run!RunAssumption
  PROVE  Run!SafetySpec => []Run!DependenciesFirst
<1>1. RunInv => Run!DependenciesFirst
  <2> SUFFICES ASSUME RunInv, NEW t \in Run!Tasks, task[t] \notin {"none", "queued"},
                      NEW u \in Run!Tasks, u[1] \in Run!InSummary,
                      IF opts.reverse THEN t[1] \in Run!Edges(u[1]) ELSE u[1] \in Run!Edges(t[1])
               PROVE  task[u] = "ok" \/ (task[u] = "failed" /\ ~opts.bail)
    BY DEF Run!DependenciesFirst
  <2>1. chunk \in 0..Len(Run!Chunks) /\ Len(Run!Chunks) \in Nat /\ DOMAIN Run!Chunks = 1..Len(Run!Chunks)
        /\ opts \in Run!Commands
    BY ChunkPlaces DEF RunInv, Types
  <2>2. PICK i \in 1..chunk : t[1] \in Run!Chunks[i]
    BY DEF RunInv, TasksFollowChunks
  <2>3. PICK j \in 1..Len(Run!Chunks) : u[1] \in Run!Chunks[j]
    BY <2>1 DEF Run!InSummary
  <2>4. i \in 1..Len(Run!Chunks)
    BY <2>1
  <2>5. (IF opts.reverse THEN t[1] \in Run!Edges(u[1]) ELSE u[1] \in Run!Edges(t[1])) => j < i
    BY <2>1, <2>2, <2>3, <2>4, ChunksInOrder
  <2>6. j < chunk
    BY <2>1, <2>5
  <2>7. u \in Run!TasksOf(j)
    BY <2>3 DEF Run!TasksOf
  <2>8. task[u] \in Run!Ended /\ (opts.bail => task[u] = "ok")
    BY <2>6, <2>7 DEF RunInv, TasksFollowChunks, BailStops
  <2> QED BY <2>8 DEF Run!Ended
<1> QED BY <1>1, RunInvariant, PTL

\* A command that succeeds has run every script it was asked for, and all of
\* them passed (throwOnCommandFail sees every failure).
THEOREM SuccessIsTrue ==
  ASSUME Run!RunAssumption
  PROVE  Run!SafetySpec => []Run!SuccessMeansAllPassed
<1>1. RunInv => Run!SuccessMeansAllPassed
  <2> SUFFICES ASSUME RunInv, outcome = "resolved", NEW t \in Run!Tasks, t[1] \in Run!InSummary,
                      opts.bail \/ Cardinality(Run!SelectedScripts(t[1])) = 1
               PROVE  task[t] = "ok"
    BY ScriptsAreCounted DEF Run!SuccessMeansAllPassed
  <2>1. opts \in Run!Commands
    BY DEF RunInv, Types
  <2>2. Cardinality(Run!SelectedScripts(t[1])) = 1 => OnlyScript(t[1], t[2])
    BY <2>1, OneScript
  <2> QED BY <2>2 DEF RunInv, Verdict
<1> QED BY <1>1, RunInvariant, PTL

\* What a stopped run leaves for the next one names a project that failed,
\* also when several tasks failed at once and wrote the summary in any order.
THEOREM FailuresAreReported ==
  ASSUME Run!RunAssumption
  PROVE  Run!SafetySpec => []Run!FailureIsInTheSummary
<1>1. RunInv => Run!FailureIsInTheSummary
  <2> SUFFICES ASSUME RunInv, outcome \in {"rejected", "exited"}, opts.report,
                      NEW t \in Run!Tasks, task[t] = "failed",
                      \A p \in RunProjects : Cardinality(Run!SelectedScripts(p)) <= 1
               PROVE  HasFailure
    BY ScriptsAreCounted DEF Run!FailureIsInTheSummary, HasFailure
  <2>1. opts \in Run!Commands
    BY DEF RunInv, Types
  <2>2. \A u \in Run!Tasks : u[1] \in RunProjects
    BY DEF Run!Tasks
  <2>3. OneEach
    BY <2>1, <2>2, OneScript DEF OneEach
  <2> QED BY <2>3 DEF RunInv, Verdict
<1> QED BY <1>1, RunInvariant, PTL

-----------------------------------------------------------------------------
\* Rebuild: lists without what was done

\* A list has the first i entries of another, without those in a set.
Keeps(list, set, i, s) == {s[j] : j \in DOMAIN s} = {list[j] : j \in 1..i} \ set

KeepsOrDrops(list, set, i, s) == IF list[i] \in set THEN s ELSE Append(s, list[i])

\* What a step of the recursion of Without returns.
LEMMA OneMore ==
  ASSUME NEW Entries, NEW list \in Seq(Entries), NEW set, NEW i \in 1..Len(list),
         NEW s \in Seq(Entries), Keeps(list, set, i - 1, s)
  PROVE  /\ KeepsOrDrops(list, set, i, s) \in Seq(Entries)
         /\ Keeps(list, set, i, KeepsOrDrops(list, set, i, s))
<1>0. {s[j] : j \in DOMAIN s} = {list[j] : j \in 1..(i - 1)} \ set
  BY DEF Keeps
<1>1. list[i] \in Entries /\ 1..i = 1..(i - 1) \cup {i} /\ i \in Nat
  OBVIOUS
<1>2. {list[j] : j \in 1..i} = {list[j] : j \in 1..(i - 1)} \cup {list[i]}
  BY <1>1
<1>3. CASE list[i] \in set
  BY <1>0, <1>2, <1>3 DEF KeepsOrDrops, Keeps
<1>4. CASE list[i] \notin set
  <2> DEFINE more == Append(s, list[i])
  <2>1. more \in Seq(Entries) /\ DOMAIN more = DOMAIN s \cup {Len(s) + 1}
        /\ more[Len(s) + 1] = list[i] /\ \A j \in DOMAIN s : more[j] = s[j]
    BY <1>1
  <2> HIDE DEF more
  <2>2. {more[j] : j \in DOMAIN more} = {s[j] : j \in DOMAIN s} \cup {list[i]}
    BY <2>1
  <2>3. KeepsOrDrops(list, set, i, s) = more
    BY <1>4 DEF KeepsOrDrops, more
  <2> QED BY <1>0, <1>2, <1>4, <2>1, <2>2, <2>3 DEF Keeps
<1> QED BY <1>3, <1>4

\* Without returns what is in the list and not in the set.
LEMMA WithoutIsRight ==
  ASSUME NEW Entries, NEW list \in Seq(Entries), NEW set
  PROVE  /\ Reb!Without(list, set) \in Seq(Entries)
         /\ Reb!Range(Reb!Without(list, set)) = Reb!Range(list) \ set
<1> DEFINE n == Len(list)
           What(i) == {s \in Seq(Entries) : Keeps(list, set, i, s)}
           Next_(f, i) == IF i = 0 THEN <<>> ELSE KeepsOrDrops(list, set, i, f[i - 1])
           Fits(f, m) == f = [i \in 0..m |-> f[i]] /\ \A i \in 0..m : f[i] \in What(i) /\ f[i] = Next_(f, i)
           Missing == {m \in 0..n : ~\E f : Fits(f, m)}
<1>1. n \in Nat /\ DOMAIN list = 1..n
  OBVIOUS
<1>2. <<>> \in What(0)
  BY DEF Keeps
<1>3. ASSUME NEW i \in 1..n, NEW s \in What(i - 1)
      PROVE  KeepsOrDrops(list, set, i, s) \in What(i)
  BY OneMore
<1> HIDE DEF What, n
<1>4. Missing = {}
  <2> SUFFICES ASSUME Missing # {} PROVE FALSE
    OBVIOUS
  <2>0. Missing \in SUBSET Nat
    BY <1>1
  <2> HIDE DEF Missing
  <2>1. PICK m \in Missing : \A k \in Missing : m <= k
    BY <2>0, SmallestOfThem
  <2>2. m # 0
    <3>1. Fits([i \in 0..0 |-> <<>>], 0)
      BY <1>2
    <3> QED BY <2>1, <3>1 DEF Missing
  <2>3. m \in 1..n /\ m - 1 \in 0..n /\ m - 1 \notin Missing
    <3>1. m \in 0..n
      BY <2>1 DEF Missing
    <3> QED BY <1>1, <2>1, <2>2, <3>1
  <2>4. PICK f : Fits(f, m - 1)
    BY <2>3 DEF Missing
  <2> DEFINE g == [i \in 0..m |-> IF i = m THEN KeepsOrDrops(list, set, m, f[m - 1]) ELSE f[i]]
  <2>5. g[m] \in What(m) /\ g[m] = Next_(g, m)
    <3>1. g[m] = KeepsOrDrops(list, set, m, f[m - 1]) /\ g[m - 1] = f[m - 1]
      BY <2>3
    <3>2. f[m - 1] \in What(m - 1)
      <4>1. m - 1 \in 0..(m - 1)
        BY <2>3
      <4>2. \A i \in 0..(m - 1) : f[i] \in What(i)
        BY <2>4
      <4> QED BY <4>1, <4>2
    <3>3. KeepsOrDrops(list, set, m, f[m - 1]) \in What(m)
      BY <1>3, <2>3, <3>2
    <3> HIDE DEF g
    <3> QED BY <2>3, <3>1, <3>3
  <2>6. ASSUME NEW i \in 0..(m - 1) PROVE g[i] \in What(i) /\ g[i] = Next_(g, i)
    <3>1. g[i] = f[i] /\ (i # 0 => g[i - 1] = f[i - 1])
      BY <2>3
    <3>2. f[i] \in What(i) /\ f[i] = Next_(f, i)
      BY <2>4
    <3> QED BY <3>1, <3>2
  <2>7. 0..m = 0..(m - 1) \cup {m} /\ g = [i \in 0..m |-> g[i]]
    BY <2>3
  <2>8. \A i \in 0..m : g[i] \in What(i) /\ g[i] = Next_(g, i)
    BY <2>5, <2>6, <2>7
  <2> HIDE DEF g
  <2>9. Fits(g, m)
    BY <2>7, <2>8
  <2> QED BY <2>1, <2>9 DEF Missing
<1>5. PICK f : Fits(f, n)
  BY <1>1, <1>4
<1>6. f = [i \in 0..n |-> Next_(f, i)]
  <2>1. f = [i \in 0..n |-> f[i]]
    BY <1>5
  <2>2. [i \in 0..n |-> f[i]] = [i \in 0..n |-> Next_(f, i)]
    BY <1>5
  <2> QED BY <2>1, <2>2
<1> DEFINE Solves(h) == h = [i \in 0..n |-> Next_(h, i)]
           upTo == CHOOSE h : Solves(h)
<1>7. Solves(upTo)
  BY <1>6
<1> HIDE DEF upTo
<1>8. Reb!Without(list, set) = upTo[n]
  BY Zenon DEF Reb!Without, upTo, n, KeepsOrDrops
<1>9. \A i \in 0..n : upTo[i] \in What(i)
  <2> DEFINE Wrong == {i \in 0..n : upTo[i] \notin What(i)}
  <2> SUFFICES ASSUME Wrong # {} PROVE FALSE
    OBVIOUS
  <2>0. Wrong \in SUBSET Nat
    BY <1>1
  <2> HIDE DEF Wrong
  <2>1. PICK m \in Wrong : \A k \in Wrong : m <= k
    BY <2>0, SmallestOfThem
  <2> USE DEF Wrong
  <2>2. m # 0
    BY <1>1, <1>2, <1>7
  <2>3. m \in 1..n /\ m - 1 \in 0..n /\ upTo[m - 1] \in What(m - 1)
    BY <1>1, <2>1, <2>2
  <2>4. upTo[m] = KeepsOrDrops(list, set, m, upTo[m - 1])
    BY <1>7, <2>3
  <2> QED BY <1>3, <2>1, <2>3, <2>4
<1>10. upTo[n] \in What(n)
  BY <1>1, <1>9
<1>11. upTo[n] \in Seq(Entries) /\ {upTo[n][j] : j \in DOMAIN upTo[n]} = {list[j] : j \in 1..n} \ set
  BY <1>10 DEF What, Keeps
<1> QED BY <1>1, <1>8, <1>11 DEF Reb!Range

-----------------------------------------------------------------------------
\* Rebuild: the walk of the lockfile

DepSet(k) == Reb!Range(RebDeps[k])

LEMMA PackagesAreFinite ==
  ASSUME Reb!RebuildAssumption
  PROVE  /\ IsFiniteSet(Reb!Packages) /\ RebDeps \in [Reb!Packages -> Seq(Reb!Packages)]
         /\ \A k \in Reb!Packages : DepSet(k) \subseteq Reb!Packages /\ k \notin Reb!Below[k]
<1>1. /\ IsFiniteSet(Reb!Packages) /\ RebDeps \in [Reb!Packages -> Seq(Reb!Packages)]
      /\ \A k \in Reb!Packages : k \notin Reb!Below[k]
  BY DEF Reb!RebuildAssumption, Reb!IsFiniteSet, IsFiniteSet
<1>2. ASSUME NEW k \in Reb!Packages PROVE DepSet(k) \subseteq Reb!Packages
  <2>1. RebDeps[k] \in Seq(Reb!Packages)
    BY <1>1
  <2> QED BY <2>1 DEF DepSet, Reb!Range
<1> QED BY <1>1, <1>2

\* A call is nearer to the end of the walk than another: more was walked, or
\* less is in its list.
Nearer(v, w) ==
  w.walked \subseteq v.walked /\ (v.walked = w.walked => Len(v.list) < Len(w.list))

LEMMA NearestWalk ==
  ASSUME Reb!RebuildAssumption, NEW T \in SUBSET Reb!Walks, T # {}
  PROVE  \E w \in T : \A v \in T : ~Nearer(v, w)
<1> DEFINE Left(w) == Cardinality(Reb!Packages \ w.walked)
           Lefts == {Left(w) : w \in T}
<1>1. \A w \in T : w.walked \subseteq Reb!Packages /\ Len(w.list) \in Nat /\ Left(w) \in Nat
  <2> TAKE w \in T
  <2>1. w.walked \subseteq Reb!Packages /\ w.list \in Seq(Reb!Packages)
    BY DEF Reb!Walks
  <2>2. IsFiniteSet(Reb!Packages \ w.walked)
    BY PackagesAreFinite, FS_Difference
  <2> QED BY <2>1, <2>2, FS_CardinalityType
<1>2. PICK n \in Lefts : \A m \in Lefts : n <= m
  <2>1. Lefts \in SUBSET Nat /\ Lefts # {}
    BY <1>1
  <2> HIDE DEF Lefts
  <2> QED BY <2>1, SmallestOfThem
<1> DEFINE Lens == {Len(w.list) : w \in {v \in T : Left(v) = n}}
<1>3. PICK l \in Lens : \A m \in Lens : l <= m
  <2>1. Lens \in SUBSET Nat /\ Lens # {}
    BY <1>1, <1>2
  <2> HIDE DEF Lens
  <2> QED BY <2>1, SmallestOfThem
<1>4. PICK w \in T : Left(w) = n /\ Len(w.list) = l
  BY <1>3
<1>5. ASSUME NEW v \in T, Nearer(v, w) PROVE FALSE
  <2>1. CASE v.walked = w.walked
    <3>1. Left(v) = n /\ Len(v.list) < l
      BY <1>4, <1>5, <2>1 DEF Nearer
    <3>2. Len(v.list) \in Lens
      BY <3>1
    <3>3. Len(v.list) \in Nat /\ l \in Nat /\ l <= Len(v.list)
      BY <1>1, <1>3, <1>4, <3>2
    <3> QED BY <3>1, <3>3
  <2>2. CASE v.walked # w.walked
    <3> DEFINE A == Reb!Packages \ v.walked
               B == Reb!Packages \ w.walked
    <3>1. A \subseteq B /\ A # B
      BY <1>1, <1>5, <2>2 DEF Nearer
    <3>2. IsFiniteSet(B)
      BY PackagesAreFinite, FS_Difference
    <3> HIDE DEF A, B
    <3>3. Cardinality(A) < Cardinality(B)
      BY <3>1, <3>2, FS_Subset, FS_CardinalityType
    <3>4. Left(v) < Left(w) /\ Left(v) \in Lefts
      BY <3>3 DEF A, B
    <3>5. n <= Left(v) /\ Left(v) \in Nat /\ Left(w) \in Nat
      BY <1>1, <1>2, <3>4
    <3> QED BY <1>4, <3>4, <3>5
  <2> QED BY <2>1, <2>2
<1> QED BY <1>5

LEMMA IntoWorks ==
  ASSUME Reb!RebuildAssumption, NEW w \in Reb!Walks, w.list # <<>>
  PROVE  /\ Head(w.list) \in Reb!Packages
         /\ Reb!Into(w) \in Reb!Walks /\ Nearer(Reb!Into(w), w)
         /\ Reb!Into(w).walked = w.walked \cup DepSet(Head(w.list))
         /\ Reb!Range(Reb!Into(w).list) = DepSet(Head(w.list)) \ w.walked
         /\ Reb!Into(w).nodes = w.nodes
<1> DEFINE k == Head(w.list)
           list == Reb!Without(RebDeps[k], w.walked)
           walked == w.walked \cup DepSet(k)
<1>1. /\ w.list \in Seq(Reb!Packages) /\ w.walked \subseteq Reb!Packages
      /\ w.nodes \subseteq Reb!Packages
  BY DEF Reb!Walks
<1>2. k \in Reb!Packages /\ Len(w.list) \in Nat /\ Len(w.list) > 0
  BY <1>1
<1>3. RebDeps[k] \in Seq(Reb!Packages) /\ DepSet(k) \subseteq Reb!Packages
  BY <1>2, PackagesAreFinite
<1>4. list \in Seq(Reb!Packages) /\ Reb!Range(list) = DepSet(k) \ w.walked
  BY <1>3, WithoutIsRight DEF DepSet
<1>5. Reb!Into(w) = [list |-> list, walked |-> walked, nodes |-> w.nodes, should |-> FALSE]
  BY DEF Reb!Into, Reb!StepOf, DepSet
<1>6. Nearer(Reb!Into(w), w)
  <2>1. walked = w.walked => Len(list) = 0
    <3>1. ASSUME NEW s \in Seq(Reb!Packages), Reb!Range(s) = {} PROVE Len(s) = 0
      <4>1. DOMAIN s = 1..Len(s) /\ Len(s) \in Nat
        OBVIOUS
      <4>2. 1 \notin DOMAIN s
        BY <3>1 DEF Reb!Range
      <4> QED BY <4>1, <4>2
    <3> HIDE DEF list
    <3> QED BY <1>4, <3>1
  <2> HIDE DEF list, walked, k
  <2>2. w.walked \subseteq walked
    BY DEF walked
  <2> QED BY <1>2, <1>5, <2>1, <2>2 DEF Nearer
<1> HIDE DEF list, k
<1> QED BY <1>1, <1>2, <1>3, <1>4, <1>5, <1>6 DEF Reb!Walks, k

\* b is the call for what is left of the list of w, after below was returned.
WalksPast(w, below, b, targets) ==
  /\ b \in Reb!Walks /\ Nearer(b, w)
  /\ b.walked = below.walked
  /\ Reb!Range(w.list) = {Head(w.list)} \cup Reb!Range(b.list)
  /\ b.nodes = IF below.should \/ Head(w.list) \in targets
               THEN below.nodes \cup {Head(w.list)} ELSE below.nodes
  /\ b.should = (w.should \/ below.should \/ Head(w.list) \in targets)

LEMMA PastWorks ==
  ASSUME Reb!RebuildAssumption, NEW w \in Reb!Walks, w.list # <<>>,
         NEW below \in Reb!Walks, w.walked \subseteq below.walked, NEW targets
  PROVE  WalksPast(w, below, Reb!Past(w, below, targets), targets)
<1> DEFINE k == Head(w.list)
           list == Tail(w.list)
           child == below.should \/ k \in targets
           nodes == IF child THEN below.nodes \cup {k} ELSE below.nodes
<1>1. /\ w.list \in Seq(Reb!Packages) /\ w.should \in BOOLEAN
      /\ below.walked \subseteq Reb!Packages /\ below.nodes \subseteq Reb!Packages
      /\ below.should \in BOOLEAN
  BY DEF Reb!Walks
<1>2. /\ k \in Reb!Packages /\ list \in Seq(Reb!Packages)
      /\ Len(w.list) \in Nat /\ Len(list) \in Nat /\ Len(list) < Len(w.list)
      /\ DOMAIN list = 1..Len(list) /\ DOMAIN w.list = 1..(Len(list) + 1)
      /\ k = w.list[1] /\ \A i \in DOMAIN list : list[i] = w.list[i + 1]
  BY <1>1
<1>3. Reb!Range(w.list) = {k} \cup Reb!Range(list)
  <2>1. ASSUME NEW i \in DOMAIN w.list PROVE w.list[i] \in {k} \cup Reb!Range(list)
    <3>1. CASE i = 1
      BY <1>2, <3>1
    <3>2. CASE i # 1
      <4>1. i - 1 \in DOMAIN list /\ i = (i - 1) + 1
        <5>1. ASSUME NEW n \in Nat, i \in 1..(n + 1) PROVE i - 1 \in 1..n /\ i = (i - 1) + 1
          BY <3>2, <5>1
        <5>2. i \in 1..(Len(list) + 1) /\ DOMAIN list = 1..Len(list) /\ Len(list) \in Nat
          BY <1>2, <2>1
        <5> HIDE DEF list
        <5> QED BY <5>1, <5>2
      <4>2. list[i - 1] = w.list[i]
        BY <1>2, <4>1
      <4> QED BY <4>1, <4>2 DEF Reb!Range
    <3> QED BY <3>1, <3>2
  <2>2. ASSUME NEW i \in DOMAIN list PROVE list[i] \in Reb!Range(w.list)
    BY <1>2 DEF Reb!Range
  <2>3. k \in Reb!Range(w.list)
    <3>1. 1 \in DOMAIN w.list
      BY <1>2
    <3> QED BY <1>2, <3>1 DEF Reb!Range
  <2> QED BY <2>1, <2>2, <2>3 DEF Reb!Range
<1>4. Reb!Past(w, below, targets) =
        [list |-> list, walked |-> below.walked, nodes |-> nodes, should |-> w.should \/ child]
  BY DEF Reb!Past, Reb!ChildShouldBeBuilt
<1>5. nodes \subseteq Reb!Packages /\ (w.should \/ child) \in BOOLEAN
  BY <1>1, <1>2
<1> HIDE DEF list, k, nodes, child
<1>6. Reb!Past(w, below, targets) \in Reb!Walks
  BY <1>1, <1>2, <1>4, <1>5 DEF Reb!Walks
<1>7. Nearer(Reb!Past(w, below, targets), w)
  BY <1>2, <1>4 DEF Nearer
<1>8. (w.should \/ child) = (w.should \/ below.should \/ k \in targets)
  BY DEF child
<1> QED BY <1>3, <1>4, <1>6, <1>7, <1>8 DEF WalksPast, k, nodes, child

\* f is the walk, of the calls in D.
WalksOn(targets, D, f) ==
  /\ D \subseteq Reb!Walks /\ f \in [D -> Reb!Walks]
  /\ \A w \in D :
       /\ w.walked \subseteq f[w].walked
       /\ w.list = <<>> => f[w] = w
       /\ w.list # <<>> => /\ Reb!Into(w) \in D /\ Reb!Past(w, f[Reb!Into(w)], targets) \in D
                           /\ f[w] = f[Reb!Past(w, f[Reb!Into(w)], targets)]

LEMMA WalksAgree ==
  ASSUME Reb!RebuildAssumption, NEW targets, NEW D, NEW f, NEW E, NEW g,
         WalksOn(targets, D, f), WalksOn(targets, E, g)
  PROVE  \A w \in D \cap E : f[w] = g[w]
<1> DEFINE T == {w \in D \cap E : f[w] # g[w]}
<1> SUFFICES ASSUME T # {} PROVE FALSE
  OBVIOUS
<1>0. T \in SUBSET Reb!Walks
  BY DEF WalksOn
<1> HIDE DEF T
<1>1. PICK w \in T : \A v \in T : ~Nearer(v, w)
  BY <1>0, NearestWalk
<1> USE DEF T
<1>2. w \in D /\ w \in E /\ f[w] # g[w] /\ w \in Reb!Walks
  BY <1>0, <1>1
<1>3. w.list # <<>>
  BY <1>2 DEF WalksOn
<1> DEFINE a == Reb!Into(w)
<1>4. a \in D /\ a \in E /\ a \in Reb!Walks /\ Nearer(a, w)
  BY <1>2, <1>3, IntoWorks DEF WalksOn
<1>5. f[a] = g[a]
  BY <1>1, <1>4
<1> DEFINE b == Reb!Past(w, f[a], targets)
<1>6. b \in D /\ b \in E /\ f[w] = f[b] /\ g[w] = g[b]
  BY <1>2, <1>3, <1>5 DEF WalksOn
<1>7. f[a] \in Reb!Walks /\ w.walked \subseteq f[a].walked
  BY <1>4 DEF WalksOn, Nearer
<1>8. Nearer(b, w)
  BY <1>2, <1>3, <1>7, PastWorks DEF WalksPast
<1>9. b \notin T
  BY <1>1, <1>8
<1> QED BY <1>2, <1>6, <1>9

Both(D, f, E, g) == [w \in D \cup E |-> IF w \in D THEN f[w] ELSE g[w]]

LEMMA WalksUnite ==
  ASSUME Reb!RebuildAssumption, NEW targets, NEW D, NEW f, NEW E, NEW g,
         WalksOn(targets, D, f), WalksOn(targets, E, g)
  PROVE  WalksOn(targets, D \cup E, Both(D, f, E, g))
<1> DEFINE h == Both(D, f, E, g)
<1>1. (\A w \in D : h[w] = f[w]) /\ (\A w \in E : h[w] = g[w])
  BY WalksAgree DEF Both
<1>2. D \cup E \subseteq Reb!Walks /\ h \in [D \cup E -> Reb!Walks]
  BY DEF WalksOn, Both
<1> HIDE DEF h
<1>3. ASSUME NEW w \in D
      PROVE  /\ w.walked \subseteq h[w].walked
             /\ w.list = <<>> => h[w] = w
             /\ w.list # <<>> => /\ Reb!Into(w) \in D /\ Reb!Past(w, h[Reb!Into(w)], targets) \in D
                                 /\ h[w] = h[Reb!Past(w, h[Reb!Into(w)], targets)]
  BY <1>1 DEF WalksOn
<1>4. ASSUME NEW w \in E
      PROVE  /\ w.walked \subseteq h[w].walked
             /\ w.list = <<>> => h[w] = w
             /\ w.list # <<>> => /\ Reb!Into(w) \in E /\ Reb!Past(w, h[Reb!Into(w)], targets) \in E
                                 /\ h[w] = h[Reb!Past(w, h[Reb!Into(w)], targets)]
  BY <1>1 DEF WalksOn
<1>5. WalksOn(targets, D \cup E, h)
  BY <1>2, <1>3, <1>4 DEF WalksOn
<1> QED BY <1>5 DEF h

LEMMA WalksExist ==
  ASSUME Reb!RebuildAssumption, NEW targets, NEW w \in Reb!Walks
  PROVE  \E D, f : w \in D /\ WalksOn(targets, D, f)
<1> DEFINE T == {v \in Reb!Walks : ~\E D, f : v \in D /\ WalksOn(targets, D, f)}
<1> SUFFICES ASSUME T # {} PROVE FALSE
  OBVIOUS
<1> HIDE DEF T
<1>1. PICK v \in T : \A u \in T : ~Nearer(u, v)
  <2>1. T \in SUBSET Reb!Walks
    BY DEF T
  <2> QED BY <2>1, NearestWalk
<1>2. v \in Reb!Walks /\ \A D, f : WalksOn(targets, D, f) => v \notin D
  BY <1>1 DEF T
<1>3. ASSUME NEW u \in Reb!Walks, Nearer(u, v) PROVE \E D, f : u \in D /\ WalksOn(targets, D, f)
  BY <1>1, <1>3 DEF T
<1>4. CASE v.list = <<>>
  <2> DEFINE f == [u \in {v} |-> u]
  <2>1. WalksOn(targets, {v}, f)
    BY <1>2, <1>4 DEF WalksOn
  <2> QED BY <1>2, <2>1
<1>5. CASE v.list # <<>>
  <2> DEFINE a == Reb!Into(v)
  <2>1. a \in Reb!Walks /\ Nearer(a, v)
    BY <1>2, <1>5, IntoWorks
  <2> HIDE DEF a
  <2>2. PICK D, f : a \in D /\ WalksOn(targets, D, f)
    BY <1>3, <2>1
  <2> DEFINE b == Reb!Past(v, f[a], targets)
  <2>3. f[a] \in Reb!Walks /\ v.walked \subseteq f[a].walked
    BY <2>1, <2>2 DEF WalksOn, Nearer
  <2>4. b \in Reb!Walks /\ Nearer(b, v)
    BY <1>2, <1>5, <2>3, PastWorks DEF WalksPast
  <2> HIDE DEF b
  <2>5. PICK E, g : b \in E /\ WalksOn(targets, E, g)
    BY <1>3, <2>4
  <2> DEFINE C == D \cup E
             h == Both(D, f, E, g)
             i == [u \in C \cup {v} |-> IF u = v THEN h[b] ELSE h[u]]
  <2>6. WalksOn(targets, C, h)
    BY <2>2, <2>5, WalksUnite
  <2>7. a \in C /\ b \in C /\ h[a] = f[a]
    BY <2>2, <2>5 DEF Both
  <2> HIDE DEF C, h
  <2>8. v \notin C
    BY <1>2, <2>6
  <2>9. i \in [C \cup {v} -> Reb!Walks] /\ (\A u \in C : i[u] = h[u]) /\ i[v] = h[b]
    BY <2>6, <2>7, <2>8 DEF WalksOn
  <2> HIDE DEF i
  <2>10. ASSUME NEW u \in C
         PROVE  /\ u.walked \subseteq i[u].walked
                /\ u.list = <<>> => i[u] = u
                /\ u.list # <<>> => /\ Reb!Into(u) \in C /\ Reb!Past(u, i[Reb!Into(u)], targets) \in C
                                    /\ i[u] = i[Reb!Past(u, i[Reb!Into(u)], targets)]
    BY <2>6, <2>9 DEF WalksOn
  <2>11. /\ v.walked \subseteq i[v].walked
         /\ Reb!Into(v) \in C /\ Reb!Past(v, i[Reb!Into(v)], targets) \in C
         /\ i[v] = i[Reb!Past(v, i[Reb!Into(v)], targets)]
    <3>1. b = Reb!Past(v, i[a], targets) /\ a = Reb!Into(v)
      BY <2>7, <2>9 DEF a, b
    <3>2. v.walked \subseteq i[v].walked
      BY <2>4, <2>6, <2>7, <2>9 DEF WalksOn, Nearer
    <3> QED BY <2>7, <2>9, <3>1, <3>2
  <2>12. WalksOn(targets, C \cup {v}, i)
    <3>1. C \cup {v} \subseteq Reb!Walks
      BY <1>2, <2>6 DEF WalksOn
    <3> QED BY <1>5, <2>9, <2>10, <2>11, <3>1 DEF WalksOn
  <2> QED BY <1>2, <2>12
<1> QED BY <1>4, <1>5

LEMMA WalkIsDefined ==
  ASSUME Reb!RebuildAssumption, NEW targets
  PROVE  \E F : F = [w \in Reb!Walks |->
                       IF w.list = <<>> THEN w ELSE F[Reb!Past(w, F[Reb!Into(w)], targets)]]
<1> DEFINE Of(w) == CHOOSE r : \E D, f : w \in D /\ WalksOn(targets, D, f) /\ r = f[w]
           F == [w \in Reb!Walks |-> Of(w)]
<1>1. ASSUME NEW D, NEW f, WalksOn(targets, D, f), NEW w \in D PROVE F[w] = f[w]
  <2>1. \E r : \E E, g : w \in E /\ WalksOn(targets, E, g) /\ r = g[w]
    BY <1>1
  <2>2. PICK E, g : w \in E /\ WalksOn(targets, E, g) /\ Of(w) = g[w]
    BY <2>1
  <2>3. f[w] = g[w]
    BY <1>1, <2>2, WalksAgree
  <2> QED BY <1>1, <2>2, <2>3 DEF WalksOn
<1> HIDE DEF F
<1>2. ASSUME NEW w \in Reb!Walks
      PROVE  F[w] = IF w.list = <<>> THEN w ELSE F[Reb!Past(w, F[Reb!Into(w)], targets)]
  <2>1. PICK D, f : w \in D /\ WalksOn(targets, D, f)
    BY WalksExist
  <2>2. F[w] = f[w]
    BY <1>1, <2>1
  <2>3. CASE w.list = <<>>
    BY <2>1, <2>2, <2>3 DEF WalksOn
  <2>4. CASE w.list # <<>>
    <3>1. /\ Reb!Into(w) \in D /\ Reb!Past(w, f[Reb!Into(w)], targets) \in D
          /\ f[w] = f[Reb!Past(w, f[Reb!Into(w)], targets)]
      BY <2>1, <2>4 DEF WalksOn
    <3>2. F[Reb!Into(w)] = f[Reb!Into(w)]
      BY <1>1, <2>1, <3>1
    <3>3. F[Reb!Past(w, f[Reb!Into(w)], targets)] = f[Reb!Past(w, f[Reb!Into(w)], targets)]
      BY <1>1, <2>1, <3>1
    <3> QED BY <2>2, <2>4, <3>1, <3>2, <3>3
  <2> QED BY <2>3, <2>4
<1>3. F = [w \in Reb!Walks |-> F[w]]
  BY DEF F
<1>4. F = [w \in Reb!Walks |->
             IF w.list = <<>> THEN w ELSE F[Reb!Past(w, F[Reb!Into(w)], targets)]]
  BY <1>2, <1>3
<1> QED BY <1>4

\* What a call returns: it has walked what is below its list, and no more; of
\* that, what is to be built is among the nodes; what it has added to them is of
\* its list, and makes the caller a node, or is below a node.
Right(w, r, targets) ==
  /\ r \in Reb!Walks /\ w.walked \subseteq r.walked /\ w.nodes \subseteq r.nodes
  /\ w.should => r.should
  /\ \A k \in (r.walked \ w.walked) \cup Reb!Range(w.list) :
       DepSet(k) \subseteq r.walked /\ (k \in targets => k \in r.nodes)
  /\ \A k \in r.nodes \ w.nodes :
       \/ k \in Reb!Range(w.list) /\ r.should
       \/ k \in r.walked \ w.walked /\ \E j \in r.nodes : k \in DepSet(j)
  /\ \A S \in SUBSET Reb!Packages :
       w.walked \subseteq S /\ (\A j \in S : DepSet(j) \subseteq S) => r.walked \subseteq S

LEMMA RightStep ==
  ASSUME Reb!RebuildAssumption, NEW targets, NEW w \in Reb!Walks, w.list # <<>>,
         Reb!Range(w.list) \subseteq w.walked,
         NEW a, a = Reb!Into(w), NEW below, Right(a, below, targets),
         NEW b, b = Reb!Past(w, below, targets), NEW r, Right(b, r, targets)
  PROVE  Right(w, r, targets)
<1> DEFINE h == Head(w.list)
<1>1. /\ h \in Reb!Packages /\ a.walked = w.walked \cup DepSet(h)
      /\ Reb!Range(a.list) = DepSet(h) \ w.walked /\ a.nodes = w.nodes
  BY IntoWorks
<1>2. below \in Reb!Walks /\ a.walked \subseteq below.walked /\ a.nodes \subseteq below.nodes
  BY DEF Right
<1>3. /\ b.walked = below.walked
      /\ Reb!Range(w.list) = {h} \cup Reb!Range(b.list)
      /\ b.nodes = (IF below.should \/ h \in targets THEN below.nodes \cup {h} ELSE below.nodes)
      /\ b.should = (w.should \/ below.should \/ h \in targets)
  <2>1. w.walked \subseteq below.walked
    BY <1>1, <1>2
  <2>2. WalksPast(w, below, b, targets)
    BY <1>2, <2>1, PastWorks
  <2> HIDE DEF h
  <2> QED BY <2>2 DEF WalksPast, h
<1> HIDE DEF h
<1>4. /\ r \in Reb!Walks /\ b.walked \subseteq r.walked /\ b.nodes \subseteq r.nodes
      /\ b.should => r.should
  BY DEF Right
<1>5. /\ w.walked \subseteq r.walked /\ w.nodes \subseteq r.nodes /\ (w.should => r.should)
      /\ below.walked \subseteq r.walked /\ below.nodes \subseteq r.nodes
  BY <1>1, <1>2, <1>3, <1>4
<1>6. ASSUME NEW k \in (r.walked \ w.walked) \cup Reb!Range(w.list)
      PROVE  DepSet(k) \subseteq r.walked /\ (k \in targets => k \in r.nodes)
  <2>1. CASE k \in (r.walked \ b.walked) \cup Reb!Range(b.list)
    BY <2>1 DEF Right
  <2>2. CASE k \in (below.walked \ a.walked) \cup Reb!Range(a.list)
    BY <1>5, <2>2 DEF Right
  <2>3. CASE k = h
    BY <1>1, <1>2, <1>3, <1>4, <1>5, <2>3
  <2> QED BY <1>1, <1>3, <1>6, <2>1, <2>2, <2>3
<1>7. ASSUME NEW k \in r.nodes \ w.nodes
      PROVE  \/ k \in Reb!Range(w.list) /\ r.should
             \/ k \in r.walked \ w.walked /\ \E j \in r.nodes : k \in DepSet(j)
  <2>1. CASE k \in r.nodes \ b.nodes
    <3>1. \/ k \in Reb!Range(b.list) /\ r.should
          \/ k \in r.walked \ b.walked /\ \E j \in r.nodes : k \in DepSet(j)
      BY <2>1 DEF Right
    <3> QED BY <1>1, <1>2, <1>3, <3>1
  <2>2. CASE k \in b.nodes \ below.nodes
    BY <1>3, <1>4, <2>2
  <2>3. CASE k \in below.nodes \ a.nodes
    <3>1. \/ k \in Reb!Range(a.list) /\ below.should
          \/ k \in below.walked \ a.walked /\ \E j \in below.nodes : k \in DepSet(j)
      BY <2>3 DEF Right
    <3>2. CASE k \in Reb!Range(a.list) /\ below.should
      <4>1. h \in r.nodes /\ k \in DepSet(h) /\ k \in r.walked \ w.walked
        BY <1>1, <1>2, <1>3, <1>4, <1>5, <3>2
      <4> QED BY <4>1
    <3>3. CASE k \in below.walked \ a.walked /\ \E j \in below.nodes : k \in DepSet(j)
      BY <1>1, <1>5, <3>3
    <3> QED BY <3>1, <3>2, <3>3
  <2> QED BY <1>1, <1>7, <2>1, <2>2, <2>3
<1>8. ASSUME NEW S \in SUBSET Reb!Packages, w.walked \subseteq S, \A j \in S : DepSet(j) \subseteq S
      PROVE  r.walked \subseteq S
  <2>1. h \in S
    BY <1>3, <1>8
  <2>2. a.walked \subseteq S
    BY <1>1, <1>8, <2>1
  <2>3. below.walked \subseteq S
    BY <1>8, <2>2 DEF Right
  <2> QED BY <1>3, <1>8, <2>3 DEF Right
<1> QED BY <1>4, <1>5, <1>6, <1>7, <1>8 DEF Right

LEMMA WalkIsRight ==
  ASSUME Reb!RebuildAssumption, NEW targets, NEW first \in Reb!Walks,
         Reb!Range(first.list) \subseteq first.walked
  PROVE  Right(first, Reb!GetSubgraphToBuild(first, targets), targets)
<1> DEFINE Solves(F) == F = [w \in Reb!Walks |->
             IF w.list = <<>> THEN w ELSE F[Reb!Past(w, F[Reb!Into(w)], targets)]]
           walk == CHOOSE F : Solves(F)
<1>1. Solves(walk)
  <2>1. \E F : Solves(F)
    BY WalkIsDefined
  <2> HIDE DEF Solves
  <2> QED BY <2>1
<1>2. Reb!GetSubgraphToBuild(first, targets) = walk[first]
  BY Zenon DEF Reb!GetSubgraphToBuild
<1> HIDE DEF walk
<1> DEFINE Marked(w) == Reb!Range(w.list) \subseteq w.walked
           T == {w \in Reb!Walks : Marked(w) /\ ~Right(w, walk[w], targets)}
<1>3. T = {}
  <2> SUFFICES ASSUME T # {} PROVE FALSE
    OBVIOUS
  <2> HIDE DEF T
  <2>1. PICK w \in T : \A v \in T : ~Nearer(v, w)
    <3>1. T \in SUBSET Reb!Walks
      BY DEF T
    <3> QED BY <3>1, NearestWalk
  <2>2. w \in Reb!Walks /\ Marked(w) /\ ~Right(w, walk[w], targets)
    BY <2>1 DEF T
  <2>3. ASSUME NEW v \in Reb!Walks, Marked(v), Nearer(v, w) PROVE Right(v, walk[v], targets)
    BY <2>1, <2>3 DEF T
  <2>4. CASE w.list = <<>>
    <3>1. walk[w] = w
      BY <1>1, <2>2, <2>4
    <3>2. Reb!Range(w.list) = {}
      BY <2>4 DEF Reb!Range
    <3> QED BY <2>2, <3>1, <3>2 DEF Right
  <2>5. CASE w.list # <<>>
    <3> DEFINE a == Reb!Into(w)
               b == Reb!Past(w, walk[a], targets)
    <3>1. walk[w] = walk[b]
      BY <1>1, <2>2, <2>5
    <3>2. a \in Reb!Walks /\ Nearer(a, w) /\ Marked(a)
      BY <2>2, <2>5, IntoWorks
    <3>3. Right(a, walk[a], targets)
      BY <2>3, <3>2
    <3>4. walk[a] \in Reb!Walks /\ w.walked \subseteq walk[a].walked
      BY <3>2, <3>3 DEF Right, Nearer
    <3>5. b \in Reb!Walks /\ Nearer(b, w) /\ Marked(b)
      <4>1. WalksPast(w, walk[a], b, targets)
        BY <2>2, <2>5, <3>4, PastWorks
      <4> HIDE DEF a, b
      <4> QED BY <2>2, <3>4, <4>1 DEF WalksPast
    <3>6. Right(b, walk[b], targets)
      BY <2>3, <3>5
    <3> HIDE DEF a, b
    <3>7. Right(w, walk[b], targets)
      BY <2>2, <2>5, <3>3, <3>6, RightStep DEF a, b
    <3> QED BY <2>2, <3>1, <3>7
  <2> QED BY <2>4, <2>5
<1> QED BY <1>2, <1>3

-----------------------------------------------------------------------------
\* Rebuild: the chunks of the graph

LEMMA WhatIsReached ==
  ASSUME Reb!RebuildAssumption, NEW from \in SUBSET Reb!Packages, NEW around
  PROVE  /\ Reb!Reached(from, around) \subseteq Reb!Packages
         /\ from \subseteq Reb!Reached(from, around)
         /\ \A j \in Reb!Reached(from, around) :
              DepSet(j) \ around \subseteq Reb!Reached(from, around)
         /\ \A S \in SUBSET Reb!Packages :
              from \subseteq S /\ (\A j \in S : DepSet(j) \ around \subseteq S) =>
                Reb!Reached(from, around) \subseteq S
<1> DEFINE R == Reb!Reached(from, around)
<1>1. R = {k \in Reb!Packages : \A S \in SUBSET Reb!Packages :
             from \subseteq S /\ (\A j \in S : DepSet(j) \ around \subseteq S) => k \in S}
  BY DEF Reb!Reached, DepSet
<1> HIDE DEF R
<1>2. ASSUME NEW j \in R, NEW d \in DepSet(j) \ around PROVE d \in R
  <2>1. d \in Reb!Packages
    BY <1>1, PackagesAreFinite
  <2>2. ASSUME NEW S \in SUBSET Reb!Packages, from \subseteq S, \A i \in S : DepSet(i) \ around \subseteq S
        PROVE  d \in S
    <3>1. j \in S
      BY <1>1, <2>2
    <3> QED BY <2>2, <3>1
  <2> QED BY <1>1, <2>1, <2>2
<1>3. R \subseteq Reb!Packages /\ from \subseteq R
  BY <1>1
<1>4. ASSUME NEW S \in SUBSET Reb!Packages, from \subseteq S, \A j \in S : DepSet(j) \ around \subseteq S
      PROVE  R \subseteq S
  BY <1>1, <1>4
<1> QED BY <1>2, <1>3, <1>4 DEF R

\* There is more below a package than below one of its dependencies.
LEMMA BelowIsMore ==
  ASSUME Reb!RebuildAssumption, NEW k \in Reb!Packages, NEW d \in DepSet(k)
  PROVE  /\ d \in Reb!Packages /\ d \in Reb!Below[k]
         /\ Reb!Below[k] \subseteq Reb!Packages
         /\ Reb!Below[d] \subseteq Reb!Below[k] /\ Reb!Below[d] # Reb!Below[k]
<1>1. \A j \in Reb!Packages : Reb!Below[j] = Reb!Reached(DepSet(j), {})
  BY DEF Reb!Below, DepSet
<1>2. DepSet(k) \subseteq Reb!Packages /\ d \in Reb!Packages /\ DepSet(d) \subseteq Reb!Packages
  BY PackagesAreFinite
<1> DEFINE B == Reb!Reached(DepSet(k), {})
<1>3. /\ B \subseteq Reb!Packages /\ DepSet(k) \subseteq B
      /\ \A j \in B : DepSet(j) \ {} \subseteq B
  BY <1>2, WhatIsReached
<1> HIDE DEF B
<1>4. d \in B /\ DepSet(d) \subseteq B
  BY <1>3
<1>5. Reb!Reached(DepSet(d), {}) \subseteq B
  BY <1>2, <1>3, <1>4, WhatIsReached
<1>6. d \notin Reb!Below[d]
  BY <1>2, PackagesAreFinite
<1> QED BY <1>1, <1>2, <1>3, <1>4, <1>5, <1>6 DEF B

LEMMA FewerBelow ==
  ASSUME NEW U, IsFiniteSet(U), NEW A, NEW B \in SUBSET U, A \subseteq B, A # B
  PROVE  /\ Cardinality(A) \in Nat /\ Cardinality(B) \in Nat /\ Cardinality(A) < Cardinality(B)
         /\ Cardinality(U \ B) \in Nat /\ Cardinality(U \ A) \in Nat
         /\ Cardinality(U \ B) < Cardinality(U \ A)
<1>1. IsFiniteSet(B) /\ IsFiniteSet(A) /\ IsFiniteSet(U \ A) /\ IsFiniteSet(U \ B)
  BY FS_Subset, FS_Difference
<1>2. U \ B \subseteq U \ A /\ U \ B # U \ A
  OBVIOUS
<1>3. Cardinality(A) < Cardinality(B)
  BY <1>1, FS_Subset, FS_CardinalityType
<1>4. Cardinality(U \ B) < Cardinality(U \ A)
  BY <1>1, <1>2, FS_Subset, FS_CardinalityType
<1> QED BY <1>1, <1>3, <1>4, FS_CardinalityType

\* Without cycles one of some packages depends on none of them, and on one none does.
LEMMA OneHasNone ==
  ASSUME Reb!RebuildAssumption, NEW S \in SUBSET Reb!Packages, S # {}
  PROVE  /\ \E k \in S : DepSet(k) \cap S = {}
         /\ \E k \in S : \A j \in S : k \notin DepSet(j)
<1> DEFINE Size(k) == Cardinality(Reb!Below[k])
           Rest(k) == Cardinality(Reb!Packages \ Reb!Below[k])
           Sizes == {Size(k) : k \in S}
           Rests == {Rest(k) : k \in S}
<1>1. IsFiniteSet(Reb!Packages)
  BY PackagesAreFinite
<1>2. ASSUME NEW k \in Reb!Packages PROVE Reb!Below[k] \subseteq Reb!Packages
  BY DEF Reb!Below, Reb!Reached
<1>3. \A k \in S : Size(k) \in Nat /\ Rest(k) \in Nat
  BY <1>1, <1>2, FS_Subset, FS_Difference, FS_CardinalityType
<1>4. ASSUME NEW k \in S, NEW d \in DepSet(k) PROVE Size(d) < Size(k) /\ Rest(k) < Rest(d)
  BY <1>1, BelowIsMore, FewerBelow
<1>5. Sizes \in SUBSET Nat /\ Rests \in SUBSET Nat /\ Sizes # {} /\ Rests # {}
  BY <1>3
<1> HIDE DEF Size, Rest
<1>6. \E k \in S : DepSet(k) \cap S = {}
  <2>1. PICK n \in Sizes : \A m \in Sizes : n <= m
    <3> HIDE DEF Sizes
    <3> QED BY <1>5, SmallestOfThem
  <2>2. PICK k \in S : n = Size(k)
    BY <2>1
  <2>3. ASSUME NEW d \in DepSet(k) \cap S PROVE FALSE
    <3>1. Size(k) <= Size(d)
      BY <2>1, <2>2, <2>3
    <3> QED BY <1>3, <1>4, <2>3, <3>1
  <2> QED BY <2>3
<1>7. \E k \in S : \A j \in S : k \notin DepSet(j)
  <2>1. PICK n \in Rests : \A m \in Rests : n <= m
    <3> HIDE DEF Rests
    <3> QED BY <1>5, SmallestOfThem
  <2>2. PICK k \in S : n = Rest(k)
    BY <2>1
  <2>3. ASSUME NEW j \in S, k \in DepSet(j) PROVE FALSE
    <3>1. Rest(k) <= Rest(j)
      BY <2>1, <2>2, <2>3
    <3> QED BY <1>3, <1>4, <2>3, <3>1
  <2> QED BY <2>3
<1> QED BY <1>6, <1>7

\* A way to go through the nodes that are not done.
Chunked(nodes, done, s) ==
  /\ s \in Seq(SUBSET nodes) /\ UNION {s[i] : i \in DOMAIN s} = nodes \ done
  /\ \A i \in DOMAIN s : \A k \in s[i] : \A d \in DepSet(k) \cap nodes :
       d \in done \/ \E j \in 1..(i - 1) : d \in s[j]

NextOnes(nodes, done) == {k \in nodes \ done : DepSet(k) \cap nodes \subseteq done}

LEMMA SomethingIsNext ==
  ASSUME Reb!RebuildAssumption, NEW nodes \in SUBSET Reb!Packages, NEW done \in SUBSET nodes,
         NextOnes(nodes, done) = {}
  PROVE  done = nodes
<1> SUFFICES ASSUME nodes \ done # {} PROVE FALSE
  OBVIOUS
<1>1. PICK k \in nodes \ done : DepSet(k) \cap (nodes \ done) = {}
  BY OneHasNone
<1> QED BY <1>1 DEF NextOnes

LEMMA ChunkedFrom ==
  ASSUME NEW nodes, NEW done \in SUBSET nodes, NEW s,
         Chunked(nodes, done \cup NextOnes(nodes, done), s)
  PROVE  Chunked(nodes, done, <<NextOnes(nodes, done)>> \o s)
<1> DEFINE ones == NextOnes(nodes, done)
           t == <<ones>> \o s
<1>1. ones \subseteq nodes \ done /\ \A k \in ones : DepSet(k) \cap nodes \subseteq done
  BY DEF NextOnes
<1>2. /\ s \in Seq(SUBSET nodes) /\ UNION {s[i] : i \in DOMAIN s} = nodes \ (done \cup ones)
      /\ \A i \in DOMAIN s : \A k \in s[i] : \A d \in DepSet(k) \cap nodes :
           d \in done \cup ones \/ \E j \in 1..(i - 1) : d \in s[j]
  BY DEF Chunked
<1> HIDE DEF ones
<1>3. /\ t \in Seq(SUBSET nodes) /\ DOMAIN s = 1..Len(s) /\ Len(s) \in Nat
      /\ DOMAIN t = 1..(Len(s) + 1) /\ t[1] = ones
      /\ \A i \in 1..Len(s) : t[i + 1] = s[i]
  <2>1. <<ones>> \in Seq(SUBSET nodes) /\ Len(<<ones>>) = 1
    BY <1>1
  <2> QED BY <1>2, <2>1
<1> HIDE DEF t
<1>4. \A i \in DOMAIN t : i = 1 \/ (i - 1 \in DOMAIN s /\ t[i] = s[i - 1])
  <2> TAKE i \in DOMAIN t
  <2>1. i # 1 => i - 1 \in 1..Len(s) /\ (i - 1) + 1 = i
    BY <1>3
  <2> QED BY <1>3, <2>1
<1>5. \A i \in DOMAIN s : i + 1 \in DOMAIN t /\ t[i + 1] = s[i]
  BY <1>3
<1>6. 1 \in DOMAIN t
  BY <1>3
<1>7. UNION {t[i] : i \in DOMAIN t} = nodes \ done
  <2>1. ASSUME NEW i \in DOMAIN t, NEW k \in t[i] PROVE k \in nodes \ done
    BY <1>1, <1>2, <1>3, <1>4
  <2>2. ASSUME NEW k \in nodes \ done PROVE \E i \in DOMAIN t : k \in t[i]
    <3>1. CASE k \in ones
      BY <1>3, <1>6, <3>1
    <3>2. CASE k \notin ones
      <4>1. PICK i \in DOMAIN s : k \in s[i]
        BY <1>2, <3>2
      <4> QED BY <1>5, <4>1
    <3> QED BY <3>1, <3>2
  <2> QED BY <2>1, <2>2
<1>8. ASSUME NEW i \in DOMAIN t, NEW k \in t[i], NEW d \in DepSet(k) \cap nodes, d \notin done
      PROVE  \E j \in 1..(i - 1) : d \in t[j]
  <2>1. i # 1 /\ i - 1 \in DOMAIN s /\ k \in s[i - 1]
    BY <1>1, <1>3, <1>4, <1>8
  <2>2. CASE d \in ones
    <3>1. 1 \in 1..(i - 1)
      BY <1>3, <2>1
    <3> QED BY <1>3, <2>2, <3>1
  <2>3. CASE d \notin ones
    <3>1. PICK j \in 1..((i - 1) - 1) : d \in s[j]
      BY <1>2, <1>8, <2>1, <2>3
    <3>2. j \in DOMAIN s /\ j + 1 \in 1..(i - 1)
      BY <1>3, <2>1
    <3> QED BY <1>5, <3>1, <3>2
  <2> QED BY <2>2, <2>3
<1> QED BY <1>3, <1>7, <1>8 DEF Chunked, t, ones

LEMMA NothingLeft ==
  ASSUME NEW nodes PROVE Chunked(nodes, nodes, <<>>)
<1>1. UNION {<<>>[i] : i \in DOMAIN <<>>} = {} /\ <<>> \in Seq(SUBSET nodes) /\ DOMAIN <<>> = {}
  OBVIOUS
<1> QED BY <1>1 DEF Chunked

LEMMA ChunksAreRight ==
  ASSUME Reb!RebuildAssumption, NEW nodes \in SUBSET Reb!Packages
  PROVE  Chunked(nodes, {}, Reb!ChunksOf(nodes))
<1> DEFINE Left(done) == Cardinality(nodes \ done)
           Following(f, done) == IF NextOnes(nodes, done) = {} THEN <<>>
             ELSE <<NextOnes(nodes, done)>> \o f[done \cup NextOnes(nodes, done)]
           Among(m) == {done \in SUBSET nodes : Left(done) <= m}
           Solves(f, m) == f = [done \in Among(m) |-> Following(f, done)]
           n == Cardinality(nodes)
           Solved(m) == \E f : Solves(f, m)
           Missing == {m \in 0..n : ~Solved(m)}
<1>1. IsFiniteSet(nodes) /\ n \in Nat
  BY PackagesAreFinite, FS_Subset, FS_CardinalityType
<1>2. ASSUME NEW done \in SUBSET nodes PROVE Left(done) \in Nat /\ Left(done) <= n
  BY <1>1, FS_Subset, FS_Difference, FS_CardinalityType
<1>3. ASSUME NEW done \in SUBSET nodes, NextOnes(nodes, done) # {}
      PROVE  /\ done \cup NextOnes(nodes, done) \in SUBSET nodes
             /\ Left(done \cup NextOnes(nodes, done)) < Left(done)
  <2> DEFINE ones == NextOnes(nodes, done)
  <2>1. ones \subseteq nodes \ done
    BY DEF NextOnes
  <2>2. done \subseteq done \cup ones /\ done # done \cup ones /\ done \cup ones \in SUBSET nodes
    BY <1>3, <2>1
  <2> HIDE DEF ones
  <2>3. Cardinality(nodes \ (done \cup ones)) < Cardinality(nodes \ done)
    BY <1>1, <2>2, FewerBelow
  <2> QED BY <2>2, <2>3 DEF ones
<1> HIDE DEF n, Left
<1>4. Missing = {}
  <2> SUFFICES ASSUME Missing # {} PROVE FALSE
    OBVIOUS
  <2>1. Missing \in SUBSET Nat
    BY <1>1
  <2> HIDE DEF Missing
  <2>2. PICK m \in Missing : \A l \in Missing : m <= l
    BY <2>1, SmallestOfThem
  <2>3. m \in 0..n /\ m \in Nat /\ ~\E f : Solves(f, m)
    <3>1. m \in 0..n /\ ~Solved(m)
      <4> HIDE DEF Solved
      <4> QED BY <2>2 DEF Missing
    <3> HIDE DEF Solves
    <3> QED BY <1>1, <3>1
  <2>4. PICK f : m # 0 => Solves(f, m - 1)
    <3>1. CASE m = 0
      BY <3>1
    <3>2. CASE m # 0
      <4>1. m - 1 \in 0..n /\ ~(m <= m - 1)
        BY <1>1, <2>3, <3>2
      <4>2. m - 1 \notin Missing
        BY <2>2, <4>1
      <4>3. Solved(m - 1)
        <5> HIDE DEF Solved
        <5> QED BY <4>1, <4>2 DEF Missing
      <4> HIDE DEF Solves
      <4> QED BY <4>3
    <3> QED BY <3>1, <3>2
  <2> DEFINE g == [done \in Among(m) |-> Following(f, done)]
  <2>5. ASSUME NEW done \in Among(m) PROVE Following(g, done) = Following(f, done)
    <3> DEFINE more == done \cup NextOnes(nodes, done)
    <3>1. CASE NextOnes(nodes, done) = {}
      BY <3>1
    <3>2. CASE NextOnes(nodes, done) # {}
      <4>1. more \in SUBSET nodes /\ Left(more) < Left(done) /\ Left(done) <= m
        BY <1>3, <3>2
      <4>2. Left(more) \in Nat /\ Left(done) \in Nat
        BY <1>2, <4>1
      <4>3. m # 0 /\ Left(more) <= m - 1 /\ Left(more) <= m
        BY <2>3, <4>1, <4>2
      <4> HIDE DEF more
      <4>4. f[more] = Following(f, more)
        BY <2>4, <4>1, <4>3
      <4>5. g[more] = Following(f, more)
        BY <4>1, <4>3
      <4>6. f[more] = g[more]
        BY <4>4, <4>5
      <4> HIDE DEF g
      <4> QED BY <3>2, <4>6 DEF more
    <3> QED BY <3>1, <3>2
  <2>6. Solves(g, m)
    <3>1. [done \in Among(m) |-> Following(g, done)] = [done \in Among(m) |-> Following(f, done)]
      <4> HIDE DEF g, Following, Among
      <4> QED BY <2>5
    <3> QED BY <3>1
  <2> HIDE DEF g, Solves
  <2> QED BY <2>3, <2>6
<1> DEFINE Is(f) == f = [done \in SUBSET nodes |-> Following(f, done)]
           rest == CHOOSE f : Is(f)
<1>5. Is(rest)
  <2>1. Solved(n)
    <3>1. n \in 0..n
      BY <1>1
    <3> HIDE DEF Solved
    <3> QED BY <1>4, <3>1
  <2>2. PICK f : Solves(f, n)
    <3> HIDE DEF Solves
    <3> QED BY <2>1
  <2>3. Among(n) = SUBSET nodes
    BY <1>2
  <2>4. Is(f)
    BY <2>2, <2>3
  <2> HIDE DEF Is
  <2> QED BY <2>4
<1>6. Reb!ChunksOf(nodes) = rest[{}]
  BY Zenon DEF Reb!ChunksOf, NextOnes, DepSet
<1> HIDE DEF rest
<1> DEFINE Wrong == {done \in SUBSET nodes : ~Chunked(nodes, done, rest[done])}
<1>7. Wrong = {}
  <2> SUFFICES ASSUME Wrong # {} PROVE FALSE
    OBVIOUS
  <2> DEFINE Sizes == {Left(done) : done \in Wrong}
  <2>1. PICK l \in Sizes : \A m \in Sizes : l <= m
    <3>1. Sizes \in SUBSET Nat /\ Sizes # {}
      BY <1>2
    <3> HIDE DEF Sizes
    <3> QED BY <3>1, SmallestOfThem
  <2>2. PICK done \in Wrong : l = Left(done)
    BY <2>1
  <2>3. done \in SUBSET nodes /\ ~Chunked(nodes, done, rest[done])
    BY <2>2
  <2>4. rest[done] = Following(rest, done)
    BY <1>5, <2>3
  <2>5. CASE NextOnes(nodes, done) = {}
    <3>1. rest[done] = <<>> /\ done = nodes
      BY <2>3, <2>4, <2>5, SomethingIsNext
    <3> QED BY <2>3, <3>1, NothingLeft
  <2>6. CASE NextOnes(nodes, done) # {}
    <3> DEFINE more == done \cup NextOnes(nodes, done)
    <3>1. more \in SUBSET nodes /\ Left(more) < Left(done)
      BY <1>3, <2>3, <2>6
    <3>2. Left(more) \in Nat /\ Left(done) \in Nat
      BY <1>2, <2>3, <3>1
    <3>3. more \notin Wrong
      BY <2>1, <2>2, <3>1, <3>2
    <3>4. Chunked(nodes, more, rest[more])
      BY <3>1, <3>3
    <3>5. rest[done] = <<NextOnes(nodes, done)>> \o rest[more]
      BY <2>4, <2>6
    <3> QED BY <2>3, <3>4, <3>5, ChunkedFrom
  <2> QED BY <2>5, <2>6
<1> QED BY <1>6, <1>7

-----------------------------------------------------------------------------
\* Rebuild: the groups

\* The nodes: what is asked for of what a project has, and ways to it.
NodesOf(p, targets, nodes) ==
  /\ nodes \subseteq Reb!InLockfile[p] /\ targets \cap Reb!InLockfile[p] \subseteq nodes
  /\ \A k \in nodes : k \in Reb!Range(RebDirect[p]) \/ \E j \in nodes : k \in DepSet(j)

LEMMA NodesAreRight ==
  ASSUME Reb!RebuildAssumption, NEW p \in Reb!Projects, NEW targets
  PROVE  \E nodes : NodesOf(p, targets, nodes)
           /\ Reb!Groups(p, targets) = [i \in DOMAIN Reb!ChunksOf(nodes) |-> Reb!ChunksOf(nodes)[i] \cap targets]
<1> DEFINE direct == Reb!Range(RebDirect[p])
           list == Reb!Without(RebDirect[p], {})
           w == [list |-> list, walked |-> {} \cup direct, nodes |-> {}, should |-> FALSE]
           r == Reb!GetSubgraphToBuild(w, targets)
<1>1. RebDirect[p] \in Seq(Reb!Packages) /\ direct \subseteq Reb!Packages
  <2>1. RebDirect[p] \in Seq(Reb!Packages)
    BY DEF Reb!RebuildAssumption
  <2> QED BY <2>1 DEF Reb!Range
<1>2. list \in Seq(Reb!Packages) /\ Reb!Range(list) = direct
  <2>1. list \in Seq(Reb!Packages) /\ Reb!Range(list) = direct \ {}
    BY <1>1, WithoutIsRight
  <2> HIDE DEF list, direct
  <2> QED BY <2>1
<1>3. /\ w \in Reb!Walks /\ w.list = list /\ w.walked = direct /\ w.nodes = {}
  <2> HIDE DEF list, direct
  <2> QED BY <1>1, <1>2 DEF Reb!Walks
<1>4. Reb!Groups(p, targets) =
        [i \in DOMAIN Reb!ChunksOf(r.nodes) |-> Reb!ChunksOf(r.nodes)[i] \cap targets]
  BY DEF Reb!Groups, Reb!StepOf
<1> HIDE DEF w, list, direct
<1>5. Right(w, r, targets)
  <2>1. Reb!Range(w.list) \subseteq w.walked
    BY <1>2, <1>3
  <2> QED BY <1>3, <2>1, WalkIsRight
<1> HIDE DEF r
<1>6. /\ r.walked \subseteq Reb!Packages /\ direct \subseteq r.walked
      /\ \A k \in r.walked : DepSet(k) \subseteq r.walked /\ (k \in targets => k \in r.nodes)
      /\ \A k \in r.nodes : k \in direct \/ (k \in r.walked /\ \E j \in r.nodes : k \in DepSet(j))
      /\ \A S \in SUBSET Reb!Packages :
           direct \subseteq S /\ (\A j \in S : DepSet(j) \subseteq S) => r.walked \subseteq S
  <2>1. r.walked = (r.walked \ w.walked) \cup Reb!Range(w.list)
    BY <1>2, <1>3, <1>5 DEF Right
  <2>2. r.walked \subseteq Reb!Packages
    BY <1>5 DEF Right, Reb!Walks
  <2> QED BY <1>2, <1>3, <1>5, <2>1, <2>2 DEF Right
<1>7. r.walked = Reb!InLockfile[p]
  <2>1. Reb!InLockfile[p] = Reb!Reached(direct, {})
    BY DEF Reb!InLockfile, direct
  <2>2. /\ Reb!Reached(direct, {}) \subseteq Reb!Packages /\ direct \subseteq Reb!Reached(direct, {})
        /\ \A j \in Reb!Reached(direct, {}) : DepSet(j) \ {} \subseteq Reb!Reached(direct, {})
        /\ \A S \in SUBSET Reb!Packages :
             direct \subseteq S /\ (\A j \in S : DepSet(j) \ {} \subseteq S) =>
               Reb!Reached(direct, {}) \subseteq S
    BY <1>1, WhatIsReached
  <2> QED BY <1>6, <2>1, <2>2
<1>8. NodesOf(p, targets, r.nodes)
  BY <1>6, <1>7 DEF NodesOf, direct
<1> QED BY <1>4, <1>8

\* What is only below a package is in an earlier chunk: without cycles there is
\* a way to it from the package, through nodes.
LEMMA OnlyBelowIsEarlier ==
  ASSUME Reb!RebuildAssumption, NEW p \in Reb!Projects, NEW targets,
         NEW nodes, NodesOf(p, targets, nodes), NEW s, Chunked(nodes, {}, s),
         NEW i \in DOMAIN s, NEW k \in s[i], NEW d \in nodes, d # k, Reb!OnlyBelow(p, d, k)
  PROVE  \E j \in 1..(i - 1) : d \in s[j]
<1> DEFINE direct == Reb!Range(RebDirect[p])
           R == Reb!Reached(direct \ {k}, {k})
           Late == {x \in nodes : x \notin R /\ x # k /\ ~\E j \in 1..(i - 1) : x \in s[j]}
<1>1. direct \subseteq Reb!Packages /\ nodes \subseteq Reb!Packages
  <2>1. RebDirect[p] \in Seq(Reb!Packages)
    BY DEF Reb!RebuildAssumption
  <2>2. Reb!InLockfile[p] \subseteq Reb!Packages
    BY DEF Reb!InLockfile, Reb!Reached
  <2> QED BY <2>1, <2>2 DEF NodesOf, Reb!Range
<1>2. /\ direct \ {k} \subseteq R /\ \A j \in R : DepSet(j) \ {k} \subseteq R
  <2>1. direct \ {k} \in SUBSET Reb!Packages
    BY <1>1
  <2> QED BY <2>1, WhatIsReached
<1>3. d \notin R
  BY DEF Reb!OnlyBelow
<1>4. /\ DOMAIN s = 1..Len(s) /\ Len(s) \in Nat
      /\ UNION {s[j] : j \in DOMAIN s} = nodes
      /\ \A l \in DOMAIN s : \A x \in s[l] : \A y \in DepSet(x) \cap nodes :
           \E j \in 1..(l - 1) : y \in s[j]
  BY DEF Chunked
<1> HIDE DEF R
<1>5. ASSUME NEW x \in Late PROVE \E j \in Late : x \in DepSet(j)
  <2>1. x \in nodes /\ x \notin R /\ x # k /\ ~\E j \in 1..(i - 1) : x \in s[j]
    OBVIOUS
  <2>2. PICK j \in nodes : x \in DepSet(j)
    BY <1>2, <2>1 DEF NodesOf
  <2>3. j # k
    BY <1>4, <2>1, <2>2
  <2>4. j \notin R
    BY <1>2, <2>1, <2>2
  <2>5. ASSUME NEW l \in 1..(i - 1), j \in s[l] PROVE FALSE
    <3>1. l \in DOMAIN s /\ l \in Nat /\ i \in Nat
      BY <1>4
    <3>2. PICK m \in 1..(l - 1) : x \in s[m]
      BY <1>4, <2>1, <2>2, <2>5, <3>1
    <3>3. m \in 1..(i - 1)
      BY <3>1
    <3> QED BY <2>1, <3>2, <3>3
  <2> QED BY <2>2, <2>3, <2>4, <2>5
<1>6. Late \in SUBSET Reb!Packages
  BY <1>1
<1> HIDE DEF Late
<1>7. Late = {}
  BY <1>5, <1>6, OneHasNone
<1> QED BY <1>3, <1>7 DEF Late

\* The walk of the lockfile and the sequencer order what a project has to
\* rebuild, whatever the graph without cycles (getSubgraphToBuild, _rebuild).
THEOREM RebuildsComeInOrder ==
  ASSUME Reb!RebuildAssumption PROVE Reb!GroupsAreRight
<1> SUFFICES ASSUME NEW p \in Reb!Projects, NEW targets \in SUBSET Reb!Packages
             PROVE  LET listed == Reb!Groups(p, targets)
                    IN  /\ listed \in Seq(SUBSET Reb!Packages)
                        /\ UNION Reb!Range(listed) = targets \cap Reb!InLockfile[p]
                        /\ \A i \in DOMAIN listed : \A k \in listed[i] :
                             \A d \in Reb!Below[k] \cap targets :
                               d \in Reb!Range(RebDeps[k]) \/ Reb!OnlyBelow(p, d, k) =>
                                 \E j \in 1..(i - 1) : d \in listed[j]
  BY DEF Reb!GroupsAreRight
<1> DEFINE g == Reb!Groups(p, targets)
<1>1. PICK nodes : NodesOf(p, targets, nodes) /\ g =
        [i \in DOMAIN Reb!ChunksOf(nodes) |-> Reb!ChunksOf(nodes)[i] \cap targets]
  BY NodesAreRight
<1> DEFINE s == Reb!ChunksOf(nodes)
           mine == Reb!InLockfile[p]
<1>2. /\ mine = Reb!Reached(Reb!Range(RebDirect[p]), {}) /\ mine \subseteq Reb!Packages
      /\ nodes \subseteq mine /\ nodes \subseteq Reb!Packages
  BY <1>1 DEF NodesOf, Reb!InLockfile, Reb!Reached
<1>3. Chunked(nodes, {}, s)
  BY <1>2, ChunksAreRight
<1> HIDE DEF s, g
<1>4. /\ s \in Seq(SUBSET nodes) /\ DOMAIN s = 1..Len(s) /\ Len(s) \in Nat
      /\ UNION {s[i] : i \in DOMAIN s} = nodes
  BY <1>3 DEF Chunked
<1>5. DOMAIN g = DOMAIN s /\ \A i \in DOMAIN s : g[i] = s[i] \cap targets
  BY <1>1 DEF s
<1>6. g \in Seq(SUBSET Reb!Packages)
  <2>1. g = [i \in 1..Len(s) |-> s[i] \cap targets]
    BY <1>1, <1>4 DEF s
  <2>2. \A i \in 1..Len(s) : s[i] \cap targets \in SUBSET Reb!Packages
    OBVIOUS
  <2> QED BY <1>4, <2>1, <2>2
<1>7. UNION Reb!Range(g) = targets \cap mine
  <2>1. UNION {g[i] : i \in DOMAIN g} = nodes \cap targets
    BY <1>4, <1>5
  <2> QED BY <1>1, <1>2, <2>1 DEF NodesOf, Reb!Range
<1>8. ASSUME NEW i \in DOMAIN g, NEW k \in g[i], NEW d \in Reb!Below[k] \cap targets,
             d \in DepSet(k) \/ Reb!OnlyBelow(p, d, k)
      PROVE  \E j \in 1..(i - 1) : d \in g[j]
  <2>1. i \in DOMAIN s /\ k \in s[i] /\ k \in nodes /\ k \in Reb!Packages
    BY <1>2, <1>4, <1>5
  <2>2. d \in mine
    <3>1. Reb!Below[k] = Reb!Reached(DepSet(k), {})
      BY <2>1 DEF Reb!Below, DepSet
    <3>2. DepSet(k) \subseteq Reb!Packages /\ Reb!Range(RebDirect[p]) \subseteq Reb!Packages
      <4>1. RebDirect[p] \in Seq(Reb!Packages)
        BY DEF Reb!RebuildAssumption
      <4> QED BY <2>1, <4>1, PackagesAreFinite DEF Reb!Range
    <3>3. \A j \in mine : DepSet(j) \ {} \subseteq mine
      BY <1>2, <3>2, WhatIsReached
    <3>4. DepSet(k) \subseteq mine
      BY <1>2, <2>1, <3>3
    <3>5. Reb!Reached(DepSet(k), {}) \subseteq mine
      <4>1. DepSet(k) \in SUBSET Reb!Packages /\ mine \in SUBSET Reb!Packages
        BY <1>2, <3>2
      <4>2. \A S \in SUBSET Reb!Packages :
              DepSet(k) \subseteq S /\ (\A j \in S : DepSet(j) \ {} \subseteq S) =>
                Reb!Reached(DepSet(k), {}) \subseteq S
        BY <4>1, WhatIsReached
      <4> HIDE DEF mine
      <4> QED BY <3>3, <3>4, <4>1, <4>2
    <3> QED BY <3>1, <3>5
  <2>3. d \in nodes
    BY <1>1, <2>2 DEF NodesOf
  <2>4. d # k
    BY <2>1, PackagesAreFinite
  <2>5. \E j \in 1..(i - 1) : d \in s[j]
    <3>1. CASE d \in DepSet(k)
      BY <1>3, <2>1, <2>3, <3>1 DEF Chunked
    <3>2. CASE Reb!OnlyBelow(p, d, k)
      BY <1>1, <1>3, <2>1, <2>3, <2>4, <3>2, OnlyBelowIsEarlier
    <3> QED BY <1>8, <3>1, <3>2
  <2>6. PICK j \in 1..(i - 1) : d \in s[j]
    BY <2>5
  <2>7. j \in DOMAIN s
    BY <1>4, <2>1, <2>6
  <2> QED BY <1>5, <2>6, <2>7
<1> QED BY <1>6, <1>7, <1>8 DEF g, DepSet

-----------------------------------------------------------------------------
\* Rebuild: the inductive invariant

Entries == Reb!Packages \cup {Reb!Self}

RebuildJobs ==
  [phase : {"idle", "queued", "building", "hooks", "writing", "passed", "failed"},
   targets : SUBSET Reb!Packages, group : Nat, groups : Seq(SUBSET Reb!Packages),
   running : SUBSET Reb!Packages, ended : SUBSET Reb!Packages, rebuilt : SUBSET Reb!Packages,
   ignoredNow : SUBSET Reb!Packages, pendingNow : Seq(Entries)]

RebuildCommands ==
  [phase : {"idle", "running", "resolved", "rejected", "killed"},
   kind : {"all", "pending", "selected"}, sel : SUBSET Reb!Packages, skip : BOOLEAN,
   bail : BOOLEAN, chunk : Nat \ {0}, projects : SUBSET Reb!Projects]

\* What is pending or built in a project is of its lockfile; the store has what
\* some project has built.
RebuildTypes ==
  /\ pendingBuilds \in [Reb!Projects -> Seq(Entries)]
  /\ \A p \in Reb!Projects :
       Reb!Range(pendingBuilds[p]) \subseteq Reb!InLockfile[p] \cup {Reb!Self}
  /\ ignoredBuilds \in [Reb!Projects -> SUBSET Reb!Packages]
  /\ built \in [Reb!Projects -> SUBSET Entries]
  /\ \A p \in Reb!Projects : built[p] \subseteq Reb!InLockfile[p] \cup {Reb!Self}
  /\ effects \subseteq RebHasScripts
  /\ \A k \in effects : \E p \in Reb!Projects : k \in built[p]
  /\ allowed \subseteq Reb!Packages
  /\ forgotten \in [Reb!Projects -> SUBSET Reb!Packages]
  /\ cmd = Reb!NoCommand \/ cmd \in RebuildCommands
  /\ rb \in [Reb!Projects -> RebuildJobs]

GroupOf(r) == IF r.group \in DOMAIN r.groups THEN r.groups[r.group] ELSE {}
AtWork == {"building", "hooks", "writing", "passed", "failed"}

\* The part of a project: groups are built in their order, what ended well is
\* built, passed by or ignored, and the state file is as it was read.
JobInv(p, r, kind_, skip_, made, uploaded, pending, may) ==
  /\ r.running \subseteq (GroupOf(r) \cap RebHasScripts) \ r.ended
  /\ r.rebuilt \subseteq r.ended /\ r.ignoredNow \cap may = {}
  /\ r.targets \subseteq Reb!InLockfile[p]
  /\ r.phase \notin AtWork => r.running = {} /\ r.rebuilt = {} /\ r.ignoredNow = {}
  /\ r.phase \in AtWork => r.groups = Reb!Groups(p, r.targets) /\ r.group # 0
  /\ \A i \in DOMAIN r.groups : i < r.group => r.groups[i] \subseteq r.ended
  /\ r.phase \in {"hooks", "writing", "passed"} =>
       r.running = {} /\ \A i \in DOMAIN r.groups : r.groups[i] \subseteq r.ended
  /\ r.phase # "failed" => r.ended \subseteq r.rebuilt \cup RebOptional
  /\ r.rebuilt \cap RebHasScripts \subseteq
       made \cup r.ignoredNow \cup (IF skip_ THEN uploaded ELSE {})
  /\ r.phase \in AtWork \ {"passed"} => r.pendingNow = pending
  /\ r.phase \in {"writing", "passed"} /\ kind_ # "selected" /\ p \in RebProjectScripts =>
       Reb!Self \in made

RebuildInv ==
  /\ RebuildTypes
  /\ \A p \in Reb!Projects :
       JobInv(p, rb[p], cmd.kind, cmd.skip, built[p], effects, pendingBuilds[p], allowed)
  /\ cmd.phase = "running" =>
       \A i \in DOMAIN RebChunks : \A p \in RebChunks[i] \cap cmd.projects :
         i < cmd.chunk => rb[p].phase \in {"passed", "failed"}
  /\ cmd.phase = "resolved" => \A p \in cmd.projects : rb[p].phase = "passed"
  /\ Reb!NothingIsForgotten /\ Reb!ProjectIsPending

LEMMA RebuildConstants ==
  ASSUME Reb!RebuildAssumption
  PROVE  /\ DOMAIN RebDeps = Reb!Packages /\ RebHasScripts \subseteq Reb!Packages
         /\ RebOptional \subseteq Reb!Packages /\ Reb!Self \notin Reb!Packages
         /\ RebChunks \in Seq(SUBSET Reb!Projects) /\ RebProjectScripts \subseteq Reb!Projects
         /\ Reb!Projects = UNION {RebChunks[i] : i \in DOMAIN RebChunks}
         /\ Reb!InLockfile \in [Reb!Projects -> SUBSET Reb!Packages]
         /\ RebAllowed \subseteq SUBSET Reb!Packages /\ RebSelections \subseteq SUBSET Reb!Packages
<1>1. Reb!InLockfile \in [Reb!Projects -> SUBSET Reb!Packages]
  BY DEF Reb!InLockfile, Reb!Reached
<1>2. Reb!Projects = UNION {RebChunks[i] : i \in DOMAIN RebChunks}
  BY DEF Reb!Projects, Reb!Range
<1> QED BY <1>1, <1>2 DEF Reb!RebuildAssumption, Reb!Packages

\* The groups are of packages of the lockfile.
LEMMA GroupsOf ==
  ASSUME Reb!RebuildAssumption, NEW p \in Reb!Projects, NEW targets \in SUBSET Reb!Packages
  PROVE  /\ Reb!Groups(p, targets) \in Seq(SUBSET Reb!Packages)
         /\ UNION {Reb!Groups(p, targets)[i] : i \in DOMAIN Reb!Groups(p, targets)}
              = targets \cap Reb!InLockfile[p]
<1>1. /\ Reb!Groups(p, targets) \in Seq(SUBSET Reb!Packages)
      /\ UNION Reb!Range(Reb!Groups(p, targets)) = targets \cap Reb!InLockfile[p]
  BY RebuildsComeInOrder DEF Reb!GroupsAreRight
<1> QED BY <1>1 DEF Reb!Range

\* What remains pending is of what was.
LEMMA PendingShrinks ==
  ASSUME Reb!RebuildAssumption, NEW p \in Reb!Projects, rb[p].pendingNow \in Seq(Entries)
  PROVE  /\ Reb!PendingAfter(p) \in Seq(Entries)
         /\ Reb!Range(Reb!PendingAfter(p)) \subseteq Reb!Range(rb[p].pendingNow)
<1> DEFINE left == Reb!Without(rb[p].pendingNow, rb[p].rebuilt)
<1>1. left \in Seq(Entries) /\ Reb!Range(left) \subseteq Reb!Range(rb[p].pendingNow)
  BY WithoutIsRight
<1> HIDE DEF left
<1>2. Reb!SpliceSelf(left) \in Seq(Entries) /\ Reb!Range(Reb!SpliceSelf(left)) \subseteq Reb!Range(left)
  <2>1. /\ Reb!Without(left, {Reb!Self}) \in Seq(Entries)
        /\ Reb!Range(Reb!Without(left, {Reb!Self})) \subseteq Reb!Range(left)
    BY <1>1, WithoutIsRight
  <2>2. CASE left # <<>>
    <3>1. Len(left) \in Nat \ {0} /\ Len(left) - 1 \in 0..Len(left)
      BY <1>1, <2>2
    <3>2. Reb!Front(left) = SubSeq(left, 1, Len(left) - 1)
      BY DEF Reb!Front
    <3>3. Reb!Front(left) \in Seq(Entries)
      BY <1>1, <3>1, <3>2
    <3>4. \A i \in DOMAIN Reb!Front(left) : i \in DOMAIN left /\ Reb!Front(left)[i] = left[i]
      BY <1>1, <3>1, <3>2
    <3>5. Reb!Range(Reb!Front(left)) \subseteq Reb!Range(left)
      BY <3>4 DEF Reb!Range
    <3> QED BY <2>1, <2>2, <3>3, <3>5 DEF Reb!SpliceSelf
  <2>3. CASE left = <<>>
    BY <1>1, <2>1, <2>3 DEF Reb!SpliceSelf
  <2> QED BY <2>2, <2>3
<1> QED BY <1>1, <1>2 DEF Reb!PendingAfter, left

\* What is in no state file is as it was when the files stay and more is built.
LEMMA FilesStay ==
  ASSUME Reb!NothingIsForgotten, Reb!ProjectIsPending, Reb!RebuildAssumption,
         UNCHANGED <<pendingBuilds, ignoredBuilds, forgotten>>,
         \A p \in Reb!Projects : built[p] \subseteq built'[p]
  PROVE  Reb!NothingIsForgotten' /\ Reb!ProjectIsPending'
<1>1. Reb!NothingIsForgotten'
  <2> SUFFICES ASSUME NEW p \in Reb!Projects, NEW k \in Reb!InLockfile[p] \cap RebHasScripts
               PROVE  k \in built'[p] \cup Reb!Range(pendingBuilds[p]) \cup ignoredBuilds[p] \cup forgotten[p]
    BY DEF Reb!NothingIsForgotten
  <2>1. k \in built[p] \cup Reb!Range(pendingBuilds[p]) \cup ignoredBuilds[p] \cup forgotten[p]
    BY DEF Reb!NothingIsForgotten
  <2> QED BY <2>1
<1>2. Reb!ProjectIsPending'
  <2> SUFFICES ASSUME NEW p \in RebProjectScripts
               PROVE  Reb!Self \in built'[p] \cup Reb!Range(pendingBuilds[p])
    BY DEF Reb!ProjectIsPending
  <2>1. Reb!Self \in built[p] \cup Reb!Range(pendingBuilds[p]) /\ p \in Reb!Projects
    BY RebuildConstants DEF Reb!ProjectIsPending
  <2> QED BY <2>1
<1> QED BY <1>1, <1>2

\* What another project has built or uploaded does not matter to one.
LEMMA OthersJobs ==
  ASSUME NEW p, NEW r, NEW kind_, NEW skip_, NEW made, NEW uploaded, NEW more, NEW pending, NEW may,
         uploaded \subseteq more, JobInv(p, r, kind_, skip_, made, uploaded, pending, may)
  PROVE  JobInv(p, r, kind_, skip_, made, more, pending, may)
BY DEF JobInv

\* A step in a project.
LEMMA ProjectChanges ==
  ASSUME Reb!RebuildAssumption, RebuildInv, NEW p \in Reb!Projects, NEW r \in RebuildJobs,
         NEW made, NEW pending \in Seq(Entries),
         cmd.phase \in {"running", "rejected"},
         cmd' = cmd \/ cmd' = [cmd EXCEPT !.phase = "rejected"],
         rb' = [rb EXCEPT ![p] = r],
         rb[p].phase \in {"passed", "failed"} => r.phase \in {"passed", "failed"},
         built' = [built EXCEPT ![p] = made], built[p] \subseteq made,
         made \subseteq Reb!InLockfile[p] \cup {Reb!Self},
         effects \subseteq effects', effects' \subseteq effects \cup (made \cap RebHasScripts),
         pendingBuilds' = [pendingBuilds EXCEPT ![p] = pending],
         Reb!Range(pending) \subseteq Reb!InLockfile[p] \cup {Reb!Self},
         ignoredBuilds' \in [Reb!Projects -> SUBSET Reb!Packages],
         forgotten' \in [Reb!Projects -> SUBSET Reb!Packages], allowed' = allowed,
         JobInv(p, r, cmd.kind, cmd.skip, made, effects', pending, allowed),
         Reb!NothingIsForgotten', Reb!ProjectIsPending'
  PROVE  RebuildInv'
<1>1. RebuildTypes
  BY DEF RebuildInv
<1>2. cmd \in RebuildCommands
  BY <1>1 DEF RebuildTypes, Reb!NoCommand
<1>3. /\ cmd' \in RebuildCommands /\ cmd'.kind = cmd.kind /\ cmd'.skip = cmd.skip
      /\ cmd'.chunk = cmd.chunk /\ cmd'.projects = cmd.projects
      /\ cmd'.phase \in {cmd.phase, "rejected"}
  BY <1>2 DEF RebuildCommands
<1>4. rb' \in [Reb!Projects -> RebuildJobs] /\ rb'[p] = r /\ \A q \in Reb!Projects \ {p} : rb'[q] = rb[q]
  BY <1>1 DEF RebuildTypes
<1>5. /\ pendingBuilds' \in [Reb!Projects -> Seq(Entries)] /\ pendingBuilds'[p] = pending
      /\ \A q \in Reb!Projects \ {p} : pendingBuilds'[q] = pendingBuilds[q]
  BY <1>1 DEF RebuildTypes
<1>6. /\ built'[p] = made /\ \A q \in Reb!Projects \ {p} : built'[q] = built[q]
      /\ built' \in [Reb!Projects -> SUBSET Entries]
  BY <1>1, RebuildConstants DEF RebuildTypes, Entries
<1>7. RebuildTypes'
  <2>1. \A q \in Reb!Projects : Reb!Range(pendingBuilds'[q]) \subseteq Reb!InLockfile[q] \cup {Reb!Self}
    BY <1>1, <1>5 DEF RebuildTypes
  <2>2. \A q \in Reb!Projects : built'[q] \subseteq Reb!InLockfile[q] \cup {Reb!Self}
    BY <1>1, <1>6 DEF RebuildTypes
  <2>3. effects' \subseteq RebHasScripts
    BY <1>1 DEF RebuildTypes
  <2>4. ASSUME NEW k \in effects' PROVE \E q \in Reb!Projects : k \in built'[q]
    <3>1. CASE k \in effects
      <4>1. PICK q \in Reb!Projects : k \in built[q]
        BY <1>1, <3>1 DEF RebuildTypes
      <4> QED BY <1>6, <4>1
    <3>2. CASE k \in made
      BY <1>6, <3>2
    <3> QED BY <3>1, <3>2
  <2> QED BY <1>1, <1>3, <1>4, <1>5, <1>6, <2>1, <2>2, <2>3, <2>4 DEF RebuildTypes
<1>8. ASSUME NEW q \in Reb!Projects
      PROVE  JobInv(q, rb'[q], cmd'.kind, cmd'.skip, built'[q], effects', pendingBuilds'[q], allowed')
  <2>1. CASE q = p
    BY <1>3, <1>4, <1>5, <1>6, <2>1
  <2>2. CASE q # p
    <3>1. JobInv(q, rb[q], cmd.kind, cmd.skip, built[q], effects, pendingBuilds[q], allowed)
      BY DEF RebuildInv
    <3>2. JobInv(q, rb[q], cmd.kind, cmd.skip, built[q], effects', pendingBuilds[q], allowed)
      BY <3>1, OthersJobs
    <3> QED BY <1>3, <1>4, <1>5, <1>6, <2>2, <3>2
  <2> QED BY <2>1, <2>2
<1>9. ASSUME cmd'.phase = "running", NEW i \in DOMAIN RebChunks, NEW q \in RebChunks[i] \cap cmd'.projects,
             i < cmd'.chunk
      PROVE  rb'[q].phase \in {"passed", "failed"}
  <2>1. rb[q].phase \in {"passed", "failed"} /\ q \in Reb!Projects
    BY <1>3, <1>9, RebuildConstants DEF RebuildInv
  <2> QED BY <1>4, <2>1
<1>10. cmd'.phase # "resolved"
  BY <1>3
<1> QED BY <1>7, <1>8, <1>9, <1>10 DEF RebuildInv

\* The same when the state files stay.
WorksOn(p, r, made) ==
  /\ cmd.phase \in {"running", "rejected"}
  /\ cmd' = cmd \/ cmd' = [cmd EXCEPT !.phase = "rejected"]
  /\ rb' = [rb EXCEPT ![p] = r]
  /\ rb[p].phase \in {"passed", "failed"} => r.phase \in {"passed", "failed"}
  /\ built' = [built EXCEPT ![p] = made] /\ built[p] \subseteq made
  /\ made \subseteq Reb!InLockfile[p] \cup {Reb!Self}
  /\ effects \subseteq effects' /\ effects' \subseteq effects \cup (made \cap RebHasScripts)
  /\ UNCHANGED <<pendingBuilds, ignoredBuilds, forgotten, allowed>>
  /\ JobInv(p, r, cmd.kind, cmd.skip, made, effects', pendingBuilds[p], allowed)

LEMMA ProjectWorks ==
  ASSUME Reb!RebuildAssumption, RebuildInv, NEW p \in Reb!Projects, NEW r \in RebuildJobs, NEW made,
         WorksOn(p, r, made)
  PROVE  RebuildInv'
<1> USE DEF WorksOn
<1>1. RebuildTypes
  BY DEF RebuildInv
<1>2. pendingBuilds[p] \in Seq(Entries) /\ pendingBuilds' = [pendingBuilds EXCEPT ![p] = pendingBuilds[p]]
      /\ Reb!Range(pendingBuilds[p]) \subseteq Reb!InLockfile[p] \cup {Reb!Self}
  BY <1>1 DEF RebuildTypes
<1>3. \A q \in Reb!Projects : built[q] \subseteq built'[q]
  BY <1>1 DEF RebuildTypes
<1>4. Reb!NothingIsForgotten' /\ Reb!ProjectIsPending'
  BY <1>3, FilesStay DEF RebuildInv
<1>5. /\ ignoredBuilds' \in [Reb!Projects -> SUBSET Reb!Packages]
      /\ forgotten' \in [Reb!Projects -> SUBSET Reb!Packages] /\ allowed' = allowed
  BY <1>1 DEF RebuildTypes
<1> QED BY <1>2, <1>4, <1>5, ProjectChanges

\* The same when nothing but the project's part changes, and what is built.
LEMMA OnlyTheJob ==
  ASSUME Reb!RebuildAssumption, RebuildInv, NEW p \in Reb!Projects, NEW r \in RebuildJobs,
         cmd.phase \in {"running", "rejected"},
         cmd' = cmd \/ cmd' = [cmd EXCEPT !.phase = "rejected"],
         rb' = [rb EXCEPT ![p] = r],
         rb[p].phase \in {"passed", "failed"} => r.phase \in {"passed", "failed"},
         UNCHANGED <<built, effects, pendingBuilds, ignoredBuilds, forgotten, allowed>>,
         JobInv(p, r, cmd.kind, cmd.skip, built[p], effects, pendingBuilds[p], allowed)
  PROVE  RebuildInv'
<1>1. RebuildTypes
  BY DEF RebuildInv
<1>2. built' = [built EXCEPT ![p] = built[p]] /\ built[p] \subseteq Reb!InLockfile[p] \cup {Reb!Self}
  BY <1>1 DEF RebuildTypes
<1>3. JobInv(p, r, cmd.kind, cmd.skip, built[p], effects', pendingBuilds[p], allowed)
  OBVIOUS
<1>4. effects \subseteq effects' /\ effects' \subseteq effects \cup (built[p] \cap RebHasScripts)
  OBVIOUS
<1>5. WorksOn(p, r, built[p])
  BY <1>2, <1>3, <1>4 DEF WorksOn
<1> QED BY <1>5, ProjectWorks

\* What is known of a project when it makes a step.
LEMMA AtStep ==
  ASSUME Reb!RebuildAssumption, RebuildInv, NEW p \in Reb!Projects
  PROVE  /\ rb[p] \in RebuildJobs /\ GroupOf(rb[p]) = Reb!Group(p)
         /\ JobInv(p, rb[p], cmd.kind, cmd.skip, built[p], effects, pendingBuilds[p], allowed)
         /\ rb[p].phase \in AtWork => Reb!Group(p) \subseteq rb[p].targets \cap Reb!InLockfile[p]
<1>1. rb[p] \in RebuildJobs
  BY DEF RebuildInv, RebuildTypes
<1>2. JobInv(p, rb[p], cmd.kind, cmd.skip, built[p], effects, pendingBuilds[p], allowed)
  BY DEF RebuildInv
<1>3. GroupOf(rb[p]) = Reb!Group(p)
  BY DEF GroupOf, Reb!Group
<1>4. ASSUME rb[p].phase \in AtWork
      PROVE  Reb!Group(p) \subseteq rb[p].targets \cap Reb!InLockfile[p]
  <2>1. rb[p].groups = Reb!Groups(p, rb[p].targets) /\ rb[p].targets \in SUBSET Reb!Packages
    BY <1>1, <1>2, <1>4 DEF JobInv, RebuildJobs
  <2>2. UNION {rb[p].groups[i] : i \in DOMAIN rb[p].groups} = rb[p].targets \cap Reb!InLockfile[p]
    BY <2>1, GroupsOf
  <2> QED BY <2>2 DEF Reb!Group
<1> QED BY <1>1, <1>2, <1>3, <1>4

LEMMA StartsProject ==
  ASSUME Reb!RebuildAssumption, RebuildInv, NEW p \in Reb!Projects, Reb!StartProject(p)
  PROVE  RebuildInv'
<1> DEFINE r == [Reb!AtRest EXCEPT !.phase = "building", !.targets = Reb!Targets(p), !.group = 1,
                   !.groups = Reb!Groups(p, Reb!Targets(p)), !.pendingNow = pendingBuilds[p]]
<1>1. RebuildTypes
  BY DEF RebuildInv
<1>2. Reb!Targets(p) \subseteq Reb!InLockfile[p] /\ Reb!InLockfile[p] \subseteq Reb!Packages
  BY <1>1, RebuildConstants DEF Reb!Targets, RebuildTypes
<1>3. Reb!Groups(p, Reb!Targets(p)) \in Seq(SUBSET Reb!Packages)
  BY <1>2, GroupsOf
<1>4. /\ r.phase = "building" /\ r.targets = Reb!Targets(p) /\ r.group = 1
      /\ r.groups = Reb!Groups(p, Reb!Targets(p)) /\ r.pendingNow = pendingBuilds[p]
      /\ r.running = {} /\ r.ended = {} /\ r.rebuilt = {} /\ r.ignoredNow = {}
  BY DEF Reb!AtRest
<1>5. r \in RebuildJobs
  <2>1. pendingBuilds[p] \in Seq(Entries)
    BY <1>1 DEF RebuildTypes
  <2> QED BY <1>2, <1>3, <2>1 DEF RebuildJobs, Reb!AtRest
<1>6. rb' = [rb EXCEPT ![p] = r] /\ cmd.phase = "running" /\ rb[p].phase = "queued" /\ cmd' = cmd
      /\ UNCHANGED <<built, effects, pendingBuilds, ignoredBuilds, forgotten, allowed>>
  BY DEF Reb!StartProject, Reb!Set, Reb!Keep
<1> HIDE DEF r
<1>7. JobInv(p, r, cmd.kind, cmd.skip, built[p], effects, pendingBuilds[p], allowed)
  <2>1. \A i \in DOMAIN r.groups : ~(i < r.group)
    BY <1>3, <1>4
  <2> QED BY <1>2, <1>4, <2>1 DEF JobInv
<1> QED BY <1>5, <1>6, <1>7, OnlyTheJob

LEMMA StartsBuild ==
  ASSUME Reb!RebuildAssumption, RebuildInv, NEW p \in Reb!Projects, NEW k \in Reb!Packages,
         Reb!StartBuild(p, k)
  PROVE  RebuildInv'
<1> DEFINE s == rb[p]
           runs == ~Reb!SkipsBuild(k) /\ k \in allowed /\ k \in RebHasScripts
           ignores == ~Reb!SkipsBuild(k) /\ k \notin allowed
           r1 == [s EXCEPT !.running = @ \cup {k}]
           r2 == [s EXCEPT !.ended = @ \cup {k}, !.rebuilt = @ \cup {k},
                    !.ignoredNow = IF ignores THEN @ \cup {k} ELSE @]
<1>1. /\ s \in RebuildJobs /\ GroupOf(s) = Reb!Group(p)
      /\ JobInv(p, s, cmd.kind, cmd.skip, built[p], effects, pendingBuilds[p], allowed)
  BY AtStep
<1>2. /\ cmd.phase \in {"running", "rejected"} /\ s.phase \in {"building", "failed"}
      /\ k \in Reb!Group(p) \ (s.running \cup s.ended) /\ cmd' = cmd
      /\ UNCHANGED <<built, effects, pendingBuilds, ignoredBuilds, forgotten, allowed>>
  BY DEF Reb!StartBuild, Reb!Phase, Reb!Waiting, Reb!Keep
<1>3. rb' = [rb EXCEPT ![p] = IF runs THEN r1 ELSE r2]
  BY DEF Reb!StartBuild, Reb!Set
<1>4. CASE runs
  <2>1. /\ r1 \in RebuildJobs /\ r1.running = s.running \cup {k} /\ r1.phase = s.phase
        /\ r1.targets = s.targets /\ r1.group = s.group /\ r1.groups = s.groups /\ r1.ended = s.ended
        /\ r1.rebuilt = s.rebuilt /\ r1.ignoredNow = s.ignoredNow /\ r1.pendingNow = s.pendingNow
    BY <1>1 DEF RebuildJobs
  <2>2. GroupOf(r1) = GroupOf(s)
    BY <2>1 DEF GroupOf
  <2> HIDE DEF r1
  <2>3. JobInv(p, r1, cmd.kind, cmd.skip, built[p], effects, pendingBuilds[p], allowed)
    BY <1>1, <1>2, <1>4, <2>1, <2>2 DEF JobInv, AtWork
  <2> QED BY <1>2, <1>3, <1>4, <2>1, <2>3, OnlyTheJob
<1>5. CASE ~runs
  <2>1. /\ r2 \in RebuildJobs /\ r2.running = s.running /\ r2.phase = s.phase
        /\ r2.targets = s.targets /\ r2.group = s.group /\ r2.groups = s.groups
        /\ r2.ended = s.ended \cup {k} /\ r2.rebuilt = s.rebuilt \cup {k}
        /\ r2.ignoredNow = (IF ignores THEN s.ignoredNow \cup {k} ELSE s.ignoredNow)
        /\ r2.pendingNow = s.pendingNow
    BY <1>1 DEF RebuildJobs
  <2>2. GroupOf(r2) = GroupOf(s)
    BY <2>1 DEF GroupOf
  <2>3. k \in RebHasScripts =>
          k \in built[p] \cup r2.ignoredNow \cup (IF cmd.skip THEN effects ELSE {})
    BY <1>5, <2>1 DEF Reb!SkipsBuild
  <2>4. r2.ignoredNow \cap allowed = {}
    BY <1>1, <2>1 DEF JobInv
  <2> HIDE DEF r2
  <2>5. JobInv(p, r2, cmd.kind, cmd.skip, built[p], effects, pendingBuilds[p], allowed)
    <3>1. r2.rebuilt \cap RebHasScripts \subseteq
            built[p] \cup r2.ignoredNow \cup (IF cmd.skip THEN effects ELSE {})
      BY <1>1, <2>1, <2>3 DEF JobInv
    <3> QED BY <1>1, <1>2, <2>1, <2>2, <2>4, <3>1 DEF JobInv, AtWork
  <2> QED BY <1>2, <1>3, <1>5, <2>1, <2>5, OnlyTheJob
<1> QED BY <1>4, <1>5

LEMMA ScriptsEndWell ==
  ASSUME Reb!RebuildAssumption, RebuildInv, NEW p \in Reb!Projects, NEW k \in Reb!Packages,
         NEW upload \in BOOLEAN, Reb!ScriptsOk(p, k, upload)
  PROVE  RebuildInv'
<1> DEFINE s == rb[p]
           made == built[p] \cup {k}
           r == [s EXCEPT !.running = @ \ {k}, !.ended = @ \cup {k}, !.rebuilt = @ \cup {k}]
<1>1. /\ s \in RebuildJobs /\ GroupOf(s) = Reb!Group(p)
      /\ JobInv(p, s, cmd.kind, cmd.skip, built[p], effects, pendingBuilds[p], allowed)
      /\ s.phase \in AtWork => Reb!Group(p) \subseteq s.targets \cap Reb!InLockfile[p]
  BY AtStep
<1>2. /\ cmd.phase \in {"running", "rejected"} /\ s.phase \in {"building", "failed"} /\ k \in s.running
      /\ cmd' = cmd /\ UNCHANGED <<pendingBuilds, ignoredBuilds, forgotten, allowed>>
      /\ rb' = [rb EXCEPT ![p] = r] /\ built' = [built EXCEPT ![p] = made]
      /\ effects' = IF upload THEN effects \cup {k} ELSE effects
  BY DEF Reb!ScriptsOk, Reb!Phase, Reb!Set, Reb!Keep
<1>3. k \in Reb!Group(p) /\ k \in RebHasScripts /\ k \in Reb!InLockfile[p]
  BY <1>1, <1>2 DEF JobInv, AtWork
<1>4. /\ r \in RebuildJobs /\ r.running = s.running \ {k} /\ r.phase = s.phase
      /\ r.targets = s.targets /\ r.group = s.group /\ r.groups = s.groups
      /\ r.ended = s.ended \cup {k} /\ r.rebuilt = s.rebuilt \cup {k}
      /\ r.ignoredNow = s.ignoredNow /\ r.pendingNow = s.pendingNow
  BY <1>1 DEF RebuildJobs
<1>5. GroupOf(r) = GroupOf(s)
  BY <1>4 DEF GroupOf
<1> HIDE DEF r
<1>6. JobInv(p, r, cmd.kind, cmd.skip, made, effects', pendingBuilds[p], allowed)
  <2>1. r.rebuilt \cap RebHasScripts \subseteq
          made \cup r.ignoredNow \cup (IF cmd.skip THEN effects' ELSE {})
    BY <1>1, <1>2, <1>4 DEF JobInv
  <2> QED BY <1>1, <1>2, <1>3, <1>4, <1>5, <2>1 DEF JobInv, AtWork
<1>7. /\ built[p] \subseteq made /\ made \subseteq Reb!InLockfile[p] \cup {Reb!Self}
      /\ effects \subseteq effects' /\ effects' \subseteq effects \cup (made \cap RebHasScripts)
  BY <1>2, <1>3 DEF RebuildInv, RebuildTypes
<1> HIDE DEF made
<1>8. WorksOn(p, r, made)
  BY <1>2, <1>4, <1>6, <1>7 DEF WorksOn
<1> QED BY <1>4, <1>8, ProjectWorks

LEMMA ScriptsEndBadly ==
  ASSUME Reb!RebuildAssumption, RebuildInv, NEW p \in Reb!Projects, NEW k \in Reb!Packages,
         Reb!ScriptsFail(p, k)
  PROVE  RebuildInv'
<1> DEFINE s == rb[p]
           r == [s EXCEPT !.running = @ \ {k}, !.ended = @ \cup {k}, !.rebuilt = Reb!Rebuilt(p, k),
                   !.phase = IF k \in RebOptional THEN @ ELSE "failed"]
<1>1. /\ s \in RebuildJobs /\ GroupOf(s) = Reb!Group(p)
      /\ JobInv(p, s, cmd.kind, cmd.skip, built[p], effects, pendingBuilds[p], allowed)
  BY AtStep
<1>2. /\ cmd.phase \in {"running", "rejected"} /\ s.phase \in {"building", "failed"} /\ k \in s.running
      /\ cmd' = cmd \/ cmd' = [cmd EXCEPT !.phase = "rejected"]
      /\ UNCHANGED <<built, effects, pendingBuilds, ignoredBuilds, forgotten, allowed>>
      /\ rb' = [rb EXCEPT ![p] = r]
  BY DEF Reb!ScriptsFail, Reb!Phase, Reb!Set, Reb!Keep
<1>3. /\ r \in RebuildJobs /\ r.running = s.running \ {k}
      /\ r.phase = (IF k \in RebOptional THEN s.phase ELSE "failed")
      /\ r.targets = s.targets /\ r.group = s.group /\ r.groups = s.groups
      /\ r.ended = s.ended \cup {k} /\ r.rebuilt = s.rebuilt
      /\ r.ignoredNow = s.ignoredNow /\ r.pendingNow = s.pendingNow
  BY <1>1 DEF RebuildJobs, Reb!Rebuilt
<1>4. GroupOf(r) = GroupOf(s)
  BY <1>3 DEF GroupOf
<1> HIDE DEF r
<1>5. JobInv(p, r, cmd.kind, cmd.skip, built[p], effects, pendingBuilds[p], allowed)
  BY <1>1, <1>2, <1>3, <1>4 DEF JobInv, AtWork
<1> QED BY <1>2, <1>3, <1>5, OnlyTheJob

LEMMA GroupEnds ==
  ASSUME Reb!RebuildAssumption, RebuildInv, NEW p \in Reb!Projects, Reb!NextGroup(p)
  PROVE  RebuildInv'
<1> DEFINE s == rb[p]
           r1 == [s EXCEPT !.group = @ + 1]
           r2 == [s EXCEPT !.phase = IF cmd.kind = "selected" THEN "writing" ELSE "hooks"]
<1>1. /\ s \in RebuildJobs /\ GroupOf(s) = Reb!Group(p)
      /\ JobInv(p, s, cmd.kind, cmd.skip, built[p], effects, pendingBuilds[p], allowed)
  BY AtStep
<1>2. /\ cmd.phase \in {"running", "rejected"} /\ s.phase = "building" /\ cmd' = cmd
      /\ GroupOf(s) \subseteq s.ended
      /\ UNCHANGED <<built, effects, pendingBuilds, ignoredBuilds, forgotten, allowed>>
  BY <1>1 DEF Reb!NextGroup, Reb!Phase, Reb!Keep
<1>3. rb' = [rb EXCEPT ![p] = IF s.group < Len(s.groups) THEN r1 ELSE r2]
  BY DEF Reb!NextGroup, Reb!Set
<1>4. s.running = {} /\ s.group \in Nat \ {0} /\ Len(s.groups) \in Nat /\ DOMAIN s.groups = 1..Len(s.groups)
  BY <1>1, <1>2 DEF JobInv, RebuildJobs, AtWork
<1>5. \A i \in DOMAIN s.groups : i <= s.group => s.groups[i] \subseteq s.ended
  <2> SUFFICES ASSUME NEW i \in DOMAIN s.groups, i <= s.group PROVE s.groups[i] \subseteq s.ended
    OBVIOUS
  <2>1. CASE i < s.group
    BY <1>1, <2>1 DEF JobInv
  <2>2. CASE i = s.group
    BY <1>2, <2>2 DEF GroupOf
  <2> QED BY <1>4, <2>1, <2>2
<1>6. CASE s.group < Len(s.groups)
  <2>0. ASSUME NEW n \in Nat, NEW old \in RebuildJobs
        PROVE  LET next == [old EXCEPT !.group = n]
               IN  /\ next \in RebuildJobs /\ next.running = old.running /\ next.phase = old.phase
                   /\ next.targets = old.targets /\ next.group = n /\ next.groups = old.groups
                   /\ next.ended = old.ended /\ next.rebuilt = old.rebuilt
                   /\ next.ignoredNow = old.ignoredNow /\ next.pendingNow = old.pendingNow
    BY <2>0 DEF RebuildJobs
  <2>5. s.group + 1 \in Nat
    BY <1>4
  <2>1. /\ r1 \in RebuildJobs /\ r1.running = {} /\ r1.phase = "building"
        /\ r1.targets = s.targets /\ r1.group = s.group + 1 /\ r1.groups = s.groups
        /\ r1.ended = s.ended /\ r1.rebuilt = s.rebuilt
        /\ r1.ignoredNow = s.ignoredNow /\ r1.pendingNow = s.pendingNow
    <3>1. s \in RebuildJobs /\ s.running = {} /\ s.phase = "building"
      BY <1>1, <1>2, <1>4
    <3> HIDE DEF s
    <3> QED BY <2>0, <2>5, <3>1
  <2> HIDE DEF r1
  <2>2. \A i \in DOMAIN r1.groups : i < r1.group => r1.groups[i] \subseteq r1.ended
    BY <1>4, <1>5, <2>1
  <2>3. JobInv(p, r1, cmd.kind, cmd.skip, built[p], effects, pendingBuilds[p], allowed)
    BY <1>1, <1>2, <1>4, <2>1, <2>2 DEF JobInv, AtWork
  <2>4. rb' = [rb EXCEPT ![p] = r1]
    BY <1>3, <1>6
  <2> QED BY <1>2, <2>1, <2>3, <2>4, OnlyTheJob
<1>7. CASE ~(s.group < Len(s.groups))
  <2>1. /\ r2 \in RebuildJobs /\ r2.running = {}
        /\ r2.phase = (IF cmd.kind = "selected" THEN "writing" ELSE "hooks")
        /\ r2.targets = s.targets /\ r2.group = s.group /\ r2.groups = s.groups
        /\ r2.ended = s.ended /\ r2.rebuilt = s.rebuilt
        /\ r2.ignoredNow = s.ignoredNow /\ r2.pendingNow = s.pendingNow
    BY <1>1, <1>2, <1>4 DEF RebuildJobs
  <2> HIDE DEF r2
  <2>2. \A i \in DOMAIN r2.groups : r2.groups[i] \subseteq r2.ended
    BY <1>4, <1>5, <1>7, <2>1
  <2>3. JobInv(p, r2, cmd.kind, cmd.skip, built[p], effects, pendingBuilds[p], allowed)
    BY <1>1, <1>2, <1>4, <2>1, <2>2 DEF JobInv, AtWork
  <2>4. rb' = [rb EXCEPT ![p] = r2]
    BY <1>3, <1>7
  <2> QED BY <1>2, <2>1, <2>3, <2>4, OnlyTheJob
<1> QED BY <1>6, <1>7

LEMMA HooksRun ==
  ASSUME Reb!RebuildAssumption, RebuildInv, NEW p \in Reb!Projects, Reb!RunHooks(p)
  PROVE  RebuildInv'
<1> DEFINE s == rb[p]
           made == IF p \in RebProjectScripts THEN built[p] \cup {Reb!Self} ELSE built[p]
           r == [s EXCEPT !.phase = "writing"]
<1>1. /\ s \in RebuildJobs
      /\ JobInv(p, s, cmd.kind, cmd.skip, built[p], effects, pendingBuilds[p], allowed)
  BY AtStep
<1>2. /\ cmd.phase \in {"running", "rejected"} /\ s.phase = "hooks" /\ cmd' = cmd
      /\ UNCHANGED <<effects, pendingBuilds, ignoredBuilds, forgotten, allowed>>
      /\ rb' = [rb EXCEPT ![p] = r]
      /\ built' = [built EXCEPT ![p] = IF p \in RebProjectScripts THEN @ \cup {Reb!Self} ELSE @]
  BY DEF Reb!RunHooks, Reb!Phase, Reb!Set, Reb!Keep
<1>3. built' = [built EXCEPT ![p] = made]
  BY <1>2 DEF RebuildInv, RebuildTypes
<1>4. /\ r \in RebuildJobs /\ r.running = s.running /\ r.phase = "writing"
      /\ r.targets = s.targets /\ r.group = s.group /\ r.groups = s.groups
      /\ r.ended = s.ended /\ r.rebuilt = s.rebuilt
      /\ r.ignoredNow = s.ignoredNow /\ r.pendingNow = s.pendingNow
  BY <1>1 DEF RebuildJobs
<1>5. GroupOf(r) = GroupOf(s)
  BY <1>4 DEF GroupOf
<1>6. built[p] \subseteq made /\ made \subseteq Reb!InLockfile[p] \cup {Reb!Self}
      /\ (p \in RebProjectScripts => Reb!Self \in made)
  BY DEF RebuildInv, RebuildTypes
<1> HIDE DEF r, made
<1>7. JobInv(p, r, cmd.kind, cmd.skip, made, effects', pendingBuilds[p], allowed)
  BY <1>1, <1>2, <1>4, <1>5, <1>6 DEF JobInv, AtWork
<1>8. WorksOn(p, r, made)
  BY <1>2, <1>3, <1>4, <1>6, <1>7 DEF WorksOn
<1> QED BY <1>4, <1>8, ProjectWorks

LEMMA HooksBreak ==
  ASSUME Reb!RebuildAssumption, RebuildInv, NEW p \in Reb!Projects, Reb!HooksFail(p)
  PROVE  RebuildInv'
<1> DEFINE s == rb[p]
           r == [s EXCEPT !.phase = "failed"]
<1>1. /\ s \in RebuildJobs
      /\ JobInv(p, s, cmd.kind, cmd.skip, built[p], effects, pendingBuilds[p], allowed)
  BY AtStep
<1>2. /\ cmd.phase \in {"running", "rejected"} /\ s.phase = "hooks"
      /\ cmd' = cmd \/ cmd' = [cmd EXCEPT !.phase = "rejected"]
      /\ UNCHANGED <<built, effects, pendingBuilds, ignoredBuilds, forgotten, allowed>>
      /\ rb' = [rb EXCEPT ![p] = r]
  BY DEF Reb!HooksFail, Reb!Phase, Reb!Set, Reb!Keep
<1>3. /\ r \in RebuildJobs /\ r.running = s.running /\ r.phase = "failed"
      /\ r.targets = s.targets /\ r.group = s.group /\ r.groups = s.groups
      /\ r.ended = s.ended /\ r.rebuilt = s.rebuilt
      /\ r.ignoredNow = s.ignoredNow /\ r.pendingNow = s.pendingNow
  BY <1>1 DEF RebuildJobs
<1>4. GroupOf(r) = GroupOf(s)
  BY <1>3 DEF GroupOf
<1> HIDE DEF r
<1>5. JobInv(p, r, cmd.kind, cmd.skip, built[p], effects, pendingBuilds[p], allowed)
  BY <1>1, <1>2, <1>3, <1>4 DEF JobInv, AtWork
<1> QED BY <1>2, <1>3, <1>5, OnlyTheJob

\* What is taken off the state files is built, or mentioned elsewhere.
LEMMA WritesState ==
  ASSUME Reb!RebuildAssumption, RebuildInv, NEW p \in Reb!Projects, Reb!WriteState(p)
  PROVE  RebuildInv'
<1> DEFINE s == rb[p]
           pending == Reb!PendingAfter(p)
           dropped == (ignoredBuilds[p] \ s.ignoredNow) \cup (IF cmd.skip THEN effects \ built[p] ELSE {})
             \cup (IF cmd.kind = "selected" THEN {}
                   ELSE Reb!Range(s.pendingNow) \ (s.rebuilt \cup {Reb!Self} \cup Reb!Range(pending)))
           r == [s EXCEPT !.phase = "passed"]
<1>1. /\ s \in RebuildJobs
      /\ JobInv(p, s, cmd.kind, cmd.skip, built[p], effects, pendingBuilds[p], allowed)
  BY AtStep
<1>2. RebuildTypes
  BY DEF RebuildInv
<1>3. /\ cmd.phase \in {"running", "rejected"} /\ s.phase = "writing" /\ cmd' = cmd
      /\ UNCHANGED <<built, effects, allowed>> /\ rb' = [rb EXCEPT ![p] = r]
      /\ pendingBuilds' = [pendingBuilds EXCEPT ![p] = pending]
      /\ ignoredBuilds' = [ignoredBuilds EXCEPT ![p] = s.ignoredNow]
  BY DEF Reb!WriteState, Reb!Phase, Reb!Set, Reb!Keep
<1>4. pendingBuilds'[p] = pending
  BY <1>2, <1>3 DEF RebuildTypes
<1>5. forgotten' = [forgotten EXCEPT ![p] = forgotten[p] \cup dropped]
  BY <1>2, <1>4 DEF Reb!WriteState, RebuildTypes
<1>6. /\ s.pendingNow = pendingBuilds[p] /\ s.pendingNow \in Seq(Entries)
      /\ s.ignoredNow \subseteq Reb!Packages
  BY <1>1, <1>3 DEF JobInv, AtWork, RebuildJobs
<1>7. pending \in Seq(Entries) /\ Reb!Range(pending) \subseteq Reb!Range(pendingBuilds[p])
  BY <1>6, PendingShrinks
<1>8. Reb!Range(pending) \subseteq Reb!InLockfile[p] \cup {Reb!Self}
  BY <1>2, <1>7 DEF RebuildTypes
<1>9. cmd.kind = "selected" => pending = pendingBuilds[p]
  BY <1>6 DEF Reb!PendingAfter
<1>10. /\ r \in RebuildJobs /\ r.running = s.running /\ r.phase = "passed"
       /\ r.targets = s.targets /\ r.group = s.group /\ r.groups = s.groups
       /\ r.ended = s.ended /\ r.rebuilt = s.rebuilt
       /\ r.ignoredNow = s.ignoredNow /\ r.pendingNow = s.pendingNow
  BY <1>1 DEF RebuildJobs
<1>11. GroupOf(r) = GroupOf(s)
  BY <1>10 DEF GroupOf
<1> HIDE DEF r, pending
<1>12. JobInv(p, r, cmd.kind, cmd.skip, built[p], effects, pending, allowed)
  BY <1>1, <1>3, <1>10, <1>11 DEF JobInv, AtWork
<1>13. dropped \subseteq Reb!Packages
  <2>1. Reb!Range(s.pendingNow) \subseteq Entries
    BY <1>6 DEF Reb!Range
  <2>2. ignoredBuilds[p] \subseteq Reb!Packages /\ effects \subseteq Reb!Packages
    BY <1>2, RebuildConstants DEF RebuildTypes
  <2> QED BY <2>1, <2>2 DEF Entries
<1>14. ASSUME NEW k \in Reb!InLockfile[p] \cap RebHasScripts
       PROVE  k \in built[p] \cup Reb!Range(pending) \cup s.ignoredNow \cup forgotten[p] \cup dropped
  <2>1. k \in built[p] \cup Reb!Range(pendingBuilds[p]) \cup ignoredBuilds[p] \cup forgotten[p]
    BY DEF RebuildInv, Reb!NothingIsForgotten
  <2>2. k # Reb!Self
    BY RebuildConstants
  <2>3. CASE k \in Reb!Range(pendingBuilds[p]) /\ cmd.kind # "selected"
    <3>1. k \in s.rebuilt => k \in built[p] \cup s.ignoredNow \cup (IF cmd.skip THEN effects ELSE {})
      BY <1>1 DEF JobInv
    <3> QED BY <1>6, <2>2, <2>3, <3>1
  <2> QED BY <1>9, <2>1, <2>3
<1> HIDE DEF dropped
<1>15. /\ ignoredBuilds' \in [Reb!Projects -> SUBSET Reb!Packages]
       /\ forgotten' \in [Reb!Projects -> SUBSET Reb!Packages]
       /\ ignoredBuilds'[p] = s.ignoredNow /\ forgotten'[p] = forgotten[p] \cup dropped
       /\ \A q \in Reb!Projects \ {p} :
            /\ ignoredBuilds'[q] = ignoredBuilds[q] /\ forgotten'[q] = forgotten[q]
            /\ pendingBuilds'[q] = pendingBuilds[q]
  BY <1>2, <1>3, <1>5, <1>6, <1>13 DEF RebuildTypes
<1>16. Reb!NothingIsForgotten'
  <2> SUFFICES ASSUME NEW q \in Reb!Projects, NEW k \in Reb!InLockfile[q] \cap RebHasScripts
               PROVE  k \in built'[q] \cup Reb!Range(pendingBuilds'[q]) \cup ignoredBuilds'[q] \cup forgotten'[q]
    BY DEF Reb!NothingIsForgotten
  <2>1. CASE q = p
    BY <1>3, <1>4, <1>14, <1>15, <2>1
  <2>2. CASE q # p
    <3>1. k \in built[q] \cup Reb!Range(pendingBuilds[q]) \cup ignoredBuilds[q] \cup forgotten[q]
      BY DEF RebuildInv, Reb!NothingIsForgotten
    <3> QED BY <1>3, <1>15, <2>2, <3>1
  <2> QED BY <2>1, <2>2
<1>17. Reb!ProjectIsPending'
  <2> SUFFICES ASSUME NEW q \in RebProjectScripts
               PROVE  Reb!Self \in built'[q] \cup Reb!Range(pendingBuilds'[q])
    BY DEF Reb!ProjectIsPending
  <2>1. Reb!Self \in built[q] \cup Reb!Range(pendingBuilds[q]) /\ q \in Reb!Projects
    BY RebuildConstants DEF RebuildInv, Reb!ProjectIsPending
  <2>2. CASE q = p /\ cmd.kind # "selected"
    BY <1>1, <1>3, <2>2 DEF JobInv
  <2>3. CASE q = p /\ cmd.kind = "selected"
    BY <1>3, <1>4, <1>9, <2>1, <2>3
  <2>4. CASE q # p
    BY <1>3, <1>15, <2>1, <2>4
  <2> QED BY <2>2, <2>3, <2>4
<1> DEFINE made == built[p]
<1>18. /\ built' = [built EXCEPT ![p] = made] /\ built[p] \subseteq made
       /\ made \subseteq Reb!InLockfile[p] \cup {Reb!Self}
       /\ effects \subseteq effects' /\ effects' \subseteq effects \cup (made \cap RebHasScripts)
       /\ JobInv(p, r, cmd.kind, cmd.skip, made, effects', pending, allowed)
  BY <1>2, <1>3, <1>12 DEF RebuildTypes
<1> HIDE DEF made
<1> QED BY <1>3, <1>7, <1>8, <1>10, <1>15, <1>16, <1>17, <1>18, ProjectChanges

\* Where no command is, or a new one, nothing is known of the projects.
LEMMA RestIsRight ==
  ASSUME NEW p, NEW ph \in {"idle", "queued"}, NEW kind_, NEW skip_, NEW made, NEW uploaded,
         NEW pending, NEW may
  PROVE  /\ [Reb!AtRest EXCEPT !.phase = ph] \in RebuildJobs
         /\ JobInv(p, [Reb!AtRest EXCEPT !.phase = ph], kind_, skip_, made, uploaded, pending, may)
<1> DEFINE r == [Reb!AtRest EXCEPT !.phase = ph]
<1>1. /\ r.phase = ph /\ r.targets = {} /\ r.group = 0 /\ r.groups = <<>> /\ r.running = {}
      /\ r.ended = {} /\ r.rebuilt = {} /\ r.ignoredNow = {}
  BY DEF Reb!AtRest
<1>2. r \in RebuildJobs
  <2>1. <<>> \in Seq(Entries) /\ <<>> \in Seq(SUBSET Reb!Packages)
    OBVIOUS
  <2> QED BY <2>1 DEF RebuildJobs, Reb!AtRest
<1> HIDE DEF r
<1>3. JobInv(p, r, kind_, skip_, made, uploaded, pending, may)
  BY <1>1 DEF JobInv, GroupOf, AtWork
<1> QED BY <1>2, <1>3 DEF r

\* The state files stay, and all projects begin anew or are given up.
Renewed(queue) ==
  /\ UNCHANGED <<pendingBuilds, ignoredBuilds, built, effects, forgotten>>
  /\ allowed' \subseteq Reb!Packages /\ cmd' \in RebuildCommands /\ cmd'.phase # "resolved"
  /\ cmd'.phase = "running" => cmd'.chunk = 1
  /\ rb' = [p \in Reb!Projects |->
              IF p \in queue THEN [Reb!AtRest EXCEPT !.phase = "queued"] ELSE Reb!AtRest]

LEMMA AllRest ==
  ASSUME Reb!RebuildAssumption, RebuildInv, NEW queue, Renewed(queue)
  PROVE  RebuildInv'
<1>1. RebuildTypes
  BY DEF RebuildInv
<1>2. Reb!AtRest = [Reb!AtRest EXCEPT !.phase = "idle"]
  BY DEF Reb!AtRest
<1>3. \A p \in Reb!Projects : rb'[p] \in RebuildJobs
        /\ JobInv(p, rb'[p], cmd'.kind, cmd'.skip, built'[p], effects', pendingBuilds'[p], allowed')
  <2> TAKE p \in Reb!Projects
  <2>1. PICK ph \in {"idle", "queued"} : rb'[p] = [Reb!AtRest EXCEPT !.phase = ph]
    BY <1>2 DEF Renewed
  <2> DEFINE r == [Reb!AtRest EXCEPT !.phase = ph]
  <2>2. /\ r \in RebuildJobs
        /\ JobInv(p, r, cmd'.kind, cmd'.skip, built'[p], effects', pendingBuilds'[p], allowed')
    BY RestIsRight
  <2>3. rb'[p] = r
    BY <2>1
  <2> HIDE DEF r
  <2> QED BY <2>2, <2>3
<1> USE DEF Renewed
<1>4. rb' \in [Reb!Projects -> RebuildJobs]
  BY <1>3
<1>5. RebuildTypes'
  BY <1>1, <1>4 DEF RebuildTypes
<1>6. Reb!NothingIsForgotten' /\ Reb!ProjectIsPending'
  BY FilesStay DEF RebuildInv
<1>7. cmd'.phase = "running" => \A i \in DOMAIN RebChunks : ~(i < cmd'.chunk)
  BY RebuildConstants
<1> QED BY <1>3, <1>5, <1>6, <1>7 DEF RebuildInv

LEMMA RebuildCommandBegins ==
  ASSUME Reb!RebuildAssumption, RebuildInv, allowed' \subseteq Reb!Packages,
         NEW how \in {"all", "pending", "selected"}, NEW sel \in SUBSET Reb!Packages,
         NEW skip \in BOOLEAN, NEW bail \in BOOLEAN, NEW projects \in SUBSET Reb!Projects,
         Reb!Start(how, sel, skip, bail, projects)
  PROVE  RebuildInv'
<1>1. cmd' = [phase |-> "running", kind |-> how, sel |-> sel, skip |-> skip, bail |-> bail, chunk |-> 1,
              projects |-> projects]
  BY DEF Reb!Start
<1>2. cmd' \in RebuildCommands /\ cmd'.phase = "running" /\ cmd'.chunk = 1
  BY <1>1 DEF RebuildCommands
<1>3. UNCHANGED <<pendingBuilds, ignoredBuilds, built, effects, forgotten>>
  BY DEF Reb!Start
<1>4. rb' = [p \in Reb!Projects |->
               IF p \in projects THEN [Reb!AtRest EXCEPT !.phase = "queued"] ELSE Reb!AtRest]
  <2>1. Reb!AtRest = [Reb!AtRest EXCEPT !.phase = "idle"]
    BY DEF Reb!AtRest
  <2>2. rb' = [p \in Reb!Projects |->
                 [Reb!AtRest EXCEPT !.phase = IF p \in projects THEN "queued" ELSE "idle"]]
    BY DEF Reb!Start
  <2>3. \A p \in Reb!Projects :
          [Reb!AtRest EXCEPT !.phase = IF p \in projects THEN "queued" ELSE "idle"]
            = IF p \in projects THEN [Reb!AtRest EXCEPT !.phase = "queued"] ELSE Reb!AtRest
    BY <2>1
  <2> QED BY <2>2, <2>3
<1>5. Renewed(projects)
  BY <1>2, <1>3, <1>4 DEF Renewed
<1> QED BY <1>5, AllRest

LEMMA CommandBeginsOrEnds ==
  ASSUME Reb!RebuildAssumption, RebuildInv,
         \/ Reb!Exit \/ Reb!Kill
         \/ \E how \in {"all", "pending", "selected"}, sel \in SUBSET Reb!Packages, skip, bail \in BOOLEAN :
              Reb!RebuildCommand(how, sel, skip, bail)
         \/ \E p \in Reb!Projects : \E approved \in SUBSET ignoredBuilds[p] : Reb!ApproveBuilds(p, approved)
  PROVE  RebuildInv'
<1>1. RebuildTypes /\ (cmd.phase \in {"running", "rejected"} => cmd \in RebuildCommands)
  BY DEF RebuildInv, RebuildTypes, Reb!NoCommand
<1>2. CASE Reb!Exit
  <2>1. cmd' \in RebuildCommands /\ cmd'.phase = "rejected"
        /\ UNCHANGED <<pendingBuilds, ignoredBuilds, built, effects, forgotten>>
        /\ allowed' \subseteq Reb!Packages
    BY <1>1, <1>2 DEF Reb!Exit, RebuildTypes
  <2>2. rb' = [p \in Reb!Projects |->
                 IF p \in {} THEN [Reb!AtRest EXCEPT !.phase = "queued"] ELSE Reb!AtRest]
    BY <1>2 DEF Reb!Exit
  <2>3. Renewed({})
    BY <2>1, <2>2 DEF Renewed
  <2> QED BY <2>3, AllRest
<1>3. CASE Reb!Kill
  <2>1. cmd' \in RebuildCommands /\ cmd'.phase = "killed"
        /\ UNCHANGED <<pendingBuilds, ignoredBuilds, built, effects, forgotten>>
        /\ allowed' \subseteq Reb!Packages
    BY <1>1, <1>3 DEF Reb!Kill, RebuildTypes, RebuildCommands
  <2>2. rb' = [p \in Reb!Projects |->
                 IF p \in {} THEN [Reb!AtRest EXCEPT !.phase = "queued"] ELSE Reb!AtRest]
    BY <1>3 DEF Reb!Kill
  <2>3. Renewed({})
    BY <2>1, <2>2 DEF Renewed
  <2> QED BY <2>3, AllRest
<1>4. ASSUME NEW how \in {"all", "pending", "selected"}, NEW sel \in SUBSET Reb!Packages,
             NEW skip \in BOOLEAN, NEW bail \in BOOLEAN, Reb!RebuildCommand(how, sel, skip, bail)
      PROVE  RebuildInv'
  <2>1. Reb!Start(how, sel, skip, bail, Reb!Projects) /\ allowed' \subseteq Reb!Packages
    BY <1>1, <1>4 DEF Reb!RebuildCommand, RebuildTypes
  <2> QED BY <2>1, RebuildCommandBegins
<1>5. ASSUME NEW p \in Reb!Projects, NEW approved \in SUBSET ignoredBuilds[p], Reb!ApproveBuilds(p, approved)
      PROVE  RebuildInv'
  <2>1. approved \subseteq Reb!Packages
    BY <1>1 DEF RebuildTypes
  <2>2. Reb!Start("selected", approved, FALSE, TRUE, {p}) /\ allowed' \subseteq Reb!Packages
    BY <1>1, <1>5, <2>1 DEF Reb!ApproveBuilds, RebuildTypes
  <2> DEFINE how == "selected"
             skip == FALSE
             bail == TRUE
             projects == {p}
  <2>3. /\ how \in {"all", "pending", "selected"} /\ skip \in BOOLEAN /\ bail \in BOOLEAN
        /\ projects \in SUBSET Reb!Projects /\ Reb!Start(how, approved, skip, bail, projects)
    BY <2>2
  <2> HIDE DEF how, skip, bail, projects
  <2> QED BY <2>1, <2>2, <2>3, RebuildCommandBegins
<1> QED BY <1>2, <1>3, <1>4, <1>5

LEMMA ChunkIsDone ==
  ASSUME Reb!RebuildAssumption, RebuildInv, Reb!NextChunk
  PROVE  RebuildInv'
<1>1. RebuildTypes
  BY DEF RebuildInv
<1>2. /\ cmd.phase = "running" /\ \A p \in Reb!InChunk : rb[p].phase \in {"passed", "failed"}
      /\ UNCHANGED <<pendingBuilds, ignoredBuilds, built, effects, rb, forgotten, allowed>>
  BY DEF Reb!NextChunk, Reb!Keep
<1>3. cmd \in RebuildCommands /\ cmd.chunk \in Nat \ {0}
  BY <1>1, <1>2 DEF RebuildTypes, Reb!NoCommand, RebuildCommands
<1>4. cmd' = IF cmd.chunk < Len(RebChunks) THEN [cmd EXCEPT !.chunk = @ + 1]
             ELSE [cmd EXCEPT !.phase =
                     IF \E p \in cmd.projects : rb[p].phase = "failed" THEN "rejected" ELSE "resolved"]
  BY DEF Reb!NextChunk
<1>5. /\ cmd' \in RebuildCommands /\ cmd'.kind = cmd.kind /\ cmd'.skip = cmd.skip
      /\ cmd'.projects = cmd.projects
  BY <1>3, <1>4 DEF RebuildCommands
<1>6. \A i \in DOMAIN RebChunks : \A p \in RebChunks[i] \cap cmd.projects :
        i <= cmd.chunk => rb[p].phase \in {"passed", "failed"}
  <2> SUFFICES ASSUME NEW i \in DOMAIN RebChunks, NEW p \in RebChunks[i] \cap cmd.projects, i <= cmd.chunk
               PROVE  rb[p].phase \in {"passed", "failed"}
    OBVIOUS
  <2>1. CASE i < cmd.chunk
    BY <1>2, <2>1 DEF RebuildInv
  <2>2. CASE i = cmd.chunk
    BY <1>2, <2>2 DEF Reb!InChunk
  <2>3. i \in Nat
    BY RebuildConstants
  <2> QED BY <1>3, <2>1, <2>2, <2>3
<1>7. RebuildTypes'
  BY <1>1, <1>2, <1>5 DEF RebuildTypes
<1>8. \A p \in Reb!Projects :
        JobInv(p, rb'[p], cmd'.kind, cmd'.skip, built'[p], effects', pendingBuilds'[p], allowed')
  BY <1>2, <1>5 DEF RebuildInv
<1>9. cmd'.phase = "running" =>
        \A i \in DOMAIN RebChunks : \A p \in RebChunks[i] \cap cmd'.projects :
          i < cmd'.chunk => rb'[p].phase \in {"passed", "failed"}
  <2> SUFFICES ASSUME cmd'.phase = "running", NEW i \in DOMAIN RebChunks,
                      NEW p \in RebChunks[i] \cap cmd.projects, i < cmd'.chunk
               PROVE  rb[p].phase \in {"passed", "failed"}
    BY <1>2, <1>5
  <2>1. cmd'.chunk = cmd.chunk + 1
    BY <1>3, <1>4 DEF RebuildCommands
  <2>2. i \in Nat
    BY RebuildConstants
  <2>3. i <= cmd.chunk
    BY <1>3, <2>1, <2>2
  <2> QED BY <1>6, <2>3
<1>10. cmd'.phase = "resolved" => \A p \in cmd'.projects : rb'[p].phase = "passed"
  <2> SUFFICES ASSUME cmd'.phase = "resolved", NEW p \in cmd.projects PROVE rb[p].phase = "passed"
    BY <1>2, <1>5
  <2>1. ~(cmd.chunk < Len(RebChunks)) /\ rb[p].phase # "failed"
    BY <1>2, <1>3, <1>4 DEF RebuildCommands
  <2>2. PICK i \in DOMAIN RebChunks : p \in RebChunks[i]
    BY <1>3, RebuildConstants DEF RebuildCommands
  <2>3. i <= cmd.chunk
    BY <1>3, <2>1, RebuildConstants
  <2> QED BY <1>6, <2>1, <2>2, <2>3
<1>11. Reb!NothingIsForgotten' /\ Reb!ProjectIsPending'
  BY <1>2, FilesStay DEF RebuildInv
<1> QED BY <1>7, <1>8, <1>9, <1>10, <1>11 DEF RebuildInv

LEMMA RebuildStep ==
  ASSUME Reb!RebuildAssumption, RebuildInv, [Reb!Next]_Reb!rebuildVars
  PROVE  RebuildInv'
<1>1. ASSUME NEW p \in Reb!Projects, Reb!ProjectStep(p) PROVE RebuildInv'
  BY <1>1, StartsProject, GroupEnds, HooksRun, WritesState, StartsBuild, ScriptsEndBadly, ScriptsEndWell,
     HooksBreak DEF Reb!ProjectStep
<1>2. CASE \/ Reb!Exit \/ Reb!Kill
           \/ \E how \in {"all", "pending"}, skip, bail \in BOOLEAN : Reb!RebuildCommand(how, {}, skip, bail)
           \/ \E sel \in RebSelections, bail \in BOOLEAN : Reb!RebuildCommand("selected", sel, FALSE, bail)
           \/ \E p \in Reb!Projects : \E approved \in SUBSET ignoredBuilds[p] : Reb!ApproveBuilds(p, approved)
  <2> DEFINE Commands_ ==
        \E how \in {"all", "pending", "selected"}, sel \in SUBSET Reb!Packages, skip, bail \in BOOLEAN :
          Reb!RebuildCommand(how, sel, skip, bail)
  <2>1. ASSUME NEW how \in {"all", "pending"}, NEW skip \in BOOLEAN, NEW bail \in BOOLEAN,
               Reb!RebuildCommand(how, {}, skip, bail)
        PROVE  Commands_
    <3>1. how \in {"all", "pending", "selected"} /\ {} \in SUBSET Reb!Packages
      OBVIOUS
    <3> QED BY <2>1, <3>1
  <2>2. ASSUME NEW sel \in RebSelections, NEW bail \in BOOLEAN,
               Reb!RebuildCommand("selected", sel, FALSE, bail)
        PROVE  Commands_
    <3>1. sel \in SUBSET Reb!Packages
      BY RebuildConstants
    <3> QED BY <2>2, <3>1
  <2>3. \/ Reb!Exit \/ Reb!Kill \/ Commands_
        \/ \E p \in Reb!Projects : \E approved \in SUBSET ignoredBuilds[p] : Reb!ApproveBuilds(p, approved)
    BY <1>2, <2>1, <2>2
  <2> QED BY <2>3, CommandBeginsOrEnds
<1>3. CASE Reb!NextChunk
  BY <1>3, ChunkIsDone
<1>4. CASE UNCHANGED Reb!rebuildVars
  BY <1>4 DEF Reb!rebuildVars, RebuildInv, RebuildTypes, Reb!NothingIsForgotten, Reb!ProjectIsPending
<1> QED BY <1>1, <1>2, <1>3, <1>4 DEF Reb!Next, Reb!RebuildStep, Reb!Quiet

\* Before the first command what is to be built is pending, ignored or built.
LEMMA RebuildStarts ==
  ASSUME Reb!RebuildAssumption, Reb!Init
  PROVE  RebuildInv
<1> DEFINE toBuild(p) == Reb!InLockfile[p] \cap RebHasScripts
           own(p) == IF p \in RebProjectScripts THEN <<Reb!Self>> ELSE <<>>
<1>1. PICK ran \in SUBSET Reb!Projects,
           order \in [Reb!Projects -> UNION {Reb!Orders(toBuild(p)) : p \in Reb!Projects}] :
        /\ \A p \in Reb!Projects : order[p] \in Reb!Orders(toBuild(p))
        /\ pendingBuilds = [p \in Reb!Projects |-> IF p \in ran THEN <<>> ELSE own(p) \o order[p]]
        /\ ignoredBuilds = [p \in Reb!Projects |-> IF p \in ran THEN toBuild(p) \ allowed ELSE {}]
        /\ built = [p \in Reb!Projects |->
             IF p \in ran THEN (toBuild(p) \cap allowed) \cup Reb!Range(own(p)) ELSE {}]
  BY DEF Reb!Init, Reb!ToBuild, Reb!OwnScripts
<1>2. /\ allowed \in RebAllowed /\ effects = {} /\ cmd = Reb!NoCommand
      /\ rb = [p \in Reb!Projects |-> Reb!AtRest] /\ forgotten = [p \in Reb!Projects |-> {}]
  BY DEF Reb!Init
<1>3. \A p \in Reb!Projects : toBuild(p) \subseteq Reb!Packages
  BY RebuildConstants
<1>4. ASSUME NEW p \in Reb!Projects
      PROVE  order[p] \in Seq(toBuild(p)) /\ Reb!Range(order[p]) = toBuild(p)
  <2>1. IsFiniteSet(toBuild(p))
    <3>1. IsFiniteSet(Reb!Packages)
      <4>1. Reb!IsFiniteSet(Reb!Packages)
        BY DEF Reb!RebuildAssumption
      <4> QED BY <4>1, Zenon DEF Reb!IsFiniteSet, IsFiniteSet
    <3> QED BY <1>3, <3>1, FS_Subset
  <2>2. Reb!Cardinality(toBuild(p)) \in Nat
    <3>1. Cardinality(toBuild(p)) \in Nat
      BY <2>1, FS_CardinalityType
    <3>2. Reb!Cardinality(toBuild(p)) = Cardinality(toBuild(p))
      BY Zenon DEF Reb!Cardinality, Cardinality
    <3> QED BY <3>1, <3>2
  <2>3. order[p] \in [1..Reb!Cardinality(toBuild(p)) -> toBuild(p)] /\ Reb!Range(order[p]) = toBuild(p)
    BY <1>1 DEF Reb!Orders
  <2> DEFINE n == Reb!Cardinality(toBuild(p))
             S == toBuild(p)
             list == order[p]
  <2>4. n \in Nat /\ list \in [1..n -> S]
    BY <2>2, <2>3
  <2> HIDE DEF n, S, list
  <2>5. list \in Seq(S)
    BY <2>4
  <2> QED BY <2>3, <2>5 DEF S, list
<1>5. ASSUME NEW p \in Reb!Projects
      PROVE  own(p) \in Seq({Reb!Self})
             /\ Reb!Range(own(p)) = IF p \in RebProjectScripts THEN {Reb!Self} ELSE {}
  <2>1. /\ <<>> \in Seq({Reb!Self}) /\ <<Reb!Self>> \in Seq({Reb!Self})
        /\ Reb!Range(<<>>) = {} /\ Reb!Range(<<Reb!Self>>) = {Reb!Self}
    BY DEF Reb!Range
  <2> QED BY <2>1
<1>6. ASSUME NEW p \in Reb!Projects
      PROVE  /\ pendingBuilds[p] \in Seq(Entries)
             /\ Reb!Range(pendingBuilds[p]) =
                  IF p \in ran THEN {} ELSE Reb!Range(own(p)) \cup toBuild(p)
  <2>1. CASE p \in ran
    BY <1>1, <2>1 DEF Reb!Range
  <2>2. CASE p \notin ran
    <3> DEFINE s == own(p)
               t == order[p]
    <3>1. s \in Seq(Entries) /\ t \in Seq(Entries)
      <4> DEFINE S == toBuild(p)
      <4>1. s \in Seq({Reb!Self}) /\ t \in Seq(S)
        BY <1>4, <1>5
      <4>2. S \subseteq Entries /\ {Reb!Self} \subseteq Entries
        BY <1>3 DEF Entries
      <4> HIDE DEF s, t, S
      <4> QED BY <4>1, <4>2
    <3>2. pendingBuilds[p] = s \o t
      BY <1>1, <2>2
    <3> HIDE DEF s, t
    <3>3. s \o t \in Seq(Entries) /\ DOMAIN s = 1..Len(s) /\ DOMAIN t = 1..Len(t)
          /\ DOMAIN (s \o t) = 1..(Len(s) + Len(t)) /\ Len(s) \in Nat /\ Len(t) \in Nat
      BY <3>1
    <3>4. \A i \in 1..Len(s) : (s \o t)[i] = s[i]
      BY <3>1
    <3>5. \A i \in 1..Len(t) : (s \o t)[Len(s) + i] = t[i]
      BY <3>1
    <3>6. ASSUME NEW i \in DOMAIN (s \o t) PROVE (s \o t)[i] \in Reb!Range(s) \cup Reb!Range(t)
      <4>1. CASE i <= Len(s)
        BY <3>3, <3>4, <4>1 DEF Reb!Range
      <4>2. CASE ~(i <= Len(s))
        <5>1. i - Len(s) \in 1..Len(t) /\ i = Len(s) + (i - Len(s))
          BY <3>3, <4>2
        <5> QED BY <3>3, <3>5, <5>1 DEF Reb!Range
      <4> QED BY <4>1, <4>2
    <3>7. Reb!Range(s) \subseteq Reb!Range(s \o t)
      <4>1. \A i \in DOMAIN s : i \in DOMAIN (s \o t) /\ (s \o t)[i] = s[i]
        BY <3>3, <3>4
      <4> QED BY <4>1 DEF Reb!Range
    <3>8. Reb!Range(t) \subseteq Reb!Range(s \o t)
      <4>1. \A i \in DOMAIN t : Len(s) + i \in DOMAIN (s \o t) /\ (s \o t)[Len(s) + i] = t[i]
        BY <3>3, <3>5
      <4> QED BY <4>1 DEF Reb!Range
    <3>9. Reb!Range(s \o t) = Reb!Range(s) \cup Reb!Range(t)
      BY <3>6, <3>7, <3>8 DEF Reb!Range
    <3>10. Reb!Range(t) = toBuild(p)
      BY <1>4 DEF t
    <3> QED BY <2>2, <3>2, <3>3, <3>9, <3>10 DEF s
  <2> QED BY <2>1, <2>2
<1>7. pendingBuilds \in [Reb!Projects -> Seq(Entries)]
  BY <1>1, <1>6
<1>8. \A p \in Reb!Projects : Reb!Range(pendingBuilds[p]) \subseteq Reb!InLockfile[p] \cup {Reb!Self}
  BY <1>5, <1>6
<1>9. ASSUME NEW p \in Reb!Projects
      PROVE  built[p] \subseteq Reb!InLockfile[p] \cup {Reb!Self} /\ built[p] \subseteq Entries
  BY <1>1, <1>3, <1>5 DEF Entries
<1>10. Reb!AtRest = [Reb!AtRest EXCEPT !.phase = "idle"]
  BY DEF Reb!AtRest
<1>11. \A p \in Reb!Projects : rb[p] \in RebuildJobs
         /\ JobInv(p, rb[p], cmd.kind, cmd.skip, built[p], effects, pendingBuilds[p], allowed)
  <2> TAKE p \in Reb!Projects
  <2>1. PICK ph \in {"idle", "queued"} : rb[p] = [Reb!AtRest EXCEPT !.phase = ph]
    BY <1>2, <1>10
  <2> DEFINE r == [Reb!AtRest EXCEPT !.phase = ph]
  <2>2. /\ r \in RebuildJobs
        /\ JobInv(p, r, cmd.kind, cmd.skip, built[p], effects, pendingBuilds[p], allowed)
    BY RestIsRight
  <2>3. rb[p] = r
    BY <2>1
  <2> HIDE DEF r
  <2> QED BY <2>2, <2>3
<1>12. RebuildTypes
  <2>1. rb \in [Reb!Projects -> RebuildJobs]
    BY <1>2, <1>11
  <2>2. built \in [Reb!Projects -> SUBSET Entries]
    BY <1>1, <1>9
  <2>3. /\ ignoredBuilds \in [Reb!Projects -> SUBSET Reb!Packages]
        /\ forgotten \in [Reb!Projects -> SUBSET Reb!Packages]
    BY <1>1, <1>2, <1>3
  <2>4. allowed \subseteq Reb!Packages
    BY <1>2, RebuildConstants
  <2> QED BY <1>2, <1>7, <1>8, <1>9, <2>1, <2>2, <2>3, <2>4 DEF RebuildTypes
<1>13. Reb!NothingIsForgotten
  <2> SUFFICES ASSUME NEW p \in Reb!Projects, NEW k \in toBuild(p)
               PROVE  k \in built[p] \cup Reb!Range(pendingBuilds[p]) \cup ignoredBuilds[p]
    BY DEF Reb!NothingIsForgotten
  <2>1. CASE p \in ran
    BY <1>1, <2>1
  <2>2. CASE p \notin ran
    BY <1>6, <2>2
  <2> QED BY <2>1, <2>2
<1>14. Reb!ProjectIsPending
  <2> SUFFICES ASSUME NEW p \in RebProjectScripts
               PROVE  Reb!Self \in built[p] \cup Reb!Range(pendingBuilds[p])
    BY DEF Reb!ProjectIsPending
  <2>0. p \in Reb!Projects
    BY RebuildConstants
  <2>1. CASE p \in ran
    BY <1>1, <1>5, <2>0, <2>1
  <2>2. CASE p \notin ran
    BY <1>5, <1>6, <2>0, <2>2
  <2> QED BY <2>1, <2>2
<1>15. cmd.phase = "idle"
  BY <1>2 DEF Reb!NoCommand
<1> QED BY <1>11, <1>12, <1>13, <1>14, <1>15 DEF RebuildInv

LEMMA RebuildInvariant == ASSUME Reb!RebuildAssumption PROVE Reb!Spec => []RebuildInv
<1>1. Reb!Init => RebuildInv
  BY RebuildStarts
<1>2. RebuildInv /\ [Reb!Next]_Reb!rebuildVars => RebuildInv'
  BY RebuildStep
<1> QED BY <1>1, <1>2, PTL DEF Reb!Spec

\* The states of a rebuild are what they should be.
THEOREM RebuildTypeCorrect == ASSUME Reb!RebuildAssumption PROVE Reb!Spec => []Reb!RebuildTypeOK
<1>1. ASSUME RebuildInv PROVE Reb!RebuildTypeOK
  <2>1. RebuildTypes
    BY <1>1 DEF RebuildInv
  <2>2. ASSUME NEW p \in Reb!Projects
        PROVE  rb[p].running \subseteq Reb!Packages /\ rb[p].rebuilt \subseteq rb[p].ended
    BY <1>1, <2>1 DEF RebuildInv, JobInv, RebuildTypes, RebuildJobs
  <2>3. ASSUME NEW p \in Reb!Projects PROVE Reb!Range(pendingBuilds[p]) \subseteq Entries
    BY <2>1 DEF RebuildTypes, Reb!Range
  <2> QED BY <2>1, <2>2, <2>3 DEF RebuildTypes, Reb!RebuildTypeOK, Entries
<1>2. RebuildInv => Reb!RebuildTypeOK
  BY <1>1
<1> QED BY <1>2, RebuildInvariant, PTL

\* The scripts of a package start when those of its dependencies that are
\* rebuilt too have ended, and those below what is not rebuilt (runGroups: the
\* groups one after the other, each with all its builds).
THEOREM RebuildsDependenciesFirst ==
  ASSUME Reb!RebuildAssumption
  PROVE  Reb!Spec => []Reb!DependenciesRebuiltFirst
<1>1. RebuildInv => Reb!DependenciesRebuiltFirst
  <2> SUFFICES ASSUME RebuildInv, NEW p \in Reb!Projects, NEW k \in rb[p].running,
                      NEW d \in Reb!Below[k] \cap rb[p].targets,
                      d \in Reb!Range(RebDeps[k]) \/ Reb!OnlyBelow(p, d, k)
               PROVE  d \in rb[p].ended
    BY DEF Reb!DependenciesRebuiltFirst
  <2>1. /\ rb[p] \in RebuildJobs
        /\ JobInv(p, rb[p], cmd.kind, cmd.skip, built[p], effects, pendingBuilds[p], allowed)
    BY AtStep
  <2>2. rb[p].group \in DOMAIN rb[p].groups /\ k \in rb[p].groups[rb[p].group]
    BY <2>1 DEF JobInv, GroupOf
  <2>3. rb[p].groups = Reb!Groups(p, rb[p].targets)
    BY <2>1 DEF JobInv
  <2>4. rb[p].targets \in SUBSET Reb!Packages
    BY <2>1 DEF RebuildJobs
  <2> DEFINE g == Reb!Groups(p, rb[p].targets)
  <2>5. \A i \in DOMAIN g : \A j \in g[i] : \A e \in Reb!Below[j] \cap rb[p].targets :
          e \in Reb!Range(RebDeps[j]) \/ Reb!OnlyBelow(p, e, j) => \E h \in 1..(i - 1) : e \in g[h]
    BY <2>4, RebuildsComeInOrder DEF Reb!GroupsAreRight
  <2> HIDE DEF g
  <2>6. rb[p].groups = g
    BY <2>3 DEF g
  <2>7. PICK h \in 1..(rb[p].group - 1) : d \in rb[p].groups[h]
    BY <2>2, <2>5, <2>6
  <2>8. rb[p].groups \in Seq(SUBSET Reb!Packages)
    BY <2>1 DEF RebuildJobs
  <2>9. h \in DOMAIN rb[p].groups /\ h < rb[p].group
    BY <2>2, <2>8
  <2> QED BY <2>1, <2>7, <2>9 DEF JobInv
<1> QED BY <1>1, RebuildInvariant, PTL

\* A command that ends well has built what it was asked to, of what may be built
\* and must not fail; a package it passed by was just uploaded by another
\* project that has it (the rebuild at the end of an install).
THEOREM RebuiltOnesAreBuilt ==
  ASSUME Reb!RebuildAssumption
  PROVE  Reb!Spec => []Reb!RebuiltIsBuilt
<1>1. RebuildInv => Reb!RebuiltIsBuilt
  <2> SUFFICES ASSUME RebuildInv, cmd.phase = "resolved", NEW p \in cmd.projects,
                      NEW k \in (rb[p].targets \cap RebHasScripts \cap allowed) \ RebOptional
               PROVE  k \in built[p] \/ (cmd.skip /\ Reb!OfAnother(p, k))
    BY DEF Reb!RebuiltIsBuilt
  <2>1. RebuildTypes /\ cmd \in RebuildCommands
    BY DEF RebuildInv, RebuildTypes, Reb!NoCommand
  <2>2. p \in Reb!Projects /\ rb[p].phase = "passed"
    BY <2>1 DEF RebuildInv, RebuildCommands
  <2>3. /\ rb[p] \in RebuildJobs
        /\ JobInv(p, rb[p], cmd.kind, cmd.skip, built[p], effects, pendingBuilds[p], allowed)
    BY <2>2, AtStep
  <2>4. k \in rb[p].ended
    <3>1. rb[p].groups = Reb!Groups(p, rb[p].targets) /\ rb[p].targets \in SUBSET Reb!Packages
      BY <2>2, <2>3 DEF JobInv, AtWork, RebuildJobs
    <3>2. UNION {rb[p].groups[i] : i \in DOMAIN rb[p].groups} = rb[p].targets \cap Reb!InLockfile[p]
      BY <2>2, <3>1, GroupsOf
    <3>3. k \in rb[p].targets \cap Reb!InLockfile[p]
      BY <2>3 DEF JobInv
    <3>4. PICK i \in DOMAIN rb[p].groups : k \in rb[p].groups[i]
      BY <3>2, <3>3
    <3> QED BY <2>2, <2>3, <3>4 DEF JobInv
  <2>5. k \in rb[p].rebuilt
    BY <2>2, <2>3, <2>4 DEF JobInv
  <2>6. k \in built[p] \/ (cmd.skip /\ k \in effects)
    BY <2>3, <2>5 DEF JobInv
  <2>7. CASE k \notin built[p]
    <3>1. PICK q \in Reb!Projects : k \in built[q]
      BY <2>1, <2>6, <2>7 DEF RebuildTypes
    <3>2. k \in Reb!InLockfile[q]
      BY <2>1, <3>1, RebuildConstants DEF RebuildTypes
    <3> QED BY <2>6, <2>7, <3>1, <3>2 DEF Reb!OfAnother
  <2> QED BY <2>7
<1> QED BY <1>1, RebuildInvariant, PTL

\* What is not built is pending or among the ignored builds of its project,
\* but for what is known to be lost (writeModulesManifest at the end of a
\* rebuild), in whatever order commands fail, are killed and follow each other.
THEOREM NothingGetsForgotten ==
  ASSUME Reb!RebuildAssumption
  PROVE  Reb!Spec => []Reb!NothingIsForgotten
<1>1. RebuildInv => Reb!NothingIsForgotten
  BY DEF RebuildInv
<1> QED BY <1>1, RebuildInvariant, PTL

\* A project's own scripts stay pending until they have run.
THEOREM ProjectsStayPending ==
  ASSUME Reb!RebuildAssumption
  PROVE  Reb!Spec => []Reb!ProjectIsPending
<1>1. RebuildInv => Reb!ProjectIsPending
  BY DEF RebuildInv
<1> QED BY <1>1, RebuildInvariant, PTL

-----------------------------------------------------------------------------
\* The properties of the composed model

\* A behaviour about a recursive run is one of its model.
LEMMA RunAlone == Spec => []~About("run") \/ Run!SafetySpec
<1>1. Init /\ About("run") => Run!Init
  BY DEF Init, About
<1>2. About("run") /\ [Next]_vars => About("run")' /\ [Run!Next]_Run!runVars
  BY SubjectStays DEF Next, vars, runVars, Run!runVars, About
<1>3. ~About("run") /\ [Next]_vars => ~About("run")'
  BY SubjectStays DEF About
<1> QED BY <1>1, <1>2, <1>3, PTL DEF Spec, Run!SafetySpec

\* pnpm -r run, for all projects, scripts and flags: scripts start after those
\* of the dependencies, a run that succeeds had no failure, and the summary of
\* one that fails names a project that failed.
THEOREM RunsAreSound == Spec => []RunIsSound
<1>1. Run!RunAssumption
  BY ComponentsAssumption
<1>2. (About("run") => Run!DependenciesFirst /\ Run!SuccessMeansAllPassed /\ Run!FailureIsInTheSummary)
      => RunIsSound
  BY DEF RunIsSound, About
<1> QED
  BY <1>1, <1>2, RunAlone, RunsDependenciesFirst, SuccessIsTrue, FailuresAreReported, PTL

\* A behaviour about rebuilds is one of their model.
LEMMA RebuildAlone == Spec => []~About("rebuild") \/ Reb!Spec
<1>1. Init /\ About("rebuild") => Reb!Init
  BY DEF Init, About
<1>2. About("rebuild") /\ [Next]_vars => About("rebuild")' /\ [Reb!Next]_Reb!rebuildVars
  BY SubjectStays DEF Next, vars, rebVars, Reb!rebuildVars, About
<1>3. ~About("rebuild") /\ [Next]_vars => ~About("rebuild")'
  BY SubjectStays DEF About
<1> QED BY <1>1, <1>2, <1>3, PTL DEF Spec, Reb!Spec

\* pnpm rebuild, for all projects, packages and flags: dependencies are built
\* first, a command that ends well has built what it should, and what is not
\* built is pending or listed as ignored, whatever fails or is killed.
THEOREM RebuildsAreSound == Spec => []RebuildIsSound
<1>1. Reb!RebuildAssumption
  BY ComponentsAssumption
<1>2. (About("rebuild") => /\ Reb!DependenciesRebuiltFirst /\ Reb!RebuiltIsBuilt
                          /\ Reb!NothingIsForgotten /\ Reb!ProjectIsPending) => RebuildIsSound
  BY DEF RebuildIsSound, About
<1> QED
  BY <1>1, <1>2, RebuildAlone, RebuildsDependenciesFirst, RebuiltOnesAreBuilt, NothingGetsForgotten,
     ProjectsStayPending, PTL
=============================================================================
