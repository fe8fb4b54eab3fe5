----------------------------- MODULE MCCafsStore -----------------------------
\* Instances of CafsStore for TLC: two packages that share a file.
EXTENDS CafsStore, TLC

CONSTANTS j1, j2, j3, w1, w2, w3, A, B, pid1, pid2, t1, t2,
          pkgP, pkgQ, shared, fp, fq

FilesOfPQ == (pkgP :> {shared, fp}) @@ (pkgQ :> {shared, fq})
\* Two files are enough when nothing is edited: both are in package P.
FilesOfSmall == (pkgP :> {shared, fp}) @@ (pkgQ :> {shared})
\* Three jobs, two of the same package, in two processes with three workers.
TwoProcsOf == (w1 :> A) @@ (w2 :> A) @@ (w3 :> B)
TwoProcsJobs == (j1 :> A) @@ (j2 :> A) @@ (j3 :> B)
ThreePkgOf == (j1 :> pkgP) @@ (j2 :> pkgQ) @@ (j3 :> pkgP)
TwoPids == (A :> pid1) @@ (B :> pid2)
TwoThreads == (w1 :> t1) @@ (w2 :> t2) @@ (w3 :> t1)
\* Two containers: processes of the same id, a worker and a job each.
ContainerProcOf == (w1 :> A) @@ (w3 :> B)
ContainerJobs == (j1 :> A) @@ (j2 :> B)
SamePids == (A :> pid1) @@ (B :> pid1)
ContainerThreads == (w1 :> t1) @@ (w3 :> t1)
\* One process, one worker.
OneProcOf == (w1 :> A)
OnePid == (A :> pid1)
OneThread == (w1 :> t1)
OneProcJobs == (j1 :> A) @@ (j2 :> A)
TwoPkgOf == (j1 :> pkgP) @@ (j2 :> pkgQ)
\* One process, two workers.
PoolProcOf == (w1 :> A) @@ (w2 :> A)
PoolThreads == (w1 :> t1) @@ (w2 :> t2)
=============================================================================
