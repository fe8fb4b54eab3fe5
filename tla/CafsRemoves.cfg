SPECIFICATION Spec
CONSTANTS
  j1 = j1
  j2 = j2
  j3 = j3
  w1 = w1
  w2 = w2
  w3 = w3
  A = A
  B = B
  pid1 = pid1
  pid2 = pid2
  t1 = t1
  t2 = t2
  pkgP = pkgP
  pkgQ = pkgQ
  shared = shared
  fp = fp
  fq = fq
  NoWorker = NoWorker
  NoFile = NoFile
  Jobs = {j1, j2}
  Workers = {w1, w2}
  Procs = {A}
  Pids = {pid1}
  Threads = {t1, t2}
  Pkgs = {pkgP, pkgQ}
  Files = {shared, fp, fq}
  ProcOf <- PoolProcOf
  JobProc <- OneProcJobs
  PidOf <- OnePid
  ThreadOf <- PoolThreads
  PkgOf <- TwoPkgOf
  FilesOf <- FilesOfPQ
  DirtyStore = TRUE
  MaxEdits = 0
  MaxCrashes = 0
PROPERTY OnlyBrokenFilesAreRemoved
