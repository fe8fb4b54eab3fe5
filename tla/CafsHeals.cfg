SPECIFICATION FairSpec
CONSTANTS
  j1 = j1
  j2 = j2
  j3 = j3
  w1 = w1
  w2 = w2
  w3 = w3
  A = A
  B = B
  pid1 = pid1
  pid2 = pid2
  t1 = t1
  t2 = t2
  pkgP = pkgP
  pkgQ = pkgQ
  shared = shared
  fp = fp
  fq = fq
  NoWorker = NoWorker
  NoFile = NoFile
  Jobs = {j1, j2}
  Workers = {w1}
  Procs = {A}
  Pids = {pid1}
  Threads = {t1}
  Pkgs = {pkgP, pkgQ}
  Files = {shared, fp, fq}
  ProcOf <- OneProcOf
  JobProc <- OneProcJobs
  PidOf <- OnePid
  ThreadOf <- OneThread
  PkgOf <- TwoPkgOf
  FilesOf <- FilesOfPQ
  DirtyStore = TRUE
  MaxEdits = 1
  MaxCrashes = 1
INVARIANT ImportNeverMisses
PROPERTY StoreHeals
PROPERTY OnlyBrokenFilesAreRemoved
