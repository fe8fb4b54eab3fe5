SPECIFICATION Spec
CONSTANTS
  j1 = j1
  j2 = j2
  j3 = j3
  w1 = w1
  w2 = w2
  w3 = w3
  A = A
  B = B
  pid1 = pid1
  pid2 = pid2
  t1 = t1
  t2 = t2
  pkgP = pkgP
  pkgQ = pkgQ
  shared = shared
  fp = fp
  fq = fq
  NoWorker = NoWorker
  NoFile = NoFile
  Jobs = {j1, j2, j3}
  Workers = {w1, w2, w3}
  Procs = {A, B}
  Pids = {pid1, pid2}
  Threads = {t1, t2}
  Pkgs = {pkgP, pkgQ}
  Files = {shared, fp}
  ProcOf <- TwoProcsOf
  JobProc <- TwoProcsJobs
  PidOf <- TwoPids
  ThreadOf <- TwoThreads
  PkgOf <- ThreePkgOf
  FilesOf <- FilesOfSmall
  DirtyStore = FALSE
  MaxEdits = 0
  MaxCrashes = 1
INVARIANT TypeOK
INVARIANT IndexedPackagesAreComplete
INVARIANT ImportNeverMisses
INVARIANT NoBrokenFileAdded
PROPERTY ImplementsPackageStore
