SPECIFICATION FairSpec
CONSTANTS
  Calls = {c1, c2}
  reg = reg
  tgz = tgz
  dir = dir
  link = link
  Pkgs <- AllPkgs
  Kind <- KindOf
  HasManifest <- AllPkgs
  Incompatible = {reg}
  EngineStrict = TRUE
  Menu <- TgzAndPaths
  Slots = 1
  MaxVer = 2
  MaxFaults = 1
  NoEntry = NoEntry
  NoReq = NoReq
  NoRef = NoRef
INVARIANT RawCallsGetManifest
INVARIANT FetchReadsTheTarball
PROPERTY CallsSettle
