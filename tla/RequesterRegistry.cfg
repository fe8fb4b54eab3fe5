SPECIFICATION Spec
CONSTANTS
  Calls = {c1, c2, c3, c4}
  reg = reg
  tgz = tgz
  dir = dir
  link = link
  Pkgs <- OnlyReg
  Kind <- RegKind
  HasManifest <- OnlyReg
  Incompatible = {}
  EngineStrict = FALSE
  Menu <- ForcedMenu
  Slots = 2
  MaxVer = 1
  MaxFaults = 2
  NoEntry = NoEntry
  NoReq = NoReq
  NoRef = NoRef
SYMMETRY CallSymmetry
INVARIANT TypeOK
INVARIANT NoDoomedEntry
INVARIANT FetchedOnce
INVARIANT LateJoinersReuse
