SPECIFICATION Spec
CONSTANTS
  Calls = {c1, c2}
  reg = reg
  tgz = tgz
  dir = dir
  link = link
  Pkgs <- OnlyTgz
  Kind <- TgzKind
  HasManifest <- OnlyTgz
  Incompatible = {}
  EngineStrict = FALSE
  Menu <- TgzMenu
  Slots = 1
  MaxVer = 2
  MaxFaults = 0
  NoEntry = NoEntry
  NoReq = NoReq
  NoRef = NoRef
SYMMETRY CallSymmetry
INVARIANT ForcedCallGetsItsTarball
