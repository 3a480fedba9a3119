SPECIFICATION Spec
CONSTANTS
  Paths = {f1, f2}
  c1 = c1
  c2 = c2
  c3 = c3
  Contents <- MCContents
  Size <- MCSize
  ZeroHash = ZeroHash
  NoEntry = NoEntry
  DirSize = 4096
  MaxTime = 2
  Spaced = TRUE
  MayFail = FALSE
INVARIANT TypeOK
INVARIANT ReuseIsSound
INVARIANT UpdateMatchesRebuild
INVARIANT NoRecordOfAbsent
SYMMETRY PathSymmetry
