SPECIFICATION FairSpec
CONSTANTS
  a = a
  b = b
  c1 = c1
  c2 = c2
  Nodes = {a, b}
  Remote <- MCRemote
  Paths = {f1}
  Contents = {c1, c2}
  Zero = Zero
  Hashes = {c1, c2, Zero}
  ChunkCount <- MCChunkCount
  NoEntry = NoEntry
  NoFile = NoFile
  MaxTime = 1
  MaxEdits = 1
  MaxActions = 2
INVARIANT TypeOK
INVARIANT DecisionsAgree
INVARIANT OnlyAnnouncedRequested
INVARIANT FilesSentWhole
PROPERTY ComesToRest
\* The bounds on edits and actions stop every behaviour.
CHECK_DEADLOCK FALSE
