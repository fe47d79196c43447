\* Every call graph of up to three blocks with up to two calls each, some of
\* them to a function that has no block.
SPECIFICATION FairGraphSpec
CONSTANTS
  Ids = {0, 1, 2}
  NoEntry = NoEntry
  CalleeLists <- ShortCalleeLists
INVARIANTS GraphTypeOK KeptIsReachable NoRecursion CycleIsReal
PROPERTIES WalkEnds
CHECK_DEADLOCK FALSE
