CONSTANTS
  VlenLimit <- MCVlenLimit
  Tables <- MCTables
  SymIdxs = {0, 1, 2}
  Argcs = {0, 1, 2}
  MaxCalls = 1
SPECIFICATION Spec
INVARIANT SymbolTypeOK
INVARIANT FuncInfoMatchesRecord
INVARIANT FuncArgsArePrefix
CHECK_DEADLOCK FALSE
