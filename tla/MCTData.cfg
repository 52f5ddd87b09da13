CONSTANTS
  TDs = {x1, x2}
  Tdescs <- MCTdescs
  Desc <- MCDesc
  ATOM_NULL = ATOM_NULL
  AtomHash <- MCAtomHash
  NBuckets = 4
  Labels = {L1, L2}
  Idxs <- MCIdxs
  NewMaxes = {0}
  IntBits = 4
  MaxNextId = 4
  MaxCalls = 6
SPECIFICATION Spec
INVARIANT TDataTypeOK
INVARIANT LabelsOrdered
INVARIANT NextIdFresh
 
INVARIANT LayoutLookupFinds
CHECK_DEADLOCK FALSE
