CONSTANTS
  ChildBit <- MCChildBit
  ParentMax <- MCParentMax
  ChildMax <- MCChildMax
  ModelBaseKinds <- MCBaseKinds
  ModelAliasKinds <- MCAliasKinds
SPECIFICATION Spec
INVARIANT ErrorReportedToCaller
