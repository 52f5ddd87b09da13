CONSTANTS
  ChildBit <- MCChildBit
  ParentMax <- MCParentMax
  ChildMax = 1
  LStructThresh <- MCLStructThresh
  PointerWidth = 8
  Loaded <- MemberFamily
  MemberNames <- MCMemberNames
  MaxCalls = 1
SPECIFICATION Spec
INVARIANT MemberInfoFindsVisible
CHECK_DEADLOCK FALSE
