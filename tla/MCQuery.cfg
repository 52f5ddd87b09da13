CONSTANTS
  ChildBit <- MCChildBit
  ParentMax <- MCParentMax
  ChildMax = 2
  LStructThresh <- MCLStructThresh
  PointerWidth = 8
  Loaded <- QueryAndMemberFamily
  MemberNames <- MCMemberNames
  MaxCalls = 1
SPECIFICATION Spec
INVARIANT SizeAlignErrnoSet
INVARIANT CompatSymmetric
INVARIANT PointerRoundTrip
INVARIANT TypeCmpIsKey
INVARIANT MemberInfoSound
CHECK_DEADLOCK FALSE
