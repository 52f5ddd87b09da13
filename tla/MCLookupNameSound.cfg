CONSTANTS
  ChildBit <- MCChildBit
  ParentMax = 2
  ChildMax = 3
  LStructThresh = 32
  PointerWidth = 8
  Loaded <- NameFamily
  MemberNames = {}
  MaxCalls = 1
  Qualifiers <- MCQualifiers
  Lookups <- MCLookups
  Names <- MCNames
SPECIFICATION NameSpec
INVARIANT LookupNameSound
CHECK_DEADLOCK FALSE
