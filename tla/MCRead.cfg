CONSTANTS
  ChildBit <- MCChildBit
  ParentMax <- MCParentMax
  ChildMax = 2
  LStructThresh <- MCLStructThresh
  PointerWidth = 8
  Loaded <- CallsFamily
  MemberNames = {}
  MaxCalls = 1
  Stops <- MCStops
  EnumValues <- MCEnumValues
  EnumNames <- MCEnumNames
  BufLens <- MCBufLens
  Qualifiers <- MCQualifiers
  Lookups <- MCLookups
  Names <- MCNames
SPECIFICATION ReadSpec
INVARIANT ReadTypeOK
INVARIANT IterAbortPropagates
INVARIANT VisitCoversVisible
INVARIANT TypeIterRoundTrip
INVARIANT EnumLookupsMatchIter
INVARIANT DeclPiecesBalanced
INVARIANT NameLenReported
INVARIANT LookupNameShape
CHECK_DEADLOCK FALSE
