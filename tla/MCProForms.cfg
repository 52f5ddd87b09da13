CONSTANTS
  ByteBits = 4
  NULL = NULL
  AddrByte = AddrByte
  Dbgs <- MCDbgs
  Dies = {d1, d2}
  AttrInputs = {"low_pc", "byte_size", "upper_bound", "const_value", "location", "type", "external", "name"}
  Unsigneds <- MCUnsigneds
  Signeds <- MCSigneds
  Addrs <- MCAddrs
  SymIdxs = {0, 7}
  Exprs <- MCExprs
  Strings <- MCStrings
  Flags = {0, 1}
  EncodeSpace = 16
  AllocPlans = {0, 1, 2}
  MaxCalls = 2
SPECIFICATION Spec
INVARIANT ProFormsTypeOK
INVARIANT AttributeBytesDenoteValue
 
INVARIANT FormMatchesClass
CHECK_DEADLOCK FALSE
