CONSTANTS
  DTRACE_VERSION = 3
  Versions = {0, 2, 3, 4}
  ConfModels = {"LP64", "ILP32"}
  OpenErrnos = {"ENOENT", "EBUSY", "EACCES", "EPERM"}
  IoctlErrnos = {"ENXIO"}
  ProbeDescs <- MCProbeDescs
  Lookups = {"none", "proc", "other"}
  CsrResults = {0, 1}
SPECIFICATION OpenSpec
INVARIANT DtOpenTypeOK
INVARIANT CloseReleasesAll
INVARIANT ReturnedHandleComplete
CHECK_DEADLOCK FALSE
