CONSTANTS
  DTRACE_VERSION = 3
  Versions = {0, 2, 3, 4}
  ConfModels = {"LP64", "ILP32"}
  OpenErrnos = {"ENOENT", "EBUSY", "EACCES", "EPERM"}
  IoctlErrnos = {"ENXIO"}
SPECIFICATION Spec
INVARIANT NoLeakOnFailure
CHECK_DEADLOCK FALSE
