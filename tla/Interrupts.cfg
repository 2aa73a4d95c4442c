SPECIFICATION Spec
CONSTANTS
  Vectors = {3, 13, 17, 21, 29, 32, 33, 45, 128}
  Values = {0, 33, 45, 300}
  Live = {"edx", "edi"}
INVARIANTS
  MasterRearmed
  DispatchByEdx
PROPERTIES
  ResumesExactly
