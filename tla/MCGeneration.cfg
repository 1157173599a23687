SPECIFICATION Spec
CONSTANTS
  Requests <- NamedRequests
  Sources = {"x", "y"}
  MaxRuns = 3
INVARIANTS
  TypeOK
  ManifestDescribesOutput
  FilesHoldTheirRoles
  InputsHoldEveryToken
PROPERTIES
  EditsAreKept
