SPECIFICATION Spec
CONSTANTS
  Requests <- DefaultRequests
  Sources = {"x", "y"}
  MaxRuns = 1
INVARIANTS
  FilesHoldTheirRoles
