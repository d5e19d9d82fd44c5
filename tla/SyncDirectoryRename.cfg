\* A quiet run of a plan without conflicts that fails.
CONSTANTS
  UseIncludes = FALSE
  IncludeMatch <- NoPaths
  ExcludeMatch <- NoPaths
  CaseVariants <- NoPaths
  Starts <- AllQuietStarts
  EditPaths <- NoPaths
  RemoteChecksums = TRUE
  SizeClasses = 1
SPECIFICATION Spec
INVARIANT ConflictFreePlanSucceeds
