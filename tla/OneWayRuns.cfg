\* Pushes and pulls, undisturbed, interrupted and disturbed.
CONSTANTS
  UseIncludes = FALSE
  IncludeMatch <- NoPaths
  ExcludeMatch <- NoPaths
  CaseVariants <- NoPaths
  Starts <- OneWayStarts
  EditPaths <- SomePaths
  RemoteChecksums = TRUE
  SizeClasses = 1
SPECIFICATION OneWaySpec
INVARIANTS OneWayMirrors ConsentedLossOnly
