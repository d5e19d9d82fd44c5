\* A conflict of two files resolved with --prefer local.
CONSTANTS
  UseIncludes = FALSE
  IncludeMatch <- NoPaths
  ExcludeMatch <- NoPaths
  CaseVariants <- NoPaths
  Starts <- KeepBothLocalStarts
  EditPaths <- NoPaths
  RemoteChecksums = TRUE
  SizeClasses = 1
SPECIFICATION Spec
INVARIANT KeepBothSucceeds
