\* Every pair of trees and every baseline, undisturbed; runs interrupted and repeated; and
\* two runs with users, clients, failures and crashes anywhere in them.
CONSTANTS
  UseIncludes = FALSE
  IncludeMatch <- NoPaths
  ExcludeMatch <- NoPaths
  CaseVariants <- Spellings
  Starts <- BidirectionalStarts
  EditPaths <- SomePaths
  RemoteChecksums = TRUE
  SizeClasses = 1
SPECIFICATION RetryingSpec
INVARIANTS AppliedIsMerge MergeableSucceeds KeepBothPreserves RetryConflictsOnlyHalfDone
INVARIANTS JournalNamesMutations NothingLeftToDo LossOnlyUnguarded
PROPERTIES ConflictIffUnmergeable JournalOutlivesFailure RetriesSettle
