\* A directory, a file in it and two files beside it are transferred by two workers, with faults.
CONSTANTS
  Count = 4
  Dirs <- TreeDirs
  Parent <- TreeParent
  Size <- TreeSize
  Concurrency = 2
  Calls <- AllCalls
  MaxFaults = 2
SPECIFICATION FairSpec
INVARIANTS ProgressAddsUp ParentsFirst
PROPERTIES AnswerIsTrue CommandReturns RepeatSucceeds
