\* A resuming download is repeated after interruptions anywhere.
CONSTANTS
  MaxVersion = 3
  Size <- Sizes
  Servers <- GoodServer
  Retries = 1
  Calls <- ResumingCalls
  MaxFaults = 3
SPECIFICATION FairSpec
PROPERTY ResumeCompletes
