\* Three versions of a file, faults anywhere, calls and servers of every kind.
CONSTANTS
  MaxVersion = 3
  Size <- Sizes
  Servers <- AllServers
  Retries = 1
  Calls <- AllCalls
  MaxFaults = 3
SPECIFICATION FairSpec
PROPERTIES DeliveredAsExpected FetchSpec DownloadCompletes
