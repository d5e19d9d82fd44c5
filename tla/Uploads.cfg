\* Uploads of every kind of a file that changes, beside another client, with faults anywhere.
CONSTANTS
  MaxVersion = 3
  Size <- Sizes
  Retries = 1
  Calls <- AllCalls
  OtherSizes = {2}
  MaxOthers = 1
  MaxFaults = 3
SPECIFICATION FairSpec
PROPERTIES InstalledWhole GuardedInstall SuccessDelivers TemporariesRemoved UploadCompletes
