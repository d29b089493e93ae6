SPECIFICATION FairSpec
CONSTANTS
  MaxMutations = 3
  MaxFaults = 2
  UploadBatch = 2
PROPERTIES
  ImplementsDelivery
  EventuallyTold
