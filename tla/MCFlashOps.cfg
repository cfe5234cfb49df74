SPECIFICATION FairSpec
CONSTANTS
  Sizes <- MCSizes
  Jobs <- MCJobs
  Contents <- MCContents
  Retries = 2
INVARIANTS
  FlashedHoldsImage
  NeverOverprogrammed
  LeftReadable
PROPERTIES
  OutsideUntouched
  JobFinishes
