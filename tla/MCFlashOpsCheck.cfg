SPECIFICATION Spec
CONSTANTS
  Sizes <- MCSizes
  Jobs <- CheckJobs
  Contents <- MCContents
  Retries = 2
INVARIANT CheckedFlashHoldsImage
