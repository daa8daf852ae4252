SPECIFICATION FairSpec
CONSTANTS
  Versions = {factory, a, b}
  Factory = factory
  Other = other
  None = none
  MaxFiles = 2
  Faults = {}
  CommitsFirst = TRUE
INVARIANTS ActiveIsApproved UnapprovedOnlyUnderTest BootedInTestingMode DownloadsToAlternate Bootable
PROPERTIES OneStartPerRequest TestEnds
