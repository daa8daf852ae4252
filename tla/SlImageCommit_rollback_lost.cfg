SPECIFICATION Spec
CONSTANTS
  Versions = {factory, a, b}
  Factory = factory
  Other = other
  None = none
  MaxFiles = 1
  Faults = {"write"}
  CommitsFirst = TRUE
SYMMETRY Symmetry
INVARIANTS BootedInTestingMode
