SPECIFICATION FairSpec
CONSTANTS
  Reader = {r1, r2}
  Writer = {w1}
  Rx = rx
  None = none
  FLOW_CONT_MIN = 1
  Buffers = 3
  MaxCalls = 1
INVARIANTS CreditAtHand CreditCovered NoLostCredit
PROPERTIES DataOpReturns
CHECK_DEADLOCK FALSE
