SPECIFICATION FairSpec
CONSTANTS
  Task = {t1, t2}
  Spawn = spawn
  Token = token
  None = none
  CntMod = 4
  QueueSize = 1
  MaxCalls = 2
  MaxEvents = 2
INVARIANTS NoResponseInSpawnCtx ResponseToIssuer PendingIsReadable PendingBounded NoOrphanedMessage
PROPERTIES AlwaysUnmasked CommandReturns
CHECK_DEADLOCK FALSE
