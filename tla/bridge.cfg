SPECIFICATION Spec
CONSTANTS
  a = a
  b = b
  NoConn = NoConn
  NoTx = NoTx
  Conns = {a, b}
  Slow = {"query", "begin", "commit", "rollback"}
  Fails = {"query", "begin", "commit"}
  MaxTasks = 3
  MaxCrashes = 1
INVARIANTS
  TypeOK
  AckedIsDurable
  AllOrNothing
  IdleIsClean
PROPERTY EveryTaskEnds
