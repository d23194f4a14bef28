SPECIFICATION Spec
CONSTANTS
  t1 = t1
  t2 = t2
  r1 = r1
  r2 = r2
  read = read
  post = post
  Free = Free
  Nobody = Nobody
  Gone = Gone
  Tabs = {t1, t2}
  Keys = {read, post}
  Coalesced = {read}
  Slots = {r1, r2}
  Threshold = 2
  Backoffs = {1, 2}
  ProbeTtl = 3
  SpacingTtl = 2
  LockWait = 1
  PauseTime = 1
  Worlds <- MCWorlds
INVARIANTS
  TypeOK
  ProbesAlone
PROPERTIES
  TabSpacing
  BreakersClose
  RequestsEnd
