SPECIFICATION Spec
CONSTANTS
  p1 = p1
  p2 = p2
  c1 = c1
  c2 = c2
  NoProc = NoProc
  NoRow = NoRow
  NoEvent = NoEvent
  Procs = {p1, p2}
  Checkouts = {c1, c2}
  Opened = {c1}
  Ops = {"checkout", "view", "cancel"}
  Outboxes <- MCOutboxes
  MaxCrashes = 1
INVARIANTS
  TypeOK
  AckedMeansRecorded
PROPERTIES
  ImplementsMirror
  CompletionsSurviveReads
  EveryEventRecorded
