SPECIFICATION Spec
CONSTANTS
  p1 = p1
  p2 = p2
  u1 = u1
  m1 = m1
  m2 = m2
  m3 = m3
  m4 = m4
  m5 = m5
  u2 = u2
  NoProc = NoProc
  NoRow = NoRow
  Procs = {p1, p2}
  Users = {u1, u2}
  Markets = {m1, m2}
  Kind <- MCSettleKinds
  ClosesOn <- MCClosesOn
  Options = {"up", "down"}
  StartPoints = 20
  StandardStakes = {1, 2}
  MainStake = 10
  WinReturn = 19
  FreeReward = 3
  MainMaxPerDay = 1
  StartStatuses = {"OPEN"}
  MsTies = FALSE
  MidCallRollover = FALSE
  Crashes = TRUE
  DaysPerMonth = 1
  MaxDay = 1
  MaxCalls = 3
  Ops = {"submit", "settle"}
INVARIANTS
  TypeOK
  EntriesMatchLedger
PROPERTIES
  ResultsAreFinal
