SPECIFICATION Spec
CONSTANTS
  p1 = p1
  p2 = p2
  u1 = u1
  m1 = m1
  m2 = m2
  m3 = m3
  m4 = m4
  m5 = m5
  NoProc = NoProc
  NoRow = NoRow
  Procs = {p1, p2}
  Users = {u1}
  Markets = {m1, m2, m3, m4, m5}
  Kind <- MCSlotKinds
  ClosesOn <- MCClosesOn
  Options = {"up"}
  StartPoints = 30
  StandardStakes = {1}
  MainStake = 10
  WinReturn = 19
  FreeReward = 3
  MainMaxPerDay = 2
  StartStatuses = {"OPEN"}
  MsTies = FALSE
  MidCallRollover = FALSE
  Crashes = TRUE
  DaysPerMonth = 1
  MaxDay = 1
  MaxCalls = 4
  Ops = {"submit"}
INVARIANTS
  DailySlots
