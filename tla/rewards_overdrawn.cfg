SPECIFICATION Spec
CONSTANTS
  p1 = p1
  p2 = p2
  u1 = u1
  NoProc = NoProc
  NoRow = NoRow
  Procs = {p1, p2}
  Users = {u1}
  MsTies = FALSE
  MidCallRollover = FALSE
  Crashes = TRUE
  DaysPerMonth = 2
  MaxDay = 3
  MaxCalls = 3
  SignupPoints = 3
  CheckinPoints = 1
  StreakShortPoints = 1
  StreakLongPoints = 2
  EngagementPoints = 1
  VipRedeemPoints = 2
  VipMaxDays = 2
  StreakShort = 2
  StreakLong = 3
  VipDaysAsked = {1, 2}
  Ops = {"signup", "redeem"}
INVARIANT NeverOverdrawn
