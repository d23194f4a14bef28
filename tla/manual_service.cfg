SPECIFICATION Spec
CONSTANTS
  p1 = p1
  p2 = p2
  u1 = u1
  u2 = u2
  m1 = m1
  m2 = m2
  NoProc = NoProc
  NoRow = NoRow
  Procs = {p1, p2}
  Users = {u1, u2}
  Invitations <- MCInvitations
  Markets = {m1, m2}
  Kind <- MCKind
  ClosesOn <- MCClosesOn
  Options = {"up", "down"}
  MsTies = TRUE
  MidCallRollover = TRUE
  Crashes = TRUE
  DaysPerMonth = 1
  MaxDay = 2
  MaxCalls = 3
  SignupPoints = 4
  CheckinPoints = 1
  StreakShortPoints = 1
  StreakLongPoints = 2
  EngagementPoints = 1
  VipRedeemPoints = 2
  VipMaxDays = 1
  StreakShort = 2
  StreakLong = 3
  VipDaysAsked = {1, 2}
  OnboardingPoints = 7
  Stage1Points = 3
  Stage2Points = 7
  ReferralCap = 1
  StandardStakes = {3, 5}
  MainStake = 10
  WinReturn = 19
  FreeReward = 3
  MainMaxPerDay = 1
  RewardOps = {"signup", "redeem"}
  ReferralOps = {"claim"}
  MarketOps = {"submit", "settle"}
SYMMETRY ProcsAlike
INVARIANTS
  RunningBalance
  NeverOverdrawn
  VipMonthlyCap
  ResolvedMeansSettled
  WinnersPickedTheAnswer
