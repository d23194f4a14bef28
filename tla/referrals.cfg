SPECIFICATION Spec
CONSTANTS
  p1 = p1
  p2 = p2
  u1 = u1
  u2 = u2
  u3 = u3
  NoProc = NoProc
  NoRow = NoRow
  Procs = {p1, p2}
  Users = {u1, u2, u3}
  Joined = {u1, u3}
  Invitations <- MCInvitations
  Claimed <- MCClaimed
  MsTies = FALSE
  MidCallRollover = FALSE
  Crashes = TRUE
  DaysPerMonth = 1
  MaxDay = 1
  MaxCalls = 3
  OnboardingPoints = 7
  Stage1Points = 3
  Stage2Points = 7
  ReferralCap = 1
  Ops = {"claim", "stage2", "onboard"}
INVARIANTS
  TypeOK
  ReferredOnce
  MilestonesPaidOnce
  InviterMonthlyCap
PROPERTIES
  ImplementsUniqueLedger
  EveryCallEnds
