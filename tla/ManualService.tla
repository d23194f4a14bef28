---------------------------- MODULE ManualService ----------------------------
(***************************************************************************)
(* src/server/manual/service.ts as a whole: the reward handlers, the       *)
(* referrals and the prediction game work on one points ledger and on one  *)
(* row per user.  Each of them is modelled, and raced against itself, in a *)
(* module of its own; here a user is free to mix them, so that points won  *)
(* by one are spent by another, and a row one handler made is found by the *)
(* next.                                                                   *)
(*                                                                         *)
(* Nobody owns anything at the start: a user without a manual_user_state   *)
(* row may enter a free market and be given the row by the settlement.     *)
(***************************************************************************)
EXTENDS PointsLedger

CONSTANTS
  \* of ManualRewards
  SignupPoints, CheckinPoints, StreakShortPoints, StreakLongPoints,
  EngagementPoints, VipRedeemPoints, VipMaxDays, StreakShort, StreakLong, VipDaysAsked,
  \* of ManualReferrals
  Invitations, OnboardingPoints, Stage1Points, Stage2Points, ReferralCap,
  \* of PredictionMarkets
  Markets, Kind, ClosesOn, Options, StandardStakes, MainStake, WinReturn, FreeReward,
  MainMaxPerDay,
  \* the handlers a run exercises
  RewardOps, ReferralOps, MarketOps

Rewards == INSTANCE ManualRewards WITH Ops <- RewardOps

Referrals == INSTANCE ManualReferrals WITH Ops <- ReferralOps, Joined <- {}, Claimed <- {}

Predictions ==
  INSTANCE PredictionMarkets WITH Ops <- MarketOps, StartPoints <- 0, StartStatuses <- {"OPEN"}

\* The parts are instantiated with values they are made for.
ASSUME ServiceAssumption ==
  /\ Rewards!RewardsAssumption
  /\ Referrals!ReferralsAssumption
  /\ Predictions!PredictionAssumption

Keys == Rewards!Keys \cup Referrals!Keys \cup Predictions!Keys

VARIABLE
  overlaps   \* what two calls had in hand at the same time, so far

serviceVars == <<vars, overlaps>>

\* The markets are open; no user has a row of any kind.
Init ==
  /\ LedgerInit(
       [k \in Keys |->
          IF k \in Predictions!MarketKeys THEN [status |-> "OPEN", correct |-> NoRow] ELSE NoRow],
       {})
  /\ overlaps = {}

Start(p) == Rewards!Start(p) \/ Referrals!Start(p) \/ Predictions!Start(p)

\* A submission or a settlement appends for a user who may have no row yet.
MarketStep(p) == Predictions!Step(p) \/ AppendNoState(p) \/ MakeState(p)

\* Which handler a statement belongs to, its frame says.  The onboarding bonus
\* goes on with the second milestone of a referral, in a frame of its own.
Step(p) ==
  \/ frame[p].op \in RewardOps /\ Rewards!Step(p)
  \/ frame[p].op \in ReferralOps \cup {"stage2"} /\ Referrals!Step(p)
  \/ frame[p].op \in MarketOps /\ MarketStep(p)

-----------------------------------------------------------------------------
\* The overlaps that nothing in the code rules out, and that the properties
\* below have to name: the balance, the VIP days of the month, the status of a
\* market and its open entries are read without a lock that would keep another
\* transaction from changing them before this one commits.

\* Statements that have read a user's points, or points and redeemed days, for a
\* payment that is not planned yet.
Checking == {"vipPick", "vipLock", "lastLock", "entryInsert"}

\* The users whose points p has read for a payment, is about to change, or has
\* changed and not committed.
Concerned(p) ==
  {r.user : r \in open[p]} \cup {todo[p][i].user : i \in 1..Len(todo[p])}
    \cup (IF pc[p] \in Checking THEN {frame[p].user} ELSE {})

\* A submission that found m open, and a settlement that found it unresolved.
Entering(p, m) == frame[p].op = "submit" /\ frame[p].market = m /\ pc[p] # "marketRead"
Resolves(p, m) == frame[p].op = "settle" /\ frame[p].market = m /\ pc[p] # "settleRead"

Overlapping ==
  {<<"points", u>> : u \in {v \in Users :
     \E p, q \in Procs : p # q /\ v \in Concerned(p) \cap Concerned(q)}}
  \cup {<<"entries", m>> : m \in {n \in Markets :
     \E p, q \in Procs : Entering(p, n) /\ Resolves(q, n)}}
  \cup {<<"answers", m>> : m \in {n \in Markets :
     \E p, q \in Procs : p # q /\ Resolves(p, n) /\ Resolves(q, n)}}

\* History: it restricts no step.
Watch == overlaps' = overlaps \cup Overlapping'

Acts ==
  \/ \E p \in Procs : Start(p) \/ Step(p) \/ Crash(p)
  \/ NextDay
  \/ Quiet

Next == Acts /\ Watch

Spec == Init /\ [][Next]_serviceVars /\ \A p \in Procs : WF_serviceVars(Step(p) /\ Watch)

-----------------------------------------------------------------------------
\* Properties.  Each says of one user or one market what holds unless the
\* overlap it names has happened there, whatever else the instances interleave,
\* wherever they die and whichever handlers they mix.

\* No two calls ever had the user's points in hand at once.
OneAtATime(u) == <<"points", u>> \notin overlaps

\* No two of the user's rows are stamped in the same millisecond.
Untied(rows, u) ==
  \A r, s \in rows : r.user = u /\ s.user = u /\ r.ts = s.ts => r = s

UserSum(u) == Deltas({r \in ledger : r.user = u})

\* balance_after is a running balance over all the handlers that append, so
\* what the next one reads is the sum of everything the user won and spent: it
\* goes wrong for no other reason than two calls on the user's points at once,
\* or two rows that ORDER BY created_at_ms cannot tell apart.
RunningBalance ==
  \A u \in Users : OneAtATime(u) /\ Untied(ledger, u) =>
    \A r \in LastRows(ledger, u) : r.balance = UserSum(u)

\* Points are spent once, whether on VIP days or on stakes, with the same two
\* exceptions: a lost race is the only way to spend points one does not have.
NeverOverdrawn ==
  \A u \in Users : OneAtATime(u) /\ Untied(ledger, u) => UserSum(u) >= 0

\* At most VipMaxDays days are redeemed in a month, with points from anywhere.
\* The days are counted before the balance is locked, so a second call at the
\* same time is an exception; rows of one millisecond are not.
VipMonthlyCap ==
  \A u \in Users, d \in 1..MaxDay : OneAtATime(u) =>
    Rewards!RedeemedPoints(ledger, u, {Month(d)}) <= VipMaxDays * VipRedeemPoints

\* A resolved market has no entry left OPEN, though submissions and settlements
\* of other markets run beside it and two administrators may resolve it at
\* once: only a submission that found the market open before the settlement and
\* commits after it can be left behind.
ResolvedMeansSettled ==
  \A m \in Markets, u \in Users :
    /\ <<"entries", m>> \notin overlaps
    /\ db[Predictions!MarketRow(m)].status = "RESOLVED"
    /\ Predictions!HasEntry(m, u)
    => db[Predictions!EntryRow(m, u)].status # "OPEN"

\* The entries that won are the ones that picked the market's answer, also those
\* a submission slipped in during the settlement: only a second settlement
\* under way at the same time can replace the answer.
WinnersPickedTheAnswer ==
  \A m \in Markets, u \in Users : <<"answers", m>> \notin overlaps /\ Predictions!HasEntry(m, u) =>
    LET e == db[Predictions!EntryRow(m, u)] IN
    /\ e.status = "WON" => e.option = db[Predictions!MarketRow(m)].correct
    /\ e.status = "LOST" => e.option # db[Predictions!MarketRow(m)].correct
=============================================================================
