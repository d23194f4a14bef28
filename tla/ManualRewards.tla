---------------------------- MODULE ManualRewards ----------------------------
(***************************************************************************)
(* The handlers of src/server/manual/service.ts that concern one user:     *)
(* the sign-up bonus, the daily check-in, the daily engagement signal, the *)
(* exchange of points for VIP days and, because it makes the user's row,   *)
(* the dashboard.  One action per SQL statement.                           *)
(***************************************************************************)
EXTENDS PointsLedger

CONSTANTS
  SignupPoints, CheckinPoints, StreakShortPoints, StreakLongPoints,
  EngagementPoints, VipRedeemPoints, VipMaxDays,
  StreakShort, StreakLong,   \* 7 and 30 in the code
  VipDaysAsked,              \* the "days" a redemption may ask for
  Ops                        \* the handlers a run exercises

ASSUME RewardsAssumption ==
  /\ {SignupPoints, CheckinPoints, StreakShortPoints, StreakLongPoints,
      EngagementPoints, VipMaxDays} \subseteq Nat
  /\ {StreakShort, StreakLong, VipRedeemPoints} \subseteq Nat \ {0}
  /\ VipDaysAsked \subseteq 1..30
  /\ Ops \subseteq {"signup", "checkin", "engage", "redeem", "dashboard"}

Days == 1..MaxDay

CheckinRow(u, d) == <<"checkin", u, d>>
EngagedRow(u, d) == <<"engaged", u, d>>

\* A row of manual_checkins or manual_engagement_daily says no more than that
\* it is there.
DailyRow == [done |-> TRUE]

Keys ==
  {StateRow(u) : u \in Users}
    \cup {CheckinRow(u, d) : u \in Users, d \in Days}
    \cup {EngagedRow(u, d) : u \in Users, d \in Days}

\* Accounts exist; nobody has touched the points service yet.
Init == LedgerInit([k \in Keys |-> NoRow], {})

Frame(op, u, n) ==
  [op |-> op, user |-> u, days |-> n, day |-> NoDay, lastDay |-> NoDay,
   streak |-> 0, row |-> NoRow]

First == [signup |-> "signupCheck", redeem |-> "vipCap",
          checkin |-> "ensure", engage |-> "ensure", dashboard |-> "ensure"]

Start(p) ==
  \E op \in Ops, u \in Users :
    \E n \in IF op = "redeem" THEN VipDaysAsked ELSE {0} :
      StartCall(p, Frame(op, u, n), First[op])

-----------------------------------------------------------------------------
\* tryGrantManualSignupBonus

SignupCheck(p) ==
  LET u == frame[p].user IN
  /\ pc[p] = "signupCheck"
  /\ \/ HasEvent(p, u, "SIGNUP_BONUS") /\ GiveUp(p)
     \/ /\ ~HasEvent(p, u, "SIGNUP_BONUS")
        /\ todo' = [todo EXCEPT ![p] = <<Append1(u, "SIGNUP_BONUS", SignupPoints, FALSE)>>]
        /\ Goto(p, "append")
        /\ UNCHANGED <<rowVars, ledgerVars, frame, bal, clockVars, calls>>

-----------------------------------------------------------------------------
\* What the dashboard, check-in and engagement begin with: the user's row is
\* found or made.  Then the UTC day and, for a check-in, the streak are worked
\* out from it.

AfterEnsure(p) == IF frame[p].op = "dashboard" THEN "answer" ELSE "today"

EnsureFound(p) ==
  LET state == db[StateRow(frame[p].user)] IN
  /\ pc[p] = "ensure"
  /\ state # NoRow
  /\ frame' = [frame EXCEPT ![p].lastDay = state.lastDay, ![p].streak = state.streak]
  /\ Goto(p, AfterEnsure(p))
  /\ UNCHANGED <<rowVars, ledgerVars, todo, bal, clockVars, calls>>

\* Mutant of Today: a missed day does not reset the streak.
TodayNoReset(p) ==
  /\ pc[p] = "today"
  /\ frame' = [frame EXCEPT ![p].day = day, ![p].streak = @ + 1]
  /\ Goto(p, IF frame[p].op = "checkin" THEN "checkinSelect" ELSE "engageSelect")
  /\ UNCHANGED <<rowVars, ledgerVars, todo, bal, clockVars, calls>>

Today(p) ==
  /\ pc[p] = "today"
  /\ frame' = [frame EXCEPT
       ![p].day = day,
       ![p].streak = IF frame[p].lastDay = day - 1 THEN @ + 1 ELSE 1]
  /\ Goto(p, IF frame[p].op = "checkin" THEN "checkinSelect" ELSE "engageSelect")
  /\ UNCHANGED <<rowVars, ledgerVars, todo, bal, clockVars, calls>>

\* getManualDashboard only reads from here on.
Answer(p) == pc[p] = "answer" /\ GiveUp(p)

\* A daily row is there: the transaction ends with ..._ALREADY_...
DailySelect(p, at, key, next) ==
  /\ pc[p] = at
  /\ \/ Exists(p, key) /\ GiveUp(p)
     \/ /\ ~Exists(p, key)
        /\ Goto(p, next)
        /\ UNCHANGED <<rowVars, ledgerVars, frame, todo, bal, clockVars, calls>>

\* The INSERT of the daily row, which the primary key refuses when another
\* transaction committed it since the SELECT.
DailyInsert(p, at, key, appends, next) ==
  /\ pc[p] = at
  /\ \/ Refused(p, key) /\ GiveUp(p)
     \/ /\ InsertRow(p, key, DailyRow)
        /\ todo' = [todo EXCEPT ![p] = appends]
        /\ Goto(p, next)
        /\ UNCHANGED <<ledgerVars, frame, bal, clockVars, calls>>

-----------------------------------------------------------------------------
\* manualDailyCheckin

CheckinAppends(u, streak) ==
  <<Append1(u, "CHECKIN_DAILY", CheckinPoints, FALSE)>>
    \o (IF streak % StreakShort = 0
          THEN <<Append1(u, "CHECKIN_STREAK_7", StreakShortPoints, TRUE)>> ELSE <<>>)
    \o (IF streak % StreakLong = 0
          THEN <<Append1(u, "CHECKIN_STREAK_30", StreakLongPoints, TRUE)>> ELSE <<>>)

CheckinSelect(p) ==
  DailySelect(p, "checkinSelect", CheckinRow(frame[p].user, frame[p].day), "checkinInsert")

CheckinInsert(p) ==
  DailyInsert(p, "checkinInsert", CheckinRow(frame[p].user, frame[p].day),
              CheckinAppends(frame[p].user, frame[p].streak), "checkinState")

CheckinState(p) ==
  LET k == StateRow(frame[p].user) IN
  /\ pc[p] = "checkinState"
  /\ WriteRow(p, k, [Sees(p, k) EXCEPT !.lastDay = frame[p].day,
                                       !.streak = frame[p].streak])
  /\ Goto(p, "append")
  /\ UNCHANGED <<ledgerVars, frame, todo, bal, clockVars, calls>>

-----------------------------------------------------------------------------
\* grantManualEngagementSignal

EngageSelect(p) ==
  DailySelect(p, "engageSelect", EngagedRow(frame[p].user, frame[p].day), "engageInsert")

EngageInsert(p) ==
  DailyInsert(p, "engageInsert", EngagedRow(frame[p].user, frame[p].day),
              <<Append1(frame[p].user, "ENGAGEMENT_SIGNAL", EngagementPoints, FALSE)>>,
              "append")

-----------------------------------------------------------------------------
\* redeemManualVipDay

RedeemedPoints(rows, u, months) ==
  -Deltas({r \in rows : r.user = u /\ r.event = "VIP_REDEEM" /\ Month(r.day) \in months})

\* vipDaysRedeemedThisUtcMonth (Math.ceil of the quotient)
VipDaysThisMonth(p, u) ==
  (RedeemedPoints(Visible(p), u, {Month(day)}) + VipRedeemPoints - 1) \div VipRedeemPoints

\* Mutant of VipCap: the days asked for are not added to those of the month.
VipCapLate(p) ==
  LET over == VipDaysThisMonth(p, frame[p].user) >= VipMaxDays IN
  /\ pc[p] = "vipCap"
  /\ \/ over /\ GiveUp(p)
     \/ /\ ~over
        /\ Goto(p, "vipPick")
        /\ UNCHANGED <<rowVars, ledgerVars, frame, todo, bal, clockVars, calls>>

VipCap(p) ==
  LET over == VipDaysThisMonth(p, frame[p].user) + frame[p].days > VipMaxDays IN
  /\ pc[p] = "vipCap"
  /\ \/ over /\ GiveUp(p)
     \/ /\ ~over
        /\ Goto(p, "vipPick")
        /\ UNCHANGED <<rowVars, ledgerVars, frame, todo, bal, clockVars, calls>>

VipPick(p) == pc[p] = "vipPick" /\ PickLastRow(p, "vipLock")

VipLock(p) ==
  LET cost == frame[p].days * VipRedeemPoints IN
  /\ pc[p] = "vipLock"
  /\ LastRowFree(p)
  /\ \/ bal[p] < cost /\ GiveUp(p)
     \/ /\ bal[p] >= cost
        /\ HoldLastRow(p)
        /\ todo' = [todo EXCEPT ![p] = <<Append1(frame[p].user, "VIP_REDEEM", -cost, TRUE)>>]
        /\ Goto(p, "vipState")
        /\ UNCHANGED <<rowVars, ledger, open, frame, bal, clockVars, calls>>

\* Mutant of VipState: one day is credited whatever was paid for.
VipOneDay(p) ==
  LET k == StateRow(frame[p].user) IN
  /\ pc[p] = "vipState"
  /\ WriteRow(p, k, [Sees(p, k) EXCEPT !.vip = @ + 1])
  /\ Goto(p, "append")
  /\ UNCHANGED <<ledgerVars, frame, todo, bal, clockVars, calls>>

\* Mutant of VipState: the days are taken off the balance.
VipTaken(p) ==
  LET k == StateRow(frame[p].user) IN
  /\ pc[p] = "vipState"
  /\ WriteRow(p, k, [Sees(p, k) EXCEPT !.vip = @ - frame[p].days])
  /\ Goto(p, "append")
  /\ UNCHANGED <<ledgerVars, frame, todo, bal, clockVars, calls>>

VipState(p) ==
  LET k == StateRow(frame[p].user) IN
  /\ pc[p] = "vipState"
  /\ WriteRow(p, k, [Sees(p, k) EXCEPT !.vip = @ + frame[p].days])
  /\ Goto(p, "append")
  /\ UNCHANGED <<ledgerVars, frame, todo, bal, clockVars, calls>>

-----------------------------------------------------------------------------
Step(p) ==
  \/ SignupCheck(p)
  \/ EnsureFound(p) \/ EnsureMissing(p) \/ EnsureInsert(p, AfterEnsure(p)) \/ Today(p) \/ Answer(p)
  \/ CheckinSelect(p) \/ CheckinInsert(p) \/ CheckinState(p)
  \/ EngageSelect(p) \/ EngageInsert(p)
  \/ VipCap(p) \/ VipPick(p) \/ VipLock(p) \/ VipState(p)
  \/ AppendRead(p) \/ AppendNoState(p) \/ MakeState(p)
  \/ AppendInsert(p, "commit") \/ AppendDuplicate(p)
  \/ Commit(p)

Next ==
  \/ \E p \in Procs : Start(p) \/ Step(p) \/ Crash(p)
  \/ NextDay
  \/ Quiet

Spec == Init /\ [][Next]_vars /\ \A p \in Procs : WF_vars(Step(p))

-----------------------------------------------------------------------------
\* Properties.

Pcs == {"idle", "append", "makeState", "insert", "commit", "ensure", "ensureInsert", "today", "answer",
        "signupCheck", "checkinSelect", "checkinInsert", "checkinState", "engageSelect",
        "engageInsert", "vipCap", "vipPick", "vipLock", "vipState"}

Events == {"SIGNUP_BONUS", "CHECKIN_DAILY", "CHECKIN_STREAK_7", "CHECKIN_STREAK_30",
           "ENGAGEMENT_SIGNAL", "VIP_REDEEM"}

UserStates == [vip : Nat, lastDay : Days \cup {NoDay}, streak : Nat, referredBy : {NoRow}]

Versions == UserStates \cup {DailyRow, NoRow}

\* NULL is not a row.
ASSUME NoRowAssumption == NoRow \notin UserStates \cup {DailyRow}

Rows == [id : Nat, user : Users, event : Events, delta : Int, balance : Int, ts : Nat, day : Days]

Appends == [user : Users, event : Events, delta : Int, chain : BOOLEAN]

Frames == {NoFrame} \cup
  [op : Ops, user : Users, days : Nat, day : Days \cup {NoDay}, lastDay : Days \cup {NoDay},
   streak : Nat, row : Rows \cup {NoRow}]

\* Every variable has the type of the column or the local it stands for.
TypeOK ==
  /\ db \in [Keys -> Versions]
  /\ new \in [Keys -> Versions]
  /\ owner \in [Keys -> Procs \cup {NoProc}]
  /\ ledger \subseteq Rows
  /\ open \in [Procs -> SUBSET Rows]
  /\ held \in [Procs -> SUBSET Rows]
  /\ pc \in [Procs -> Pcs]
  /\ frame \in [Procs -> Frames]
  /\ todo \in [Procs -> Seq(Appends)]
  /\ bal \in [Procs -> Int]
  /\ {inserted, ms, calls} \subseteq Nat
  /\ day \in Days

\* A user is paid the sign-up bonus at most once, whatever instances race
\* through hasLedgerEvent: the singleton index is the final barrier.
SignupBonusOnce ==
  \A r, s \in ledger :
    r.event = "SIGNUP_BONUS" /\ s.event = "SIGNUP_BONUS" /\ r.user = s.user => r = s

PaidTimes(u, event) == Cardinality({r \in ledger : r.user = u /\ r.event = event})

\* A check-in or an engagement signal is paid exactly once for each day row
\* that was committed: neither a payment without its row nor a row whose
\* payment a crash or a race has lost.
DailyRowPaidOnce ==
  \A u \in Users :
    /\ PaidTimes(u, "CHECKIN_DAILY") = Cardinality({d \in Days : db[CheckinRow(u, d)] # NoRow})
    /\ PaidTimes(u, "ENGAGEMENT_SIGNAL") = Cardinality({d \in Days : db[EngagedRow(u, d)] # NoRow})

\* The VIP days a user was credited are the days the ledger charged for.
VipDaysMatchLedger ==
  \A u \in Users : db[StateRow(u)] # NoRow =>
    db[StateRow(u)].vip * VipRedeemPoints
      = RedeemedPoints(ledger, u, {Month(d) : d \in Days})

\* checkin_streak is the number of consecutive days, up to the last one, the
\* user has checked in on.
StreakCountsDays ==
  \A u \in Users : db[StateRow(u)] # NoRow =>
    LET state == db[StateRow(u)]
        done == {d \in Days : db[CheckinRow(u, d)] # NoRow}
        run == (state.lastDay - state.streak + 1)..state.lastDay
    IN  IF done = {} THEN state.streak = 0
        ELSE state.lastDay = Max(done) /\ run \subseteq done /\ state.lastDay - state.streak \notin done

\* balance_after is a running balance: what the next handler will read as
\* the user's balance is the sum of all the points the user won and spent.
RunningBalance ==
  \A u \in Users :
    \A r \in LastRows(ledger, u) : r.balance = Deltas({s \in ledger : s.user = u})

\* Nobody spends points they do not have.
NeverOverdrawn == \A u \in Users : Deltas({r \in ledger : r.user = u}) >= 0

\* At most VipMaxDays days are redeemed in a month.
VipMonthlyCap ==
  \A u \in Users, d \in Days :
    RedeemedPoints(ledger, u, {Month(d)}) <= VipMaxDays * VipRedeemPoints
=============================================================================
