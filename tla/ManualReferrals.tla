--------------------------- MODULE ManualReferrals ---------------------------
(***************************************************************************)
(* The handlers of src/server/manual/service.ts that concern two users:    *)
(* claimManualReferral pays the first milestone of an invitation to both   *)
(* sides, completeManualReferralStage2 the second, under a monthly cap for *)
(* the inviter, and claimManualOnboardingBonus pays a bonus of its own and *)
(* then, in a second transaction, tries the second milestone.              *)
(*                                                                         *)
(* A user's invite_code is unique, so the code is modelled by the user it  *)
(* belongs to.                                                             *)
(***************************************************************************)
EXTENDS PointsLedger

CONSTANTS
  Invitations,       \* the <<user, code>> pairs users may enter
  Joined,            \* users who already have a manual_user_state row
  Claimed,           \* the invitation, if any, that was claimed and paid before the start
  OnboardingPoints, Stage1Points, Stage2Points,
  ReferralCap,       \* REFERRAL_MAX_COMPLETED_PER_MONTH
  Ops                \* the handlers a run exercises

ASSUME ReferralsAssumption ==
  /\ Invitations \subseteq Users \X Users
  /\ Joined \subseteq Users
  /\ Claimed \subseteq Users \X Users
  /\ \A i, j \in Claimed : i = j /\ i[1] # i[2] /\ {i[1], i[2]} \subseteq Joined
  /\ {OnboardingPoints, Stage1Points, Stage2Points, ReferralCap} \subseteq Nat
  /\ Ops \subseteq {"claim", "stage2", "onboard"}
  /\ NoRow \notin Users

Days == 1..MaxDay

ReferralRow(i, u) == <<"referral", i, u>>

Keys ==
  {StateRow(u) : u \in Users} \cup {ReferralRow(i, u) : i \in Users, u \in Users}

EarlierRow(u, event) ==
  [id |-> 0, user |-> u, event |-> event, delta |-> Stage1Points,
   balance |-> Stage1Points, ts |-> 0, day |-> 1]

EarlierInviter(u) ==
  IF \E i \in Claimed : i[1] = u THEN (CHOOSE i \in Claimed : i[1] = u)[2] ELSE NoRow

\* Some users have joined, and one of them may have claimed an invitation.
Init ==
  LedgerInit(
    [k \in Keys |->
       IF \E u \in Joined : k = StateRow(u)
         THEN [FreshState EXCEPT !.referredBy = EarlierInviter(k[2])]
       ELSE IF \E i \in Claimed : k = ReferralRow(i[2], i[1])
         THEN [status |-> "PARTIAL", day |-> 1] ELSE NoRow],
    UNION {{EarlierRow(i[2], "REFERRAL_STAGE1"),
            EarlierRow(i[1], "REFERRAL_WELCOME_STAGE1")} : i \in Claimed})

\* day is the handler's ts, taken before its transaction begins.
Frame(op, u, code) ==
  [op |-> op, user |-> u, inviter |-> code, referredBy |-> NoRow, day |-> NoDay]

Start(p) ==
  \/ /\ "claim" \in Ops
     /\ \E i \in Invitations : StartCall(p, Frame("claim", i[1], i[2]), "ensure")
  \/ /\ "stage2" \in Ops
     /\ \E u \in Users : StartCall(p, Frame("stage2", u, NoRow), "stage2Read")
  \/ /\ "onboard" \in Ops
     /\ \E u \in Users : StartCall(p, Frame("onboard", u, NoRow), "ensure")

\* ensureManualUserState comes first; a row it had to make is a fresh one.
AfterEnsure(p) == IF frame[p].op = "claim" THEN "claimCheck" ELSE "onboardCheck"

EnsureFound(p) ==
  LET state == db[StateRow(frame[p].user)] IN
  /\ pc[p] = "ensure"
  /\ state # NoRow
  /\ frame' = [frame EXCEPT ![p].referredBy = state.referredBy]
  /\ Goto(p, AfterEnsure(p))
  /\ UNCHANGED <<rowVars, ledgerVars, todo, bal, clockVars, calls>>

-----------------------------------------------------------------------------
\* claimManualReferral

\* Mutant of ClaimCheck: ts is never taken.
ClaimUnstamped(p) ==
  LET f == frame[p]
      allowed == f.inviter # f.user /\ f.referredBy = NoRow /\ db[StateRow(f.inviter)] # NoRow
  IN
  /\ pc[p] = "claimCheck"
  /\ \/ ~allowed /\ GiveUp(p)
     \/ /\ allowed
        /\ Goto(p, "claimLock")
        /\ UNCHANGED <<rowVars, ledgerVars, frame, todo, bal, clockVars, calls>>

\* Before the transaction: not one's own code, nothing claimed in the row
\* just read, and the code belongs to somebody.
ClaimCheck(p) ==
  LET f == frame[p]
      allowed == f.inviter # f.user /\ f.referredBy = NoRow /\ db[StateRow(f.inviter)] # NoRow
  IN
  /\ pc[p] = "claimCheck"
  /\ \/ ~allowed /\ GiveUp(p)
     \/ /\ allowed
        /\ frame' = [frame EXCEPT ![p].day = day]
        /\ Goto(p, "claimLock")
        /\ UNCHANGED <<rowVars, ledgerVars, todo, bal, clockVars, calls>>

\* Mutant of ClaimLock: what the locked row says is not looked at.
ClaimLockOnly(p) ==
  /\ pc[p] = "claimLock"
  /\ LockRow(p, StateRow(frame[p].user))
  /\ Goto(p, "claimState")
  /\ UNCHANGED <<ledgerVars, frame, todo, bal, clockVars, calls>>

\* BEGIN, then SELECT referred_by_code ... FOR UPDATE on the user's own row.
ClaimLock(p) ==
  LET k == StateRow(frame[p].user) IN
  /\ pc[p] = "claimLock"
  /\ Free(p, k)
  /\ \/ db[k].referredBy # NoRow /\ GiveUp(p)
     \/ /\ db[k].referredBy = NoRow
        /\ LockRow(p, k)
        /\ Goto(p, "claimState")
        /\ UNCHANGED <<ledgerVars, frame, todo, bal, clockVars, calls>>

ClaimState(p) ==
  LET k == StateRow(frame[p].user) IN
  /\ pc[p] = "claimState"
  /\ WriteRow(p, k, [Sees(p, k) EXCEPT !.referredBy = frame[p].inviter])
  /\ Goto(p, "claimInsert")
  /\ UNCHANGED <<ledgerVars, frame, todo, bal, clockVars, calls>>

\* UNIQUE(inviter_user_id, referred_user_id)
ClaimInsert(p) ==
  LET f == frame[p]
      k == ReferralRow(f.inviter, f.user)
  IN
  /\ pc[p] = "claimInsert"
  /\ \/ Refused(p, k) /\ GiveUp(p)
     \/ /\ InsertRow(p, k, [status |-> "PARTIAL", day |-> f.day])
        /\ todo' = [todo EXCEPT ![p] =
             <<Append1(f.inviter, "REFERRAL_STAGE1", Stage1Points, FALSE),
               Append1(f.user, "REFERRAL_WELCOME_STAGE1", Stage1Points, FALSE)>>]
        /\ Goto(p, "append")
        /\ UNCHANGED <<ledgerVars, frame, bal, clockVars, calls>>

-----------------------------------------------------------------------------
\* completeManualReferralStage2

\* Before the transaction: the referral of this user, if it is PARTIAL.
Stage2Read(p) ==
  LET u == frame[p].user
      partial == {i \in Users : LET r == db[ReferralRow(i, u)] IN r # NoRow /\ r.status = "PARTIAL"}
  IN
  /\ pc[p] = "stage2Read"
  /\ \/ partial = {} /\ GiveUp(p)
     \/ \E i \in partial :
          /\ frame' = [frame EXCEPT ![p].inviter = i, ![p].day = day]
          /\ Goto(p, "stage2Lock")
          /\ UNCHANGED <<rowVars, ledgerVars, todo, bal, clockVars, calls>>

\* Mutant of Stage2Lock: SELECT without FOR UPDATE.
Stage2NoLock(p) ==
  /\ pc[p] = "stage2Lock"
  /\ Goto(p, "stage2Cap")
  /\ UNCHANGED <<rowVars, ledgerVars, frame, todo, bal, clockVars, calls>>

\* BEGIN, then SELECT ... FOR UPDATE on the inviter's row.
Stage2Lock(p) ==
  /\ pc[p] = "stage2Lock"
  /\ LockRow(p, StateRow(frame[p].inviter))
  /\ Goto(p, "stage2Cap")
  /\ UNCHANGED <<ledgerVars, frame, todo, bal, clockVars, calls>>

\* The users i brought to the second milestone in month m, as f knows them.
Completed(f, i, m) ==
  {u \in Users : LET r == f[ReferralRow(i, u)]
                 IN  r # NoRow /\ r.status = "COMPLETED" /\ Month(r.day) = m}

\* countInviterReferralCompletionsThisUtcMonth
Stage2Cap(p) ==
  LET full == Cardinality(Completed(db, frame[p].inviter, Month(day))) >= ReferralCap IN
  /\ pc[p] = "stage2Cap"
  /\ \/ full /\ GiveUp(p)
     \/ /\ ~full
        /\ Goto(p, "stage2Update")
        /\ UNCHANGED <<rowVars, ledgerVars, frame, todo, bal, clockVars, calls>>

\* Mutant of Stage2Appends: the one who was invited is forgotten.
Stage2InviterOnly(f) == <<Append1(f.inviter, "REFERRAL_STAGE2", Stage2Points, FALSE)>>

Stage2Appends(f) ==
  <<Append1(f.inviter, "REFERRAL_STAGE2", Stage2Points, FALSE),
    Append1(f.user, "REFERRAL_WELCOME_STAGE2", Stage2Points, FALSE)>>

\* UPDATE ... WHERE referral_id = $3 AND status = 'PARTIAL' RETURNING
Stage2Update(p) ==
  LET f == frame[p]
      k == ReferralRow(f.inviter, f.user)
  IN
  /\ pc[p] = "stage2Update"
  /\ Free(p, k)
  /\ \/ db[k].status # "PARTIAL" /\ GiveUp(p)
     \/ /\ db[k].status = "PARTIAL"
        /\ WriteRow(p, k, [status |-> "COMPLETED", day |-> f.day])
        /\ todo' = [todo EXCEPT ![p] = Stage2Appends(f)]
        /\ Goto(p, "append")
        /\ UNCHANGED <<ledgerVars, frame, bal, clockVars, calls>>

-----------------------------------------------------------------------------
\* claimManualOnboardingBonus

OnboardCheck(p) ==
  LET u == frame[p].user IN
  /\ pc[p] = "onboardCheck"
  /\ \/ HasEvent(p, u, "ONBOARDING_BONUS") /\ GiveUp(p)
     \/ /\ ~HasEvent(p, u, "ONBOARDING_BONUS")
        /\ todo' = [todo EXCEPT ![p] =
             <<Append1(u, "ONBOARDING_BONUS", OnboardingPoints, FALSE)>>]
        /\ Goto(p, "append")
        /\ UNCHANGED <<rowVars, ledgerVars, frame, bal, clockVars, calls>>

\* The bonus is committed before the second milestone is looked at.
OnboardCommit(p) ==
  /\ pc[p] = "commit"
  /\ frame[p].op = "onboard"
  /\ CommitLedger(p)
  /\ frame' = [frame EXCEPT ![p] = Frame("stage2", @.user, NoRow)]
  /\ Goto(p, "stage2Read")
  /\ UNCHANGED <<todo, bal, clockVars, calls>>

-----------------------------------------------------------------------------
Step(p) ==
  \/ EnsureFound(p) \/ EnsureMissing(p) \/ EnsureInsert(p, AfterEnsure(p))
  \/ ClaimCheck(p) \/ ClaimLock(p) \/ ClaimState(p) \/ ClaimInsert(p)
  \/ Stage2Read(p) \/ Stage2Lock(p) \/ Stage2Cap(p) \/ Stage2Update(p)
  \/ OnboardCheck(p) \/ OnboardCommit(p)
  \/ AppendRead(p) \/ AppendInsert(p, "commit") \/ AppendDuplicate(p)
  \/ frame[p].op # "onboard" /\ Commit(p)

Next ==
  \/ \E p \in Procs : Start(p) \/ Step(p) \/ Crash(p)
  \/ NextDay
  \/ Quiet

Spec == Init /\ [][Next]_vars /\ \A p \in Procs : WF_vars(Step(p))

-----------------------------------------------------------------------------
\* Properties.

Pcs == {"idle", "ensure", "ensureInsert", "claimCheck", "claimLock", "claimState", "claimInsert",
        "stage2Read", "stage2Lock", "stage2Cap", "stage2Update", "onboardCheck",
        "append", "insert", "commit"}

Events == {"ONBOARDING_BONUS", "REFERRAL_STAGE1", "REFERRAL_WELCOME_STAGE1",
           "REFERRAL_STAGE2", "REFERRAL_WELCOME_STAGE2"}

UserStates == [vip : {0}, lastDay : {NoDay}, streak : {0}, referredBy : Users \cup {NoRow}]

Referrals == [status : {"PARTIAL", "COMPLETED"}, day : Days]

ASSUME NoRowAssumption == NoRow \notin UserStates \cup Referrals

Rows == [id : Nat, user : Users, event : Events, delta : Int, balance : Int, ts : Nat, day : Days]

Appends == [user : Users, event : Events, delta : Int, chain : BOOLEAN]

Frames == {NoFrame} \cup
  [op : {"claim", "stage2", "onboard"}, user : Users, inviter : Users \cup {NoRow},
   referredBy : Users \cup {NoRow}, day : Days \cup {NoDay}]

\* Every variable has the type of the column or the local it stands for.
TypeOK ==
  /\ db \in [Keys -> UserStates \cup Referrals \cup {NoRow}]
  /\ new \in [Keys -> UserStates \cup Referrals \cup {NoRow}]
  /\ owner \in [Keys -> Procs \cup {NoProc}]
  /\ ledger \subseteq Rows
  /\ open \in [Procs -> SUBSET Rows]
  /\ held \in [Procs -> SUBSET Rows]
  /\ pc \in [Procs -> Pcs]
  /\ frame \in [Procs -> Frames]
  /\ todo \in [Procs -> Seq(Appends)]
  /\ bal \in [Procs -> Int]
  /\ {inserted, ms, calls} \subseteq Nat
  /\ day \in Days

\* A user is referred by at most one other user, and only by the one the
\* user's own row names: no pair of racing claims gets two invitations in.
ReferredOnce ==
  \A i, u \in Users : db[ReferralRow(i, u)] # NoRow =>
    db[StateRow(u)] # NoRow /\ db[StateRow(u)].referredBy = i

OnboardingBonusOnce ==
  \A r, s \in ledger :
    r.event = "ONBOARDING_BONUS" /\ s.event = "ONBOARDING_BONUS" /\ r.user = s.user => r = s

Paid(u, event) == Cardinality({r \in ledger : r.user = u /\ r.event = event})

Invited(i, states) ==
  Cardinality({u \in Users : LET r == db[ReferralRow(i, u)] IN r # NoRow /\ r.status \in states})

InvitedBy(u, states) ==
  Cardinality({i \in Users : LET r == db[ReferralRow(i, u)] IN r # NoRow /\ r.status \in states})

\* Each milestone of each invitation is paid exactly once to each side, and
\* the second only where the invitation says COMPLETED, through every race of
\* two onboarding calls and every crash.
MilestonesPaidOnce ==
  LET any == {"PARTIAL", "COMPLETED"} IN
  \A u \in Users :
    /\ Paid(u, "REFERRAL_STAGE1") = Invited(u, any)
    /\ Paid(u, "REFERRAL_WELCOME_STAGE1") = InvitedBy(u, any)
    /\ Paid(u, "REFERRAL_STAGE2") = Invited(u, {"COMPLETED"})
    /\ Paid(u, "REFERRAL_WELCOME_STAGE2") = InvitedBy(u, {"COMPLETED"})

\* No inviter is rewarded for more than ReferralCap completions of a month.
InviterMonthlyCap ==
  \A i \in Users, d \in Days : Cardinality(Completed(db, i, Month(d))) <= ReferralCap

\* No set of handlers waits for one another's row locks for ever.
EveryCallEnds == \A p \in Procs : pc[p] # "idle" ~> pc[p] = "idle"
=============================================================================
