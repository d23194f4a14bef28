----------------------- MODULE ManualReferrals_proofs -----------------------
(***************************************************************************)
(* What is proved of ManualReferrals, for any number of instances, users   *)
(* and invitations and any length of behaviour.                            *)
(***************************************************************************)
EXTENDS ManualReferrals, PointsLedger_proofs

-----------------------------------------------------------------------------
Untouched == UNCHANGED <<ledger, open>>

\* Every statement of a handler is a step of the abstract ledger, or leaves
\* the ledger alone.
LEMMA StepMaps ==
  ASSUME NEW p \in Procs, DOMAIN open = Procs, Step(p)
  PROVE  Index!Next \/ Untouched
<1>1. CASE GiveUp(p)
  BY <1>1, GiveUpRollsBack DEF Index!Next
<1>2. CASE CommitLedger(p)
  BY <1>2, CommitCommits DEF Index!Next
<1>3. CASE AppendInsert(p, "commit")
  BY <1>3, InsertAppends DEF Index!Next
<1>4. CASE EnsureFound(p) \/ EnsureMissing(p) \/ EnsureInsert(p, AfterEnsure(p))
  BY <1>1, <1>4 DEF EnsureFound, EnsureMissing, EnsureInsert, Untouched, ledgerVars
<1>5. CASE ClaimCheck(p) \/ ClaimLock(p) \/ ClaimState(p) \/ ClaimInsert(p)
  BY <1>1, <1>5 DEF ClaimCheck, ClaimLock, ClaimState, ClaimInsert, Untouched, ledgerVars
<1>6. CASE Stage2Read(p) \/ Stage2Lock(p) \/ Stage2Cap(p) \/ Stage2Update(p)
  BY <1>1, <1>6 DEF Stage2Read, Stage2Lock, Stage2Cap, Stage2Update, Untouched, ledgerVars
<1>7. CASE OnboardCheck(p)
  BY <1>1, <1>7 DEF OnboardCheck, Untouched, ledgerVars
<1>8. CASE AppendRead(p) \/ AppendDuplicate(p)
  BY <1>1, <1>8 DEF AppendRead, AppendDuplicate, Untouched, ledgerVars
<1>9. CASE OnboardCommit(p) \/ Commit(p)
  BY <1>2, <1>9 DEF OnboardCommit, Commit
<1>10. QED
  BY <1>3, <1>4, <1>5, <1>6, <1>7, <1>8, <1>9 DEF Step

\* So does every step of the system: a call that starts, a crash, a new day.
LEMMA NextMaps ==
  ASSUME DOMAIN open = Procs, [Next]_vars
  PROVE  Index!Next \/ Untouched
<1>1. CASE \E p \in Procs : Start(p)
  BY <1>1 DEF Start, StartCall, Untouched, ledgerVars
<1>2. CASE \E p \in Procs : Step(p)
  BY <1>2, StepMaps
<1>3. CASE \E p \in Procs : Crash(p)
  BY <1>3, GiveUpRollsBack DEF Crash, Index!Next
<1>4. CASE NextDay \/ Quiet \/ UNCHANGED vars
  BY <1>4 DEF NextDay, Quiet, vars, Untouched, ledgerVars
<1>5. QED
  BY <1>1, <1>2, <1>3, <1>4 DEF Next

\* Every instance always has a transaction, possibly an empty one.
LEMMA OpenDomain == Spec => [](DOMAIN open = Procs)
<1>1. Init => DOMAIN open = Procs
  BY DEF Init, LedgerInit
<1>2. DOMAIN open = Procs /\ [Next]_vars => (DOMAIN open = Procs)'
  BY NextMaps DEF Untouched, Index!Next, Index!Append, Index!Commit, Index!Rollback
<1>3. QED
  BY <1>1, <1>2, PTL DEF Spec

\* The handlers implement the abstract ledger: rows are only added, a
\* transaction at a time, and never two of the same singleton.
THEOREM ReferralsImplementLedger == Spec => ImplementsUniqueLedger
<1>1. Init => Index!Init
  BY DEF Init, LedgerInit, EarlierRow, SingletonEvents, Index!Init, Index!Unique, Index!Clash
<1>2. DOMAIN open = Procs /\ [Next]_vars => [Index!Next]_<<ledger, open>>
  BY NextMaps DEF Untouched
<1>3. QED
  BY <1>1, <1>2, OpenDomain, PTL DEF Spec, ImplementsUniqueLedger, Index!Spec

\* However many onboarding calls race, a user is paid the bonus at most once.
THEOREM OnboardingBonusIsOnce == Spec => []OnboardingBonusOnce
<1>1. Index!IndexHolds => OnboardingBonusOnce
  BY DEF Index!IndexHolds, Index!Unique, Index!Clash, OnboardingBonusOnce, SingletonEvents
<1>2. QED
  BY <1>1, ReferralsImplementLedger, IndexOfImplementation, PTL

-----------------------------------------------------------------------------
\* Types.  TypeOK says nothing of which local variables a statement finds set,
\* nor that a user's row, once found, stays there to be updated; the invariant
\* adds both.

VersionsOf == [k \in Keys |-> IF k[1] = "state" THEN UserStates ELSE Referrals]

CallFrames == Frames \ {NoFrame}

\* The user of p's call has a row.
HasState(p) == db[StateRow(frame[p].user)] \in UserStates

Locals(p) ==
  /\ pc[p] # "idle" => frame[p] \in CallFrames
  /\ pc[p] # "idle" /\ frame[p].op = "claim" => frame[p].inviter \in Users
  /\ pc[p] \in {"claimCheck", "claimLock", "claimState", "claimInsert"} =>
       frame[p].op = "claim" /\ HasState(p)
  /\ pc[p] \in {"stage2Lock", "stage2Cap", "stage2Update"} => frame[p].inviter \in Users
  /\ pc[p] \in {"claimLock", "claimState", "claimInsert", "stage2Lock", "stage2Cap",
                "stage2Update"} => frame[p].day \in Days

TypeInv ==
  /\ Shared(VersionsOf, Events, Frames, Pcs)
  /\ \A p \in Procs : Locals(p)

\* TypeOK is what TypeInv says of each variable.
LEMMA TypeInvImplies == TypeInv => TypeOK
<1> SUFFICES ASSUME TypeInv PROVE TypeOK
  OBVIOUS
<1>1. \A k \in Keys : VersionsOf[k] \in {UserStates, Referrals}
  BY DEF VersionsOf
<1>2. db \in [Keys -> UserStates \cup Referrals \cup {NoRow}]
        /\ new \in [Keys -> UserStates \cup Referrals \cup {NoRow}]
  BY <1>1 DEF TypeInv, Shared, RowsInv, VersionsOf
<1>3. owner \in [Keys -> Procs \cup {NoProc}]
  BY DEF TypeInv, Shared, RowsInv, VersionsOf
<1>4. RowsOf(Events) = Rows /\ AppendsOf(Events) = Appends
  BY DEF RowsOf, Rows, AppendsOf, Appends, Days
<1>5. QED
  BY <1>2, <1>3, <1>4 DEF TypeInv, Shared, TypeOK, Days

\* Which versions the rows of the two tables have.
LEMMA RowTypes ==
  /\ DOMAIN VersionsOf = Keys
  /\ \A u \in Users : StateRow(u) \in Keys /\ VersionsOf[StateRow(u)] = UserStates
  /\ \A i, u \in Users : ReferralRow(i, u) \in Keys /\ VersionsOf[ReferralRow(i, u)] = Referrals
BY DEF VersionsOf, Keys, StateRow, ReferralRow

\* The fresh row and the locals of a call are of their types.
LEMMA Constants ==
  /\ FreshState \in UserStates
  /\ NoFrame \in Frames
  /\ \A f \in CallFrames : f \in Frames /\ f.user \in Users
BY DEF FreshState, UserStates, NoFrame, Frames, CallFrames, NoDay

\* The other instances keep their locals, and rows they rely on stay.
LEMMA OthersLocals ==
  ASSUME NEW p \in Procs, TypeInv, OthersKept(p), RowsStay(VersionsOf), Locals(p)'
  PROVE  \A q \in Procs : Locals(q)'
<1> SUFFICES ASSUME NEW q \in Procs, q # p PROVE Locals(q)'
  OBVIOUS
<1>1. Locals(q) /\ pc'[q] = pc[q] /\ frame'[q] = frame[q]
  BY DEF TypeInv, OthersKept
<1>2. pc[q] # "idle" => StateRow(frame[q].user) \in Keys
                          /\ VersionsOf[StateRow(frame[q].user)] = UserStates
  BY <1>1, RowTypes, Constants DEF Locals
<1>3. pc[q] # "idle" /\ HasState(q) => HasState(q)'
  BY <1>1, <1>2, RowTypes DEF HasState, RowsStay
<1>4. QED
  BY <1>1, <1>3 DEF Locals

\* An instance that has come to the end of its call has no locals.
LEMMA IdleLocals ==
  ASSUME NEW p \in Procs, pc'[p] = "idle"
  PROVE  Locals(p)'
BY DEF Locals

\* A refusal, a rollback or a crash.
LEMMA GiveUpTypes ==
  ASSUME NEW p \in Procs, TypeInv, GiveUp(p)
  PROVE  TypeInv'
<1>1. "idle" \in Pcs
  BY DEF Pcs
<1>2. Shared(VersionsOf, Events, Frames, Pcs)' /\ RowsStay(VersionsOf) /\ OthersKept(p)
        /\ pc'[p] = "idle"
  BY <1>1, Constants, GiveUpKeeps DEF TypeInv
<1>3. QED
  BY <1>2, IdleLocals, OthersLocals DEF TypeInv

\* A call starts with the locals its first statement needs.
LEMMA StartTypes ==
  ASSUME NEW p \in Procs, TypeInv, Start(p)
  PROVE  TypeInv'
<1> DEFINE Calls == {Frame("claim", i[1], i[2]) : i \in Invitations}
                      \cup {Frame("stage2", u, NoRow) : u \in Users}
                      \cup {Frame("onboard", u, NoRow) : u \in Users}
<1>1. PICK f \in Calls, first \in {"ensure", "stage2Read"} : StartCall(p, f, first)
  BY DEF Start
<1>2. f \in CallFrames /\ (f.op = "claim" => f.inviter \in Users)
  BY ReferralsAssumption DEF Frame, CallFrames, Frames, NoFrame
<1>3. f \in Frames /\ first \in Pcs
  BY <1>2, Constants DEF Pcs
<1>4. /\ Shared(VersionsOf, Events, Frames, Pcs)' /\ RowsStay(VersionsOf) /\ OthersKept(p)
      /\ pc'[p] = first /\ frame'[p] = f
  BY <1>1, <1>3, StartKeeps DEF TypeInv
<1>5. Locals(p)'
  BY <1>2, <1>4 DEF Locals
<1>6. QED
  BY <1>4, <1>5, OthersLocals DEF TypeInv

\* ensureManualUserState: the row is found, or made.
LEMMA EnsureTypes ==
  ASSUME NEW p \in Procs, TypeInv,
         EnsureFound(p) \/ EnsureMissing(p) \/ EnsureInsert(p, AfterEnsure(p))
  PROVE  TypeInv'
<1> DEFINE k == StateRow(frame[p].user)
<1>1. pc[p] \in {"ensure", "ensureInsert"} /\ Locals(p)
  BY DEF EnsureFound, EnsureMissing, EnsureInsert, TypeInv
<1>2. frame[p] \in CallFrames /\ k \in Keys /\ VersionsOf[k] = UserStates
  BY <1>1, RowTypes, Constants DEF Locals
<1>3. PICK after \in {"claimCheck", "onboardCheck"} :
        after = AfterEnsure(p) /\ (after = "claimCheck" => frame[p].op = "claim")
  BY DEF AfterEnsure
<1>4. {"idle", "ensureInsert", "claimCheck", "onboardCheck"} \subseteq Pcs
  BY DEF Pcs
<1>5. CASE EnsureFound(p)
  <2>0. PICK f : f = [frame[p] EXCEPT !.referredBy = db[k].referredBy]
    OBVIOUS
  <2>1. db[k] \in UserStates
    BY <1>2, <1>5, RowTypes DEF EnsureFound, TypeInv, Shared, RowsInv
  <2>2. f \in CallFrames /\ f.op = frame[p].op /\ f.user = frame[p].user
          /\ f.inviter = frame[p].inviter
    BY <1>2, <2>0, <2>1 DEF CallFrames, Frames, NoFrame, UserStates
  <2>3. RowsInv(VersionsOf)' /\ RowsStay(VersionsOf) /\ db' = db
    BY <1>5, ReadKeepsRows DEF EnsureFound, TypeInv, Shared, rowVars
  <2>4. frame' = [frame EXCEPT ![p] = f]
    BY <1>5, <2>0 DEF EnsureFound, TypeInv, Shared
  <2>5. /\ Shared(VersionsOf, Events, Frames, Pcs)' /\ OthersKept(p)
        /\ pc'[p] = after /\ frame'[p] = f
    <3>1. Goto(p, after)
            /\ UNCHANGED <<ledgerVars, todo, bal, clockVars, calls>>
      BY <1>3, <1>5 DEF EnsureFound
    <3>2. f \in Frames /\ after \in Pcs
            /\ after \notin {"append", "insert", "makeState"}
      BY <1>3, <1>4, <2>2, Constants
    <3>3. Shared(VersionsOf, Events, Frames, Pcs)
      BY DEF TypeInv
    <3>4. QED
      BY <2>3, <2>4, <3>1, <3>2, <3>3 DEF Shared, Goto, OthersKept, ledgerVars, clockVars
  <2>6. Locals(p)'
    BY <1>1, <1>3, <2>1, <2>2, <2>3, <2>5 DEF Locals, HasState
  <2>7. QED
    BY <2>3, <2>5, <2>6, OthersLocals DEF TypeInv
<1>6. CASE EnsureMissing(p)
  <2>1. /\ Shared(VersionsOf, Events, Frames, Pcs)' /\ RowsStay(VersionsOf) /\ OthersKept(p)
        /\ pc'[p] = "ensureInsert" /\ frame'[p] = frame[p]
    BY <1>4, <1>6, EnsureMissingKeeps DEF TypeInv
  <2>2. Locals(p)'
    BY <1>1, <2>1 DEF Locals
  <2>3. QED
    BY <2>1, <2>2, OthersLocals DEF TypeInv
<1>7. CASE EnsureInsert(p, AfterEnsure(p))
  <2>1. /\ Shared(VersionsOf, Events, Frames, Pcs)' /\ RowsStay(VersionsOf) /\ OthersKept(p)
        /\ \/ pc'[p] = "idle" /\ frame'[p] = NoFrame
           \/ /\ pc'[p] = after /\ frame'[p] = frame[p]
              /\ db'[k] \in UserStates
    <3>1. after \in Pcs /\ after \notin {"append", "insert", "makeState"}
      BY <1>3, <1>4
    <3>2. k \in DOMAIN VersionsOf /\ FreshState \in VersionsOf[k]
      BY <1>2, RowTypes, Constants
    <3>3. Shared(VersionsOf, Events, Frames, Pcs)
      BY DEF TypeInv
    <3>4. EnsureInsert(p, after) /\ NoFrame \in Frames /\ "idle" \in Pcs
      BY <1>3, <1>4, <1>7, Constants
    <3>5. QED
      BY <1>2, <3>1, <3>2, <3>3, <3>4, EnsureInsertKeeps
  <2>2. Locals(p)'
    BY <1>1, <1>3, <2>1 DEF Locals, HasState
  <2>3. QED
    BY <2>1, <2>2, OthersLocals DEF TypeInv
<1>8. QED
  BY <1>5, <1>6, <1>7

\* The statements of claimManualReferral.  The row of the claiming user is
\* there from the check before BEGIN to the UPDATE inside the transaction.
LEMMA ClaimTypes ==
  ASSUME NEW p \in Procs, TypeInv,
         ClaimCheck(p) \/ ClaimLock(p) \/ ClaimState(p) \/ ClaimInsert(p)
  PROVE  TypeInv'
<1> DEFINE k == StateRow(frame[p].user)
<1> DEFINE r == ReferralRow(frame[p].inviter, frame[p].user)
<1>1. /\ pc[p] \in {"claimCheck", "claimLock", "claimState", "claimInsert"}
      /\ Locals(p) /\ Shared(VersionsOf, Events, Frames, Pcs)
  BY DEF ClaimCheck, ClaimLock, ClaimState, ClaimInsert, TypeInv
<1>2. /\ frame[p] \in CallFrames /\ frame[p].op = "claim" /\ frame[p].inviter \in Users
      /\ frame[p].user \in Users /\ HasState(p)
  BY <1>1, Constants DEF Locals
<1>3. k \in DOMAIN VersionsOf /\ VersionsOf[k] = UserStates /\ db[k] \in UserStates
  BY <1>2, RowTypes DEF HasState
<1>4. {"claimCheck", "claimLock", "claimState", "claimInsert", "append"} \subseteq Pcs
  BY DEF Pcs
<1>5. CASE GiveUp(p)
  BY <1>5, GiveUpTypes
<1>6. CASE ClaimCheck(p) /\ ~GiveUp(p)
  <2>1. PICK f : f = [frame[p] EXCEPT !.day = day]
    OBVIOUS
  <2>2. /\ f \in CallFrames /\ f.op = "claim" /\ f.inviter \in Users
        /\ f.user = frame[p].user /\ f.day \in Days
    BY <1>1, <1>2, <2>1 DEF CallFrames, Frames, NoFrame, Shared, Days
  <2>3. /\ pc' = [pc EXCEPT ![p] = "claimLock"] /\ frame' = [frame EXCEPT ![p] = f]
        /\ UNCHANGED <<rowVars, ledgerVars, todo, bal, clockVars, calls>>
    BY <1>1, <1>6, <2>1 DEF ClaimCheck, Goto, Shared
  <2>4. RowsInv(VersionsOf)' /\ RowsStay(VersionsOf) /\ db' = db
    BY <1>1, <2>3, ReadKeepsRows DEF Shared, rowVars
  <2>5. Shared(VersionsOf, Events, Frames, Pcs)' /\ OthersKept(p)
    BY <1>1, <1>4, <2>2, <2>3, <2>4, Constants
    DEF Shared, OthersKept, ledgerVars, clockVars
  <2>6. pc'[p] = "claimLock" /\ frame'[p] = f
    BY <1>1, <2>3 DEF Shared
  <2>7. Locals(p)'
    BY <1>3, <2>2, <2>4, <2>6 DEF Locals, HasState
  <2>8. QED
    BY <2>4, <2>5, <2>7, OthersLocals DEF TypeInv
<1>7. CASE (ClaimLock(p) \/ ClaimState(p) \/ ClaimInsert(p)) /\ ~GiveUp(p)
  <2>1. RowsInv(VersionsOf)' /\ RowsStay(VersionsOf)
    <3>1. CASE ClaimLock(p)
      BY <1>1, <1>3, <1>7, <3>1, LockKeepsRows DEF ClaimLock, Shared
    <3>2. CASE ClaimState(p)
      <4>1. PICK v : v = [Sees(p, k) EXCEPT !.referredBy = frame[p].inviter]
        OBVIOUS
      <4>2. v \in UserStates
        <5>1. PICK w : w = Sees(p, k)
          OBVIOUS
        <5>2. w \in UserStates
          BY <1>1, <1>3, <5>1 DEF Shared, RowsInv, Sees
        <5>3. QED
          BY <1>2, <4>1, <5>1, <5>2 DEF UserStates
      <4>3. WriteRow(p, k, v)
        BY <3>2, <4>1 DEF ClaimState
      <4>4. QED
        BY <1>1, <1>3, <4>2, <4>3, WriteKeepsRows DEF Shared
    <3>3. CASE ClaimInsert(p)
      <4>1. PICK v : v = [status |-> "PARTIAL", day |-> frame[p].day]
        OBVIOUS
      <4>2. pc[p] = "claimInsert"
        BY <3>3 DEF ClaimInsert
      <4>3. v \in Referrals /\ r \in DOMAIN VersionsOf /\ VersionsOf[r] = Referrals
        BY <1>1, <1>2, <4>1, <4>2, RowTypes DEF Locals, Referrals
      <4>4. WriteRow(p, r, v)
        BY <1>7, <3>3, <4>1 DEF ClaimInsert, InsertRow
      <4>5. QED
        BY <1>1, <4>3, <4>4, WriteKeepsRows DEF Shared
    <3>4. QED
      BY <1>7, <3>1, <3>2, <3>3
  <2>2. PICK next \in {"claimState", "claimInsert", "append"} :
          /\ pc' = [pc EXCEPT ![p] = next]
          /\ next = "append" \/ pc[p] \in {"claimLock", "claimState"}
    BY <1>7 DEF ClaimLock, ClaimState, ClaimInsert, Goto
  <2>3. UNCHANGED <<ledgerVars, frame, bal, clockVars, calls>>
    BY <1>7 DEF ClaimLock, ClaimState, ClaimInsert
  <2>4. /\ todo' \in [Procs -> Seq(AppendsOf(Events))]
        /\ next = "append" => todo'[p] # <<>>
        /\ \A q \in Procs \ {p} : todo'[q] = todo[q]
    <3>1. CASE ClaimLock(p) \/ ClaimState(p)
      BY <1>1, <1>7, <2>2, <3>1 DEF ClaimLock, ClaimState, Goto, Shared
    <3>2. CASE ClaimInsert(p)
      <4>1. PICK list :
              list = <<Append1(frame[p].inviter, "REFERRAL_STAGE1", Stage1Points, FALSE),
                       Append1(frame[p].user, "REFERRAL_WELCOME_STAGE1", Stage1Points, FALSE)>>
        OBVIOUS
      <4>2. list \in Seq(AppendsOf(Events)) /\ list # <<>>
        BY <1>2, <4>1, ReferralsAssumption DEF Append1, AppendsOf, Events
      <4>3. todo' = [todo EXCEPT ![p] = list]
        BY <1>7, <3>2, <4>1 DEF ClaimInsert
      <4>4. QED
        BY <1>1, <4>2, <4>3 DEF Shared
    <3>3. QED
      BY <1>7, <3>1, <3>2
  <2>5. Shared(VersionsOf, Events, Frames, Pcs)' /\ OthersKept(p)
    BY <1>1, <1>4, <2>1, <2>2, <2>3, <2>4 DEF Shared, OthersKept, ledgerVars, clockVars
  <2>6. Locals(p)'
    <3>1. pc'[p] = next /\ frame' = frame
      BY <1>1, <2>2, <2>3 DEF Shared
    <3>2. HasState(p)'
      BY <1>2, <1>3, <2>1, <2>3 DEF HasState, RowsStay
    <3>3. QED
      BY <1>1, <1>2, <2>2, <3>1, <3>2 DEF Locals
  <2>7. QED
    BY <2>1, <2>5, <2>6, OthersLocals DEF TypeInv
<1>8. QED
  BY <1>5, <1>6, <1>7

\* The statements of completeManualReferralStage2: the inviter found before
\* BEGIN is the one that is locked, counted and paid.
LEMMA Stage2Types ==
  ASSUME NEW p \in Procs, TypeInv,
         Stage2Read(p) \/ Stage2Lock(p) \/ Stage2Cap(p) \/ Stage2Update(p)
  PROVE  TypeInv'
<1> DEFINE r == ReferralRow(frame[p].inviter, frame[p].user)
<1>1. /\ pc[p] \in {"stage2Read", "stage2Lock", "stage2Cap", "stage2Update"}
      /\ Locals(p) /\ Shared(VersionsOf, Events, Frames, Pcs)
  BY DEF Stage2Read, Stage2Lock, Stage2Cap, Stage2Update, TypeInv
<1>2. frame[p] \in CallFrames /\ frame[p].user \in Users
  BY <1>1, Constants DEF Locals
<1>3. {"stage2Lock", "stage2Cap", "stage2Update", "append"} \subseteq Pcs
  BY DEF Pcs
<1>4. CASE GiveUp(p)
  BY <1>4, GiveUpTypes
<1>5. CASE Stage2Read(p) /\ ~GiveUp(p)
  <2>1. PICK i \in Users :
          /\ frame' = [frame EXCEPT ![p].inviter = i, ![p].day = day]
          /\ Goto(p, "stage2Lock")
          /\ UNCHANGED <<rowVars, ledgerVars, todo, bal, clockVars, calls>>
    BY <1>5 DEF Stage2Read
  <2>2. PICK f : f = [frame[p] EXCEPT !.inviter = i, !.day = day]
    OBVIOUS
  <2>3. f \in CallFrames /\ f.inviter \in Users /\ f.day \in Days
    BY <1>1, <1>2, <2>2 DEF CallFrames, Frames, NoFrame, Shared, Days
  <2>4. pc' = [pc EXCEPT ![p] = "stage2Lock"] /\ frame' = [frame EXCEPT ![p] = f]
    BY <1>1, <2>1, <2>2 DEF Goto, Shared
  <2>5. RowsInv(VersionsOf)' /\ RowsStay(VersionsOf)
    BY <1>1, <2>1, ReadKeepsRows DEF Shared
  <2>6. Shared(VersionsOf, Events, Frames, Pcs)' /\ OthersKept(p)
    BY <1>1, <1>3, <2>1, <2>3, <2>4, <2>5, Constants
    DEF Shared, OthersKept, ledgerVars, clockVars
  <2>7. pc'[p] = "stage2Lock" /\ frame'[p] = f
    BY <1>1, <2>4 DEF Shared
  <2>8. Locals(p)'
    BY <2>3, <2>7 DEF Locals
  <2>9. QED
    BY <2>5, <2>6, <2>8, OthersLocals DEF TypeInv
<1>6. CASE (Stage2Lock(p) \/ Stage2Cap(p) \/ Stage2Update(p)) /\ ~GiveUp(p)
  <2>1. frame[p].inviter \in Users /\ frame[p].day \in Days
    BY <1>1, <1>6 DEF Locals, Stage2Lock, Stage2Cap, Stage2Update
  <2>2. RowsInv(VersionsOf)' /\ RowsStay(VersionsOf)
    <3>1. CASE Stage2Lock(p)
      <4>1. StateRow(frame[p].inviter) \in DOMAIN VersionsOf
        BY <2>1, RowTypes
      <4>2. QED
        BY <1>1, <3>1, <4>1, LockKeepsRows DEF Stage2Lock, Shared
    <3>2. CASE Stage2Cap(p)
      BY <1>1, <1>6, <3>2, ReadKeepsRows DEF Stage2Cap, Shared
    <3>3. CASE Stage2Update(p)
      <4>1. PICK v : v = [status |-> "COMPLETED", day |-> frame[p].day]
        OBVIOUS
      <4>2. v \in Referrals /\ r \in DOMAIN VersionsOf /\ VersionsOf[r] = Referrals
        BY <1>2, <2>1, <4>1, RowTypes DEF Referrals
      <4>3. WriteRow(p, r, v)
        BY <1>6, <3>3, <4>1 DEF Stage2Update
      <4>4. QED
        BY <1>1, <4>2, <4>3, WriteKeepsRows DEF Shared
    <3>4. QED
      BY <1>6, <3>1, <3>2, <3>3
  <2>3. PICK next \in {"stage2Cap", "stage2Update", "append"} : pc' = [pc EXCEPT ![p] = next]
    BY <1>6 DEF Stage2Lock, Stage2Cap, Stage2Update, Goto
  <2>4. UNCHANGED <<ledgerVars, frame, bal, clockVars, calls>>
    BY <1>6 DEF Stage2Lock, Stage2Cap, Stage2Update
  <2>5. /\ todo' \in [Procs -> Seq(AppendsOf(Events))]
        /\ next = "append" => todo'[p] # <<>>
        /\ \A q \in Procs \ {p} : todo'[q] = todo[q]
    <3>1. CASE Stage2Lock(p) \/ Stage2Cap(p)
      BY <1>1, <1>6, <2>3, <3>1 DEF Stage2Lock, Stage2Cap, Goto, Shared
    <3>2. CASE Stage2Update(p)
      <4>1. PICK list : list = Stage2Appends(frame[p])
        OBVIOUS
      <4>2. list \in Seq(AppendsOf(Events)) /\ list # <<>>
        BY <1>2, <2>1, <4>1, ReferralsAssumption
        DEF Stage2Appends, Append1, AppendsOf, Events
      <4>3. todo' = [todo EXCEPT ![p] = list]
        BY <1>6, <3>2, <4>1 DEF Stage2Update
      <4>4. QED
        BY <1>1, <4>2, <4>3 DEF Shared
    <3>3. QED
      BY <1>6, <3>1, <3>2
  <2>6. Shared(VersionsOf, Events, Frames, Pcs)' /\ OthersKept(p)
    BY <1>1, <1>3, <2>2, <2>3, <2>4, <2>5 DEF Shared, OthersKept, ledgerVars, clockVars
  <2>7. pc'[p] = next /\ frame' = frame
    BY <1>1, <2>3, <2>4 DEF Shared
  <2>8. Locals(p)'
    BY <1>2, <2>1, <2>3, <2>7 DEF Locals
  <2>9. QED
    BY <2>2, <2>6, <2>8, OthersLocals DEF TypeInv
<1>7. QED
  BY <1>4, <1>5, <1>6

\* The statements of claimManualOnboardingBonus.
LEMMA OnboardTypes ==
  ASSUME NEW p \in Procs, TypeInv, OnboardCheck(p) \/ OnboardCommit(p)
  PROVE  TypeInv'
<1>1. pc[p] \in {"onboardCheck", "commit"} /\ Locals(p)
        /\ Shared(VersionsOf, Events, Frames, Pcs)
  BY DEF OnboardCheck, OnboardCommit, TypeInv
<1>2. frame[p] \in CallFrames /\ frame[p].user \in Users
  BY <1>1, Constants DEF Locals
<1>3. {"append", "stage2Read"} \subseteq Pcs
  BY DEF Pcs
<1>4. CASE GiveUp(p)
  BY <1>4, GiveUpTypes
<1>5. CASE OnboardCheck(p) /\ ~GiveUp(p)
  <2>1. PICK list :
          list = <<Append1(frame[p].user, "ONBOARDING_BONUS", OnboardingPoints, FALSE)>>
    OBVIOUS
  <2>2. list \in Seq(AppendsOf(Events)) /\ list # <<>>
    BY <1>2, <2>1, ReferralsAssumption DEF Append1, AppendsOf, Events
  <2>3. /\ todo' = [todo EXCEPT ![p] = list] /\ pc' = [pc EXCEPT ![p] = "append"]
        /\ UNCHANGED <<rowVars, ledgerVars, frame, bal, clockVars, calls>>
        /\ pc[p] = "onboardCheck"
    BY <1>5, <2>1 DEF OnboardCheck, Goto
  <2>4. RowsInv(VersionsOf)' /\ RowsStay(VersionsOf)
    BY <1>1, <2>3, ReadKeepsRows DEF Shared
  <2>5. Shared(VersionsOf, Events, Frames, Pcs)' /\ OthersKept(p)
    BY <1>1, <1>3, <2>2, <2>3, <2>4 DEF Shared, OthersKept, ledgerVars, clockVars
  <2>6. Locals(p)'
    BY <1>1, <1>2, <2>3 DEF Locals, Shared
  <2>7. QED
    BY <2>4, <2>5, <2>6, OthersLocals DEF TypeInv
<1>6. CASE OnboardCommit(p)
  <2>1. PICK f : f = Frame("stage2", frame[p].user, NoRow)
    OBVIOUS
  <2>2. f \in CallFrames /\ f.op = "stage2"
    BY <1>2, <2>1 DEF Frame, CallFrames, Frames, NoFrame
  <2>3. /\ frame' = [frame EXCEPT ![p] = f] /\ pc' = [pc EXCEPT ![p] = "stage2Read"]
        /\ UNCHANGED <<todo, bal, clockVars, calls>>
    BY <1>1, <1>6, <2>1 DEF OnboardCommit, Goto, Shared
  <2>4. /\ RowsInv(VersionsOf)' /\ RowsStay(VersionsOf)
        /\ ledger' \subseteq RowsOf(Events)
        /\ open' \in [Procs -> SUBSET RowsOf(Events)]
        /\ held' \in [Procs -> SUBSET RowsOf(Events)]
    BY <1>1, <1>6, CommitLedgerKeeps DEF OnboardCommit
  <2>5. Shared(VersionsOf, Events, Frames, Pcs)' /\ OthersKept(p)
    BY <1>1, <1>3, <2>2, <2>3, <2>4, Constants DEF Shared, OthersKept, clockVars
  <2>6. pc'[p] = "stage2Read" /\ frame'[p] = f
    BY <1>1, <2>3 DEF Shared
  <2>7. Locals(p)'
    BY <2>2, <2>6 DEF Locals
  <2>8. QED
    BY <2>4, <2>5, <2>7, OthersLocals DEF TypeInv
<1>7. QED
  BY <1>4, <1>5, <1>6

\* appendPointsLedger and the last statement of a handler.
LEMMA AppendTypes ==
  ASSUME NEW p \in Procs, TypeInv,
         AppendRead(p) \/ AppendInsert(p, "commit") \/ AppendDuplicate(p) \/ Commit(p)
  PROVE  TypeInv'
<1>1. Shared(VersionsOf, Events, Frames, Pcs) /\ Locals(p) /\ pc[p] # "idle"
  BY DEF TypeInv, AppendRead, AppendInsert, AppendDuplicate, Commit
<1>2. {"idle", "append", "insert", "commit"} \subseteq Pcs
  BY DEF Pcs
<1>3. CASE AppendDuplicate(p) \/ Commit(p)
  <2>1. Shared(VersionsOf, Events, Frames, Pcs)' /\ RowsStay(VersionsOf) /\ OthersKept(p)
          /\ pc'[p] = "idle"
    BY <1>1, <1>2, <1>3, Constants, AppendDuplicateKeeps, CommitKeeps
  <2>2. QED
    BY <2>1, IdleLocals, OthersLocals DEF TypeInv
<1>4. CASE AppendRead(p) \/ AppendInsert(p, "commit")
  <2>1. Shared(VersionsOf, Events, Frames, Pcs)' /\ RowsStay(VersionsOf) /\ OthersKept(p)
          /\ pc'[p] \in {"append", "insert", "commit"} /\ frame'[p] = frame[p]
    <3>1. PICK done \in Pcs : done = "commit" /\ done \notin {"append", "insert", "makeState"}
      BY <1>2
    <3>2. CASE AppendRead(p)
      BY <1>1, <1>2, <3>2, AppendReadKeeps
    <3>3. CASE AppendInsert(p, "commit")
      <4>1. AppendInsert(p, done) /\ "append" \in Pcs
        BY <1>2, <3>1, <3>3
      <4>2. Shared(VersionsOf, Events, Frames, Pcs)' /\ RowsStay(VersionsOf) /\ OthersKept(p)
              /\ pc'[p] \in {done, "append"} /\ frame'[p] = frame[p]
        BY <1>1, <3>1, <4>1, AppendInsertKeeps
      <4>3. QED
        BY <3>1, <4>2
    <3>4. QED
      BY <1>4, <3>2, <3>3
  <2>2. Locals(p)'
    BY <1>1, <2>1 DEF Locals
  <2>3. QED
    BY <2>1, <2>2, OthersLocals DEF TypeInv
<1>5. QED
  BY <1>3, <1>4

\* What the database holds before the first call.
LEMMA InitTypes == Init => TypeInv
<1> SUFFICES ASSUME Init PROVE TypeInv
  OBVIOUS
<1>1. 1 \in 1..MaxDay /\ 0 \in Nat
  BY LedgerAssumption
<1>2. \A u \in Users : EarlierInviter(u) \in Users \cup {NoRow}
  BY ReferralsAssumption DEF EarlierInviter
<1>3. \A u \in Users :
        [FreshState EXCEPT !.referredBy = EarlierInviter(u)] \in UserStates
  BY <1>2 DEF FreshState, UserStates
<1>4. [status |-> "PARTIAL", day |-> 1] \in Referrals
  BY <1>1 DEF Referrals, Days
<1>5. DOMAIN db = Keys /\ new = db /\ owner = [k \in Keys |-> NoProc]
  BY DEF Init, LedgerInit, RowsInit
<1>6. \A k \in Keys : db[k] \in VersionsOf[k] \cup {NoRow}
  <2> SUFFICES ASSUME NEW k \in Keys PROVE db[k] \in VersionsOf[k] \cup {NoRow}
    OBVIOUS
  <2>1. db[k] = IF \E u \in Joined : k = StateRow(u)
                  THEN [FreshState EXCEPT !.referredBy = EarlierInviter(k[2])]
                ELSE IF \E i \in Claimed : k = ReferralRow(i[2], i[1])
                  THEN [status |-> "PARTIAL", day |-> 1] ELSE NoRow
    BY DEF Init, LedgerInit, RowsInit
  <2>2. CASE \E u \in Joined : k = StateRow(u)
    <3>1. k[2] \in Users /\ VersionsOf[k] = UserStates
      BY <2>2, ReferralsAssumption DEF VersionsOf, StateRow
    <3>2. QED
      BY <1>3, <2>1, <2>2, <3>1
  <2>3. CASE ~(\E u \in Joined : k = StateRow(u)) /\ \E i \in Claimed : k = ReferralRow(i[2], i[1])
    <3>1. VersionsOf[k] = Referrals
      BY <2>3 DEF VersionsOf, ReferralRow
    <3>2. QED
      BY <1>4, <2>1, <2>3, <3>1
  <2>4. QED
    BY <2>1, <2>2, <2>3
<1>7. RowsInv(VersionsOf)
  BY <1>5, <1>6, RowTypes DEF RowsInv, Init, LedgerInit, RowsInit
<1>8. ledger \subseteq RowsOf(Events)
  <2>1. ledger = UNION {{EarlierRow(i[2], "REFERRAL_STAGE1"),
                         EarlierRow(i[1], "REFERRAL_WELCOME_STAGE1")} : i \in Claimed}
    BY DEF Init, LedgerInit
  <2>2. \A u \in Users, e \in Events : EarlierRow(u, e) \in RowsOf(Events)
    BY <1>1, ReferralsAssumption DEF EarlierRow, RowsOf
  <2>3. \A i \in Claimed : i[1] \in Users /\ i[2] \in Users
    BY ReferralsAssumption
  <2>4. QED
    BY <2>1, <2>2, <2>3 DEF Events
<1>9. /\ pc = [p \in Procs |-> "idle"] /\ frame = [p \in Procs |-> NoFrame]
      /\ open = [p \in Procs |-> {}] /\ held = [p \in Procs |-> {}]
      /\ todo = [p \in Procs |-> <<>>] /\ bal = [p \in Procs |-> 0]
      /\ inserted = 0 /\ ms = 0 /\ day = 1 /\ calls = 0
  BY DEF Init, LedgerInit
<1>10. "idle" \in Pcs
  BY DEF Pcs
<1>11. Shared(VersionsOf, Events, Frames, Pcs)
  BY <1>1, <1>7, <1>8, <1>9, <1>10, Constants DEF Shared
<1>12. QED
  BY <1>9, <1>11 DEF TypeInv, Locals

\* The inductive invariant: no step of the system breaks it.
LEMMA TypesStay == TypeInv /\ [Next]_vars => TypeInv'
<1> SUFFICES ASSUME TypeInv, [Next]_vars PROVE TypeInv'
  OBVIOUS
<1>1. ASSUME NEW p \in Procs, Start(p) PROVE TypeInv'
  BY <1>1, StartTypes
<1>2. ASSUME NEW p \in Procs, Step(p) PROVE TypeInv'
  BY <1>2, EnsureTypes, ClaimTypes, Stage2Types, OnboardTypes, AppendTypes DEF Step
<1>3. ASSUME NEW p \in Procs, Crash(p) PROVE TypeInv'
  BY <1>3, GiveUpTypes DEF Crash
<1>4. ASSUME Shared(VersionsOf, Events, Frames, Pcs)', RowsStay(VersionsOf),
             UNCHANGED <<pc, frame>>
      PROVE  TypeInv'
  <2>1. ASSUME NEW p \in Procs PROVE Locals(p)'
    <3>1. Locals(p)
      BY DEF TypeInv
    <3>2. pc[p] # "idle" => StateRow(frame[p].user) \in Keys
                              /\ VersionsOf[StateRow(frame[p].user)] = UserStates
      BY <3>1, RowTypes, Constants DEF Locals
    <3>3. pc[p] # "idle" /\ HasState(p) => HasState(p)'
      BY <1>4, <3>2, RowTypes DEF HasState, RowsStay
    <3>4. QED
      BY <1>4, <3>1, <3>3 DEF Locals
  <2>2. QED
    BY <1>4, <2>1 DEF TypeInv
<1>5. CASE NextDay
  BY <1>4, <1>5, NextDayKeeps DEF TypeInv, NextDay
<1>6. CASE UNCHANGED vars
  BY <1>4, <1>6, StutterKeeps DEF TypeInv, vars
<1>7. QED
  BY <1>1, <1>2, <1>3, <1>5, <1>6 DEF Next, Quiet

\* Every variable has the type of the column or of the local it stands for,
\* whichever handlers race and whichever instances die: no statement updates a
\* row that is not there, and none runs with a local the code has not set.
THEOREM TypesHold == Spec => []TypeOK
<1>1. TypeInv => TypeOK
  BY TypeInvImplies
<1>2. QED
  BY <1>1, InitTypes, TypesStay, PTL DEF Spec

-----------------------------------------------------------------------------
\* ReferredOnce.  It is not inductive: a claim writes referred_by_code and
\* inserts the referral in two statements, and a COMMIT publishes both.  The
\* invariant says which transaction has which half: a referral row somebody
\* has locked is committed already, or comes with the user's own row, locked
\* by the same transaction and naming the same inviter; a user's inviter,
\* once committed, is never overwritten; and the row a claim has just locked
\* is what the claim has read, since nothing else changes an unlocked row.

PendingClaims ==
  \A i, u \in Users : owner[ReferralRow(i, u)] # NoProc =>
    \/ db[ReferralRow(i, u)] # NoRow
    \/ /\ owner[StateRow(u)] = owner[ReferralRow(i, u)]
       /\ new[StateRow(u)] # NoRow /\ new[StateRow(u)].referredBy = i

InvitersStay ==
  \A u \in Users : db[StateRow(u)] # NoRow =>
    /\ new[StateRow(u)] # NoRow
    /\ db[StateRow(u)].referredBy # NoRow =>
         new[StateRow(u)].referredBy = db[StateRow(u)].referredBy

UnlockedRows == \A k \in Keys : owner[k] = NoProc => new[k] = db[k]

\* The statements before which a handler has locked no row.
EarlyPcs == {"idle", "ensure", "ensureInsert", "claimCheck", "claimLock"}

ClaimLocals(p) ==
  LET k == StateRow(frame[p].user) IN
  /\ pc[p] \in EarlyPcs => \A j \in Keys : owner[j] # p
  /\ pc[p] = "claimState" =>
       owner[k] = p /\ db[k].referredBy = NoRow /\ new[k].referredBy = NoRow
  /\ pc[p] = "claimInsert" =>
       owner[k] = p /\ new[k] # NoRow /\ new[k].referredBy = frame[p].inviter
  /\ pc[p] \in {"stage2Lock", "stage2Cap", "stage2Update"} =>
       db[ReferralRow(frame[p].inviter, frame[p].user)] # NoRow

RefRows == ReferredOnce /\ PendingClaims /\ InvitersStay /\ UnlockedRows

RefInv == TypeInv /\ RefRows /\ \A p \in Procs : ClaimLocals(p)

\* A step of p leaves the rows the others have locked alone.
LocksKept(p) ==
  \A q \in Procs \ {p}, k \in Keys :
    /\ owner'[k] = q <=> owner[k] = q
    /\ owner[k] = q => new'[k] = new[k] /\ db'[k] = db[k]

\* The keys of the two tables, and what their rows are.
LEMMA RowFacts ==
  ASSUME TypeInv
  PROVE  /\ DOMAIN db = Keys /\ DOMAIN new = Keys
         /\ owner \in [Keys -> Procs \cup {NoProc}]
         /\ \A u \in Users : /\ StateRow(u) \in Keys
                             /\ db[StateRow(u)] \in UserStates \cup {NoRow}
                             /\ new[StateRow(u)] \in UserStates \cup {NoRow}
         /\ \A i, u \in Users : /\ ReferralRow(i, u) \in Keys
                                /\ db[ReferralRow(i, u)] \in Referrals \cup {NoRow}
                                /\ new[ReferralRow(i, u)] \in Referrals \cup {NoRow}
BY RowTypes DEF TypeInv, Shared, RowsInv

\* Rows of different users, and of different tables, have different keys.
LEMMA KeysDiffer ==
  /\ \A u, v : StateRow(u) = StateRow(v) => u = v
  /\ \A u, i, v : StateRow(u) # ReferralRow(i, v)
  /\ \A i, j, u, v : ReferralRow(i, u) = ReferralRow(j, v) => i = j /\ u = v
BY DEF StateRow, ReferralRow

\* SELECT ... FOR UPDATE of a user's row
LEMMA LockRefRows ==
  ASSUME NEW p \in Procs, NEW v \in Users, TypeInv, RefRows, LockRow(p, StateRow(v))
  PROVE  RefRows' /\ LocksKept(p)
<1> DEFINE k == StateRow(v)
<1>1. /\ DOMAIN owner = Keys /\ db' = db /\ new' = new
      /\ owner[k] \in {NoProc, p} /\ p # NoProc
      /\ \A j \in Keys : owner'[j] = IF j = k THEN p ELSE owner[j]
  BY RowFacts, LedgerAssumption DEF LockRow, Free
<1>2. ReferredOnce' /\ InvitersStay'
  BY <1>1 DEF RefRows, ReferredOnce, InvitersStay
<1>3. PendingClaims'
  <2> SUFFICES ASSUME NEW i \in Users, NEW u \in Users, owner'[ReferralRow(i, u)] # NoProc,
                      db[ReferralRow(i, u)] = NoRow
               PROVE  /\ owner'[StateRow(u)] = owner'[ReferralRow(i, u)]
                      /\ new[StateRow(u)] # NoRow /\ new[StateRow(u)].referredBy = i
    BY <1>1 DEF PendingClaims
  <2>1. StateRow(u) \in Keys /\ ReferralRow(i, u) \in Keys
    BY RowFacts
  <2>2. owner[ReferralRow(i, u)] # NoProc
    BY <1>1, <2>1, KeysDiffer
  <2>3. QED
    BY <1>1, <2>1, <2>2 DEF RefRows, PendingClaims
<1>4. UnlockedRows'
  BY <1>1 DEF RefRows, UnlockedRows
<1>5. LocksKept(p)
  BY <1>1, LedgerAssumption DEF LocksKept
<1>6. QED
  BY <1>2, <1>3, <1>4, <1>5 DEF RefRows

\* A statement that only reads
LEMMA ReadRefRows ==
  ASSUME NEW p \in Procs, RefRows, UNCHANGED rowVars
  PROVE  RefRows' /\ LocksKept(p)
BY DEF RefRows, ReferredOnce, PendingClaims, InvitersStay, UnlockedRows, LocksKept, rowVars

\* ROLLBACK
LEMMA RollbackRefRows ==
  ASSUME NEW p \in Procs, TypeInv, RefRows, RollbackRows(p)
  PROVE  RefRows' /\ LocksKept(p) /\ \A k \in Keys : owner'[k] # p
<1>1. /\ DOMAIN owner = Keys /\ DOMAIN new = Keys /\ db' = db
      /\ \A k \in Keys : owner'[k] = IF owner[k] = p THEN NoProc ELSE owner[k]
      /\ \A k \in Keys : new'[k] = IF owner[k] = p THEN db[k] ELSE new[k]
  BY RowFacts DEF RollbackRows, Unlocked
<1>2. ReferredOnce'
  BY <1>1 DEF RefRows, ReferredOnce
<1>3. PendingClaims'
  BY <1>1, RowFacts DEF RefRows, PendingClaims
<1>4. InvitersStay'
  BY <1>1, RowFacts DEF RefRows, InvitersStay
<1>5. UnlockedRows'
  BY <1>1 DEF RefRows, UnlockedRows
<1>6. LocksKept(p) /\ \A k \in Keys : owner'[k] # p
  BY <1>1, LedgerAssumption DEF LocksKept
<1>7. QED
  BY <1>2, <1>3, <1>4, <1>5, <1>6 DEF RefRows

\* COMMIT
LEMMA CommitRefRows ==
  ASSUME NEW p \in Procs, TypeInv, RefRows, CommitRows(p)
  PROVE  RefRows' /\ LocksKept(p) /\ \A k \in Keys : owner'[k] # p
<1>1. /\ DOMAIN owner = Keys /\ DOMAIN db = Keys /\ new' = new
      /\ \A k \in Keys : owner'[k] = IF owner[k] = p THEN NoProc ELSE owner[k]
      /\ \A k \in Keys : db'[k] = IF owner[k] = p THEN new[k] ELSE db[k]
  BY RowFacts DEF CommitRows, Unlocked, Sees
<1>2. p # NoProc
  BY LedgerAssumption
<1>3. \A i, u \in Users : db[ReferralRow(i, u)] # NoRow =>
        db'[StateRow(u)] # NoRow /\ db'[StateRow(u)].referredBy = i
  <2> SUFFICES ASSUME NEW i \in Users, NEW u \in Users, db[ReferralRow(i, u)] # NoRow
               PROVE  db'[StateRow(u)] # NoRow /\ db'[StateRow(u)].referredBy = i
    OBVIOUS
  <2>1. db[StateRow(u)] # NoRow /\ db[StateRow(u)].referredBy = i
    BY DEF RefRows, ReferredOnce
  <2>2. new[StateRow(u)] # NoRow /\ new[StateRow(u)].referredBy = i
    BY <2>1, ReferralsAssumption DEF RefRows, InvitersStay
  <2>3. QED
    BY <1>1, <2>1, <2>2, RowFacts
<1>4. ReferredOnce'
  <2> SUFFICES ASSUME NEW i \in Users, NEW u \in Users, db'[ReferralRow(i, u)] # NoRow
               PROVE  db'[StateRow(u)] # NoRow /\ db'[StateRow(u)].referredBy = i
    BY DEF ReferredOnce
  <2>1. CASE db[ReferralRow(i, u)] # NoRow
    BY <1>3, <2>1
  <2>2. CASE db[ReferralRow(i, u)] = NoRow
    <3>1. owner[ReferralRow(i, u)] = p
      BY <1>1, <2>2, RowFacts
    <3>2. owner[StateRow(u)] = p /\ new[StateRow(u)] # NoRow /\ new[StateRow(u)].referredBy = i
      BY <1>2, <2>2, <3>1 DEF RefRows, PendingClaims
    <3>3. QED
      BY <1>1, <3>2, RowFacts
  <2>3. QED
    BY <2>1, <2>2
<1>5. PendingClaims'
  <2> SUFFICES ASSUME NEW i \in Users, NEW u \in Users, owner'[ReferralRow(i, u)] # NoProc
               PROVE  \/ db'[ReferralRow(i, u)] # NoRow
                      \/ /\ owner'[StateRow(u)] = owner'[ReferralRow(i, u)]
                         /\ new'[StateRow(u)] # NoRow /\ new'[StateRow(u)].referredBy = i
    BY DEF PendingClaims
  <2>1. owner[ReferralRow(i, u)] # p /\ owner'[ReferralRow(i, u)] = owner[ReferralRow(i, u)]
          /\ db'[ReferralRow(i, u)] = db[ReferralRow(i, u)]
    BY <1>1, RowFacts
  <2>2. QED
    BY <1>1, <2>1, RowFacts DEF RefRows, PendingClaims
<1>6. InvitersStay'
  BY <1>1, RowFacts DEF RefRows, InvitersStay
<1>7. UnlockedRows'
  BY <1>1 DEF RefRows, UnlockedRows
<1>8. LocksKept(p) /\ \A k \in Keys : owner'[k] # p
  BY <1>1, LedgerAssumption DEF LocksKept
<1>9. QED
  BY <1>4, <1>5, <1>6, <1>7, <1>8 DEF RefRows

\* The INSERT of a user's row by itself.
LEMMA EnsureRefRows ==
  ASSUME NEW p \in Procs, NEW u \in Users, TypeInv, RefRows,
         db[StateRow(u)] = NoRow, AutocommitRow(StateRow(u), FreshState)
  PROVE  RefRows' /\ LocksKept(p) /\ owner' = owner
<1> DEFINE k == StateRow(u)
<1>1. /\ k \in Keys /\ owner[k] = NoProc /\ owner' = owner
      /\ \A j \in Keys : db'[j] = IF j = k THEN FreshState ELSE db[j]
      /\ \A j \in Keys : new'[j] = IF j = k THEN FreshState ELSE new[j]
  BY RowFacts DEF AutocommitRow
<1>2. \A i, v \in Users : db'[ReferralRow(i, v)] = db[ReferralRow(i, v)]
  BY <1>1, RowFacts, KeysDiffer
<1>3. \A v \in Users : v # u => db'[StateRow(v)] = db[StateRow(v)] /\ new'[StateRow(v)] = new[StateRow(v)]
  BY <1>1, RowFacts, KeysDiffer
<1>4. \A i \in Users : db[ReferralRow(i, u)] = NoRow /\ owner[ReferralRow(i, u)] = NoProc
  BY <1>1 DEF RefRows, ReferredOnce, PendingClaims
<1>5. FreshState # NoRow
  BY Constants, NoRowAssumption
<1>6. ReferredOnce'
  BY <1>2, <1>3, <1>4 DEF RefRows, ReferredOnce
<1>7. PendingClaims'
  BY <1>1, <1>2, <1>3, <1>4 DEF RefRows, PendingClaims
<1>8. InvitersStay'
  BY <1>1, <1>3, <1>5 DEF RefRows, InvitersStay
<1>9. UnlockedRows'
  BY <1>1 DEF RefRows, UnlockedRows
<1>10. LocksKept(p)
  BY <1>1, LedgerAssumption DEF LocksKept
<1>11. QED
  BY <1>1, <1>6, <1>7, <1>8, <1>9, <1>10 DEF RefRows

\* The claim's UPDATE of the user's row, which it has locked and found empty.
LEMMA ClaimStateRefRows ==
  ASSUME NEW p \in Procs, NEW u \in Users, NEW i \in Users, NEW v \in UserStates,
         TypeInv, RefRows, v.referredBy = i,
         owner[StateRow(u)] = p, db[StateRow(u)].referredBy = NoRow,
         new[StateRow(u)].referredBy = NoRow, WriteRow(p, StateRow(u), v)
  PROVE  RefRows' /\ LocksKept(p)
<1> DEFINE k == StateRow(u)
<1>1. /\ k \in Keys /\ owner' = owner /\ db' = db
      /\ \A j \in Keys : new'[j] = IF j = k THEN v ELSE new[j]
  BY RowFacts DEF WriteRow
<1>2. v # NoRow /\ i # NoRow /\ p # NoProc
  BY NoRowAssumption, ReferralsAssumption, LedgerAssumption
<1>3. \A w \in Users : w # u => new'[StateRow(w)] = new[StateRow(w)]
  BY <1>1, RowFacts, KeysDiffer
<1>4. \A j \in Users : db[ReferralRow(j, u)] = NoRow /\ owner[ReferralRow(j, u)] = NoProc
  BY ReferralsAssumption DEF RefRows, ReferredOnce, PendingClaims
<1>5. ReferredOnce'
  BY <1>1 DEF RefRows, ReferredOnce
<1>6. PendingClaims'
  BY <1>1, <1>3, <1>4 DEF RefRows, PendingClaims
<1>7. InvitersStay'
  BY <1>1, <1>2, <1>3 DEF RefRows, InvitersStay
<1>8. UnlockedRows'
  BY <1>1, <1>2 DEF RefRows, UnlockedRows
<1>9. LocksKept(p)
  BY <1>1 DEF LocksKept
<1>10. QED
  BY <1>5, <1>6, <1>7, <1>8, <1>9 DEF RefRows

\* The write of a referral row: committed already, or claimed by this very
\* transaction.
LEMMA ReferralRefRows ==
  ASSUME NEW p \in Procs, NEW u \in Users, NEW i \in Users, NEW v \in Referrals,
         TypeInv, RefRows, WriteRow(p, ReferralRow(i, u), v),
         \/ db[ReferralRow(i, u)] # NoRow
         \/ /\ owner[StateRow(u)] = p
            /\ new[StateRow(u)] # NoRow /\ new[StateRow(u)].referredBy = i
  PROVE  RefRows' /\ LocksKept(p)
<1> DEFINE k == ReferralRow(i, u)
<1>1. /\ k \in Keys /\ owner[k] \in {NoProc, p} /\ db' = db
      /\ \A j \in Keys : owner'[j] = IF j = k THEN p ELSE owner[j]
      /\ \A j \in Keys : new'[j] = IF j = k THEN v ELSE new[j]
  BY RowFacts DEF WriteRow, Free
<1>2. \A w \in Users : /\ new'[StateRow(w)] = new[StateRow(w)]
                       /\ owner'[StateRow(w)] = owner[StateRow(w)]
  BY <1>1, RowFacts, KeysDiffer
<1>3. \A j, w \in Users : ReferralRow(j, w) # k =>
        owner'[ReferralRow(j, w)] = owner[ReferralRow(j, w)]
  BY <1>1, RowFacts
<1>4. ReferredOnce' /\ InvitersStay'
  BY <1>1, <1>2 DEF RefRows, ReferredOnce, InvitersStay
<1>5. PendingClaims'
  <2> SUFFICES ASSUME NEW j \in Users, NEW w \in Users, owner'[ReferralRow(j, w)] # NoProc
               PROVE  \/ db[ReferralRow(j, w)] # NoRow
                      \/ /\ owner[StateRow(w)] = owner'[ReferralRow(j, w)]
                         /\ new[StateRow(w)] # NoRow /\ new[StateRow(w)].referredBy = j
    BY <1>1, <1>2 DEF PendingClaims
  <2>1. CASE ReferralRow(j, w) = k
    BY <1>1, <2>1, KeysDiffer
  <2>2. CASE ReferralRow(j, w) # k
    BY <1>3, <2>2 DEF RefRows, PendingClaims
  <2>3. QED
    BY <2>1, <2>2
<1>6. UnlockedRows'
  BY <1>1, LedgerAssumption DEF RefRows, UnlockedRows
<1>7. LocksKept(p)
  BY <1>1, LedgerAssumption DEF LocksKept
<1>8. QED
  BY <1>4, <1>5, <1>6, <1>7 DEF RefRows

-----------------------------------------------------------------------------
\* What p does to its own locals and rows is all that has to be looked at.
LEMMA OthersClaims ==
  ASSUME NEW p \in Procs, RefInv, TypeInv', RefRows', RowsStay(VersionsOf),
         LocksKept(p), OthersKept(p), ClaimLocals(p)'
  PROVE  RefInv'
<1> SUFFICES ASSUME NEW q \in Procs, q # p PROVE ClaimLocals(q)'
  BY DEF RefInv
<1>1. ClaimLocals(q) /\ pc'[q] = pc[q] /\ frame'[q] = frame[q]
  BY DEF RefInv, OthersKept
<1>2. \A k \in Keys : /\ owner'[k] = q <=> owner[k] = q
                      /\ owner[k] = q => new'[k] = new[k] /\ db'[k] = db[k]
  BY DEF LocksKept
<1>3. pc[q] # "idle" => frame[q].user \in Users /\ StateRow(frame[q].user) \in Keys
  BY RowTypes, Constants DEF RefInv, TypeInv, Locals
<1>4. pc[q] \in EarlyPcs => \A k \in Keys : owner'[k] # q
  BY <1>1, <1>2 DEF ClaimLocals
<1>5. pc[q] \in {"claimState", "claimInsert"} =>
        LET k == StateRow(frame[q].user) IN
        /\ owner'[k] = owner[k] /\ new'[k] = new[k] /\ db'[k] = db[k]
  BY <1>1, <1>2, <1>3 DEF ClaimLocals
<1>6. pc[q] \in {"stage2Lock", "stage2Cap", "stage2Update"} =>
        db'[ReferralRow(frame[q].inviter, frame[q].user)] # NoRow
  <2> SUFFICES ASSUME pc[q] \in {"stage2Lock", "stage2Cap", "stage2Update"}
               PROVE  db'[ReferralRow(frame[q].inviter, frame[q].user)] # NoRow
    OBVIOUS
  <2>1. frame[q].inviter \in Users /\ frame[q].user \in Users
    BY <1>3 DEF RefInv, TypeInv, Locals
  <2>2. PICK k : k = ReferralRow(frame[q].inviter, frame[q].user)
    OBVIOUS
  <2>3. k \in Keys /\ VersionsOf[k] = Referrals /\ db[k] \in Referrals
    BY <1>1, <2>1, <2>2, RowTypes, RowFacts DEF RefInv, ClaimLocals
  <2>4. db'[k] \in Referrals
    BY <2>3, RowTypes DEF RowsStay
  <2>5. QED
    BY <2>2, <2>4, NoRowAssumption
<1>7. QED
  BY <1>1, <1>4, <1>5, <1>6 DEF ClaimLocals

\* A statement that only reads.
LEMMA ReadClaims ==
  ASSUME NEW p \in Procs, RefInv, TypeInv', UNCHANGED rowVars, OthersKept(p), ClaimLocals(p)'
  PROVE  RefInv'
<1>1. RowsStay(VersionsOf)
  BY ReadKeepsRows DEF RefInv, TypeInv, Shared
<1>2. RefRows' /\ LocksKept(p)
  BY ReadRefRows DEF RefInv
<1>3. QED
  BY <1>1, <1>2, OthersClaims

\* A refusal, a rollback or a crash.
LEMMA GiveUpClaims ==
  ASSUME NEW p \in Procs, RefInv, TypeInv', GiveUp(p)
  PROVE  RefInv'
<1>1. RowsStay(VersionsOf) /\ OthersKept(p) /\ pc'[p] = "idle"
  <2>1. Shared(VersionsOf, Events, Frames, Pcs) /\ NoFrame \in Frames /\ "idle" \in Pcs
    BY Constants DEF RefInv, TypeInv, Pcs
  <2>2. QED
    BY <2>1, GiveUpKeeps
<1>2. RefRows' /\ LocksKept(p) /\ \A k \in Keys : owner'[k] # p
  BY RollbackRefRows DEF RefInv, GiveUp
<1>3. ClaimLocals(p)'
  BY <1>1, <1>2 DEF ClaimLocals
<1>4. QED
  BY <1>1, <1>2, <1>3, OthersClaims

\* COMMIT.
LEMMA CommitClaims ==
  ASSUME NEW p \in Procs, RefInv, TypeInv', Commit(p) \/ OnboardCommit(p)
  PROVE  RefInv'
<1>1. CommitRows(p) /\ Shared(VersionsOf, Events, Frames, Pcs)
  BY DEF Commit, OnboardCommit, CommitLedger, RefInv, TypeInv
<1>2. RowsStay(VersionsOf)
  BY <1>1, CommitKeepsRows DEF Shared
<1>3. OthersKept(p) /\ pc'[p] \in {"idle", "stage2Read"}
  BY <1>1 DEF Commit, OnboardCommit, Return, Goto, OthersKept, Shared
<1>4. RefRows' /\ LocksKept(p) /\ \A k \in Keys : owner'[k] # p
  BY <1>1, CommitRefRows DEF RefInv
<1>5. ClaimLocals(p)'
  BY <1>3, <1>4 DEF ClaimLocals
<1>6. QED
  BY <1>2, <1>3, <1>4, <1>5, OthersClaims

\* A call starts.
LEMMA StartClaims ==
  ASSUME NEW p \in Procs, RefInv, TypeInv', Start(p)
  PROVE  RefInv'
<1> DEFINE Calls == {Frame("claim", i[1], i[2]) : i \in Invitations}
                      \cup {Frame("stage2", u, NoRow) : u \in Users}
                      \cup {Frame("onboard", u, NoRow) : u \in Users}
<1>1. PICK f \in Calls, first \in {"ensure", "stage2Read"} : StartCall(p, f, first)
  BY DEF Start
<1>2. pc[p] = "idle" /\ pc'[p] \in {"ensure", "stage2Read"} /\ OthersKept(p) /\ UNCHANGED rowVars
  BY <1>1 DEF StartCall, Goto, OthersKept, RefInv, TypeInv, Shared
<1>3. ClaimLocals(p)'
  BY <1>2 DEF RefInv, ClaimLocals, EarlyPcs, rowVars
<1>4. QED
  BY <1>2, <1>3, ReadClaims

\* The statements that only read.
LEMMA ReadsClaims ==
  ASSUME NEW p \in Procs, RefInv, TypeInv', ~GiveUp(p),
         \/ EnsureFound(p) \/ EnsureMissing(p) \/ ClaimCheck(p)
         \/ Stage2Read(p) \/ Stage2Cap(p) \/ OnboardCheck(p)
         \/ AppendRead(p) \/ AppendInsert(p, "commit")
  PROVE  RefInv'
<1>1. Shared(VersionsOf, Events, Frames, Pcs) /\ ClaimLocals(p) /\ Locals(p)
  BY DEF RefInv, TypeInv
<1>2. UNCHANGED rowVars /\ OthersKept(p)
  BY <1>1 DEF EnsureFound, EnsureMissing, ClaimCheck, Stage2Read, Stage2Cap, OnboardCheck,
              AppendRead, AppendInsert, Goto, OthersKept, Shared
<1>3. CASE EnsureFound(p) \/ EnsureMissing(p) \/ ClaimCheck(p)
  <2>1. pc[p] \in EarlyPcs
    BY <1>3 DEF EnsureFound, EnsureMissing, ClaimCheck, EarlyPcs
  <2>2. pc'[p] \in EarlyPcs \cup {"onboardCheck"}
    BY <1>1, <1>3 DEF EnsureFound, EnsureMissing, ClaimCheck, AfterEnsure, Goto, EarlyPcs, Shared
  <2>3. ClaimLocals(p)'
    BY <1>1, <1>2, <2>1, <2>2 DEF ClaimLocals, rowVars, EarlyPcs
  <2>4. QED
    BY <1>2, <2>3, ReadClaims
<1>4. CASE OnboardCheck(p) \/ AppendRead(p) \/ AppendInsert(p, "commit")
  <2>1. pc'[p] \in {"append", "insert", "commit"}
    BY <1>1, <1>4 DEF OnboardCheck, AppendRead, AppendInsert, Goto, Shared
  <2>2. ClaimLocals(p)'
    BY <2>1 DEF ClaimLocals, EarlyPcs
  <2>3. QED
    BY <1>2, <2>2, ReadClaims
<1>5. CASE Stage2Read(p)
  <2>1. PICK i \in Users :
          /\ db[ReferralRow(i, frame[p].user)] # NoRow
          /\ frame' = [frame EXCEPT ![p].inviter = i, ![p].day = day]
          /\ Goto(p, "stage2Lock")
    BY <1>5 DEF Stage2Read
  <2>2. frame[p] \in CallFrames
    BY <1>1, <1>5 DEF Stage2Read, Locals
  <2>3. pc'[p] = "stage2Lock" /\ frame'[p].inviter = i /\ frame'[p].user = frame[p].user
    BY <1>1, <2>1, <2>2 DEF Goto, Shared, CallFrames, Frames, NoFrame
  <2>4. ClaimLocals(p)'
    BY <1>2, <2>1, <2>3 DEF ClaimLocals, EarlyPcs, rowVars
  <2>5. QED
    BY <1>2, <2>4, ReadClaims
<1>6. CASE Stage2Cap(p)
  <2>1. pc[p] = "stage2Cap" /\ pc'[p] = "stage2Update" /\ frame'[p] = frame[p]
    BY <1>1, <1>6 DEF Stage2Cap, Goto, Shared
  <2>2. ClaimLocals(p)'
    BY <1>1, <1>2, <2>1 DEF ClaimLocals, EarlyPcs, rowVars
  <2>3. QED
    BY <1>2, <2>2, ReadClaims
<1>7. QED
  BY <1>3, <1>4, <1>5, <1>6

\* The user's row is made.
LEMMA EnsureClaims ==
  ASSUME NEW p \in Procs, RefInv, TypeInv', ~GiveUp(p), EnsureInsert(p, AfterEnsure(p))
  PROVE  RefInv'
<1> DEFINE u == frame[p].user
<1>1. Shared(VersionsOf, Events, Frames, Pcs) /\ ClaimLocals(p) /\ Locals(p) /\ TypeInv /\ RefRows
  BY DEF RefInv, TypeInv
<1>2. pc[p] = "ensureInsert" /\ db[StateRow(u)] = NoRow /\ AutocommitRow(StateRow(u), FreshState)
        /\ Goto(p, AfterEnsure(p)) /\ frame' = frame
  BY DEF EnsureInsert
<1>3. u \in Users /\ StateRow(u) \in DOMAIN VersionsOf /\ FreshState \in VersionsOf[StateRow(u)]
  BY <1>1, <1>2, Constants, RowTypes DEF Locals
<1>4. RowsStay(VersionsOf)
  BY <1>1, <1>2, <1>3, AutocommitKeepsRows DEF Shared
<1>5. RefRows' /\ LocksKept(p) /\ owner' = owner
  BY <1>1, <1>2, <1>3, EnsureRefRows
<1>6. OthersKept(p) /\ pc'[p] \in {"claimCheck", "onboardCheck"}
  BY <1>1, <1>2 DEF Goto, AfterEnsure, OthersKept, Shared
<1>7. ClaimLocals(p)'
  BY <1>1, <1>2, <1>5, <1>6 DEF ClaimLocals, EarlyPcs
<1>8. QED
  BY <1>4, <1>5, <1>6, <1>7, OthersClaims

\* The claim locks the user's row, which says nobody has invited the user ...
LEMMA ClaimLockClaims ==
  ASSUME NEW p \in Procs, RefInv, TypeInv', ~GiveUp(p), ClaimLock(p)
  PROVE  RefInv'
<1> DEFINE k == StateRow(frame[p].user)
<1>1. Shared(VersionsOf, Events, Frames, Pcs) /\ ClaimLocals(p) /\ Locals(p) /\ TypeInv /\ RefRows
  BY DEF RefInv, TypeInv
<1>2. /\ pc[p] = "claimLock" /\ db[k].referredBy = NoRow /\ LockRow(p, k)
      /\ Goto(p, "claimState") /\ frame' = frame
  BY DEF ClaimLock
<1>3. frame[p].user \in Users /\ k \in Keys /\ k \in DOMAIN VersionsOf
  BY <1>1, <1>2, Constants, RowTypes DEF Locals
<1>4. RowsStay(VersionsOf) /\ RefRows' /\ LocksKept(p)
  BY <1>1, <1>2, <1>3, LockKeepsRows, LockRefRows DEF Shared
<1>5. OthersKept(p) /\ pc'[p] = "claimState"
  BY <1>1, <1>2 DEF Goto, OthersKept, Shared
<1>6. owner'[k] = p /\ db'[k].referredBy = NoRow /\ new'[k].referredBy = NoRow
  <2>1. owner[k] # p
    BY <1>1, <1>2, <1>3 DEF ClaimLocals, EarlyPcs
  <2>2. new[k] = db[k]
    BY <1>1, <1>2, <1>3, <2>1 DEF LockRow, Free, RefRows, UnlockedRows
  <2>3. QED
    BY <1>1, <1>2, <1>3, <2>2, RowFacts DEF LockRow
<1>7. ClaimLocals(p)'
  BY <1>2, <1>5, <1>6 DEF ClaimLocals, EarlyPcs
<1>8. QED
  BY <1>4, <1>5, <1>7, OthersClaims

\* ... names the inviter in it ...
LEMMA ClaimStateClaims ==
  ASSUME NEW p \in Procs, RefInv, TypeInv', ClaimState(p)
  PROVE  RefInv'
<1> DEFINE k == StateRow(frame[p].user)
<1>1. Shared(VersionsOf, Events, Frames, Pcs) /\ ClaimLocals(p) /\ Locals(p) /\ TypeInv /\ RefRows
  BY DEF RefInv, TypeInv
<1>2. pc[p] = "claimState" /\ frame[p] \in CallFrames /\ frame[p].op = "claim"
        /\ HasState(p) /\ frame[p].inviter \in Users
  BY <1>1 DEF ClaimState, Locals
<1>3. /\ frame[p].user \in Users /\ k \in Keys /\ k \in DOMAIN VersionsOf
      /\ VersionsOf[k] = UserStates
  BY <1>2, Constants, RowTypes
<1>4. owner[k] = p /\ db[k].referredBy = NoRow /\ new[k].referredBy = NoRow
        /\ new[k] \in UserStates
  BY <1>1, <1>2, <1>3 DEF ClaimLocals, HasState, Shared, RowsInv
<1>5. PICK v : v = [new[k] EXCEPT !.referredBy = frame[p].inviter]
  OBVIOUS
<1>6. v \in UserStates /\ v.referredBy = frame[p].inviter
  BY <1>2, <1>4, <1>5 DEF UserStates
<1>7. WriteRow(p, k, v) /\ pc' = [pc EXCEPT ![p] = "claimInsert"] /\ frame' = frame
  BY <1>4, <1>5 DEF ClaimState, Sees, Goto
<1>8. RowsStay(VersionsOf) /\ RefRows' /\ LocksKept(p)
  BY <1>1, <1>2, <1>3, <1>4, <1>6, <1>7, WriteKeepsRows, ClaimStateRefRows DEF Shared
<1>9. OthersKept(p) /\ pc'[p] = "claimInsert"
  BY <1>1, <1>7 DEF OthersKept, Shared
<1>10. owner'[k] = p /\ new'[k] = v
  BY <1>1, <1>3, <1>7, RowFacts DEF WriteRow
<1>11. ClaimLocals(p)'
  BY <1>6, <1>7, <1>9, <1>10, NoRowAssumption DEF ClaimLocals, EarlyPcs
<1>12. QED
  BY <1>8, <1>9, <1>11, OthersClaims

\* ... and inserts the referral.
LEMMA ClaimInsertClaims ==
  ASSUME NEW p \in Procs, RefInv, TypeInv', ~GiveUp(p), ClaimInsert(p)
  PROVE  RefInv'
<1> DEFINE i == frame[p].inviter
           u == frame[p].user
<1>1. Shared(VersionsOf, Events, Frames, Pcs) /\ ClaimLocals(p) /\ Locals(p) /\ TypeInv /\ RefRows
  BY DEF RefInv, TypeInv
<1>2. pc[p] = "claimInsert" /\ frame[p] \in CallFrames /\ i \in Users /\ frame[p].day \in Days
  BY <1>1 DEF ClaimInsert, Locals
<1>3. /\ u \in Users /\ ReferralRow(i, u) \in DOMAIN VersionsOf
      /\ VersionsOf[ReferralRow(i, u)] = Referrals
  BY <1>2, Constants, RowTypes
<1>4. PICK v : v = [status |-> "PARTIAL", day |-> frame[p].day]
  OBVIOUS
<1>5. v \in Referrals
  BY <1>2, <1>4 DEF Referrals
<1>6. WriteRow(p, ReferralRow(i, u), v) /\ pc' = [pc EXCEPT ![p] = "append"] /\ frame' = frame
  BY <1>4 DEF ClaimInsert, InsertRow, Goto
<1>7. owner[StateRow(u)] = p /\ new[StateRow(u)] # NoRow /\ new[StateRow(u)].referredBy = i
  BY <1>1, <1>2 DEF ClaimLocals
<1>8. RowsStay(VersionsOf) /\ RefRows' /\ LocksKept(p)
  BY <1>1, <1>2, <1>3, <1>5, <1>6, <1>7, WriteKeepsRows, ReferralRefRows DEF Shared
<1>9. OthersKept(p) /\ pc'[p] = "append"
  BY <1>1, <1>6 DEF OthersKept, Shared
<1>10. ClaimLocals(p)'
  BY <1>9 DEF ClaimLocals, EarlyPcs
<1>11. QED
  BY <1>8, <1>9, <1>10, OthersClaims

\* The second milestone locks the inviter and completes the referral.
LEMMA Stage2Claims ==
  ASSUME NEW p \in Procs, RefInv, TypeInv', ~GiveUp(p), Stage2Lock(p) \/ Stage2Update(p)
  PROVE  RefInv'
<1> DEFINE i == frame[p].inviter
           u == frame[p].user
<1>1. Shared(VersionsOf, Events, Frames, Pcs) /\ ClaimLocals(p) /\ Locals(p) /\ TypeInv /\ RefRows
  BY DEF RefInv, TypeInv
<1>2. /\ pc[p] \in {"stage2Lock", "stage2Update"} /\ frame[p] \in CallFrames
      /\ i \in Users /\ frame[p].day \in Days /\ frame' = frame
  BY <1>1 DEF Stage2Lock, Stage2Update, Locals
<1>3. /\ u \in Users /\ StateRow(i) \in DOMAIN VersionsOf /\ ReferralRow(i, u) \in DOMAIN VersionsOf
      /\ VersionsOf[ReferralRow(i, u)] = Referrals /\ ReferralRow(i, u) \in Keys
  BY <1>2, Constants, RowTypes
<1>4. db[ReferralRow(i, u)] # NoRow
  BY <1>1, <1>2 DEF ClaimLocals
<1>5. CASE Stage2Lock(p)
  <2>1. LockRow(p, StateRow(i)) /\ pc' = [pc EXCEPT ![p] = "stage2Cap"]
    BY <1>5 DEF Stage2Lock, Goto
  <2>2. RowsStay(VersionsOf) /\ RefRows' /\ LocksKept(p)
    BY <1>1, <1>2, <1>3, <2>1, LockKeepsRows, LockRefRows DEF Shared
  <2>3. OthersKept(p) /\ pc'[p] = "stage2Cap" /\ db' = db
    BY <1>1, <1>2, <2>1 DEF OthersKept, Shared, LockRow
  <2>4. ClaimLocals(p)'
    BY <1>2, <1>4, <2>3 DEF ClaimLocals, EarlyPcs
  <2>5. QED
    BY <2>2, <2>3, <2>4, OthersClaims
<1>6. CASE Stage2Update(p)
  <2>1. PICK v : v = [status |-> "COMPLETED", day |-> frame[p].day]
    OBVIOUS
  <2>2. v \in Referrals
    BY <1>2, <2>1 DEF Referrals
  <2>3. WriteRow(p, ReferralRow(i, u), v) /\ pc' = [pc EXCEPT ![p] = "append"]
    BY <1>6, <2>1 DEF Stage2Update, Goto
  <2>4. RowsStay(VersionsOf) /\ RefRows' /\ LocksKept(p)
    BY <1>1, <1>2, <1>3, <1>4, <2>2, <2>3, WriteKeepsRows, ReferralRefRows DEF Shared
  <2>5. OthersKept(p) /\ pc'[p] = "append"
    BY <1>1, <1>2, <2>3 DEF OthersKept, Shared
  <2>6. ClaimLocals(p)'
    BY <2>5 DEF ClaimLocals, EarlyPcs
  <2>7. QED
    BY <2>4, <2>5, <2>6, OthersClaims
<1>7. QED
  BY <1>5, <1>6

\* At the start only an earlier invitation may be there, and the row of the
\* user who claimed it names the inviter.
LEMMA InitClaims == Init => RefInv
<1> SUFFICES ASSUME Init PROVE RefInv
  OBVIOUS
<1>1. TypeInv
  BY InitTypes
<1>2. /\ new = db /\ owner = [k \in Keys |-> NoProc] /\ pc = [p \in Procs |-> "idle"]
      /\ \A k \in Keys : db[k] =
           IF \E u \in Joined : k = StateRow(u)
             THEN [FreshState EXCEPT !.referredBy = EarlierInviter(k[2])]
           ELSE IF \E i \in Claimed : k = ReferralRow(i[2], i[1])
             THEN [status |-> "PARTIAL", day |-> 1] ELSE NoRow
  BY DEF Init, LedgerInit, RowsInit
<1>3. ReferredOnce
  <2> SUFFICES ASSUME NEW i \in Users, NEW u \in Users, db[ReferralRow(i, u)] # NoRow
               PROVE  db[StateRow(u)] # NoRow /\ db[StateRow(u)].referredBy = i
    BY DEF ReferredOnce
  <2>1. ReferralRow(i, u) \in Keys /\ StateRow(u) \in Keys /\ StateRow(u)[2] = u
    BY RowTypes DEF StateRow
  <2>2. PICK c \in Claimed : ReferralRow(i, u) = ReferralRow(c[2], c[1])
    <3>1. PICK k \in Keys : k = ReferralRow(i, u)
      BY <2>1
    <3>2. ~ \E v \in Joined : k = StateRow(v)
      BY <3>1, KeysDiffer
    <3>3. \E c \in Claimed : k = ReferralRow(c[2], c[1])
      BY <1>2, <3>1, <3>2
    <3>4. QED
      BY <3>1, <3>3
  <2>3. c[1] = u /\ c[2] = i
    BY <2>2, KeysDiffer
  <2>4. u \in Joined /\ \A d \in Claimed : d = c
    BY <2>3, ReferralsAssumption
  <2>5. EarlierInviter(u) = i
    BY <2>3, <2>4 DEF EarlierInviter
  <2>6. db[StateRow(u)] = [FreshState EXCEPT !.referredBy = EarlierInviter(u)]
    BY <1>2, <2>1, <2>4
  <2>7. db[StateRow(u)] \in UserStates /\ db[StateRow(u)].referredBy = i
    BY <2>5, <2>6 DEF FreshState, UserStates
  <2>8. QED
    BY <2>7, NoRowAssumption
<1>4. PendingClaims /\ InvitersStay /\ UnlockedRows
  BY <1>2, RowTypes DEF PendingClaims, InvitersStay, UnlockedRows
<1>5. \A p \in Procs : ClaimLocals(p)
  BY <1>2, LedgerAssumption DEF ClaimLocals
<1>6. QED
  BY <1>1, <1>3, <1>4, <1>5 DEF RefInv, RefRows

\* The inductive invariant: no step of the system breaks it.
LEMMA ClaimsStay == RefInv /\ [Next]_vars => RefInv'
<1> SUFFICES ASSUME RefInv, [Next]_vars PROVE RefInv'
  OBVIOUS
<1>1. TypeInv'
  BY TypesStay DEF RefInv
<1>2. ASSUME NEW p \in Procs, Start(p) PROVE RefInv'
  BY <1>1, <1>2, StartClaims
<1>3. ASSUME NEW p \in Procs, GiveUp(p) PROVE RefInv'
  BY <1>1, <1>3, GiveUpClaims
<1>4. ASSUME NEW p \in Procs, Step(p), ~GiveUp(p) PROVE RefInv'
  <2>1. ~AppendDuplicate(p)
    BY <1>4 DEF AppendDuplicate
  <2>2. QED
    BY <1>1, <1>4, <2>1, ReadsClaims, EnsureClaims, ClaimLockClaims, ClaimStateClaims,
       ClaimInsertClaims, Stage2Claims, CommitClaims DEF Step
<1>5. ASSUME NEW p \in Procs, Crash(p) PROVE RefInv'
  BY <1>3, <1>5 DEF Crash
<1>6. CASE UNCHANGED <<rowVars, pc, frame>>
  BY <1>1, <1>6
  DEF RefInv, RefRows, ReferredOnce, PendingClaims, InvitersStay, UnlockedRows, ClaimLocals, rowVars
<1>7. NextDay \/ Quiet \/ UNCHANGED vars => UNCHANGED <<rowVars, pc, frame>>
  BY DEF NextDay, Quiet, vars
<1>8. QED
  BY <1>2, <1>3, <1>4, <1>5, <1>6, <1>7 DEF Next

\* However many claims, second milestones and crashes race, a user is referred
\* by at most one other user, the one the user's own row names.
THEOREM ReferredAtMostOnce == Spec => []ReferredOnce
<1>1. RefInv => ReferredOnce
  BY DEF RefInv, RefRows
<1>2. QED
  BY <1>1, InitClaims, ClaimsStay, PTL DEF Spec

-----------------------------------------------------------------------------
\* MilestonesPaidOnce counts rows of two tables that one COMMIT publishes, so
\* the invariant says what every open transaction has in hand: it has locked
\* no referral and owes nobody a milestone, or it has moved one referral to
\* one milestone and has appended, or is still to append, exactly one row for
\* the inviter and one for the user who was invited.

Milestones == {1, 2}

InviterEvent(m) == IF m = 1 THEN "REFERRAL_STAGE1" ELSE "REFERRAL_STAGE2"

InvitedEvent(m) == IF m = 1 THEN "REFERRAL_WELCOME_STAGE1" ELSE "REFERRAL_WELCOME_STAGE2"

\* What the status column says once milestone m is reached.
AtLeast(m) == IF m = 1 THEN {"PARTIAL", "COMPLETED"} ELSE {"COMPLETED"}

Brought(i, m) ==
  {u \in Users : db[ReferralRow(i, u)] # NoRow /\ db[ReferralRow(i, u)].status \in AtLeast(m)}

BroughtBy(u, m) ==
  {i \in Users : db[ReferralRow(i, u)] # NoRow /\ db[ReferralRow(i, u)].status \in AtLeast(m)}

HasReferral(p, i, u) == owner[ReferralRow(i, u)] = p

NoMilestone(p) ==
  /\ \A i, u \in Users : ~HasReferral(p, i, u)
  /\ \A m \in Milestones, w \in Users :
       OwesNone(p, InviterEvent(m), w) /\ OwesNone(p, InvitedEvent(m), w)

\* p's transaction takes the invitation of u by i to milestone m.
Reaching(p, i, u, m) ==
  LET k == ReferralRow(i, u) IN
  /\ \A j, v \in Users : HasReferral(p, j, v) <=> j = i /\ v = u
  /\ new[k] # NoRow
  /\ IF m = 1 THEN db[k] = NoRow /\ new[k].status = "PARTIAL"
     ELSE db[k] # NoRow /\ db[k].status = "PARTIAL" /\ new[k].status = "COMPLETED"
  /\ \A n \in Milestones, w \in Users :
       /\ IF n = m /\ w = i THEN OwesOne(p, InviterEvent(n), w)
          ELSE OwesNone(p, InviterEvent(n), w)
       /\ IF n = m /\ w = u THEN OwesOne(p, InvitedEvent(n), w)
          ELSE OwesNone(p, InvitedEvent(n), w)

PayingPcs == {"append", "insert", "commit"}

MilestoneOK(p) ==
  /\ pc[p] = "commit" => todo[p] = <<>>
  /\ \/ NoMilestone(p)
     \/ pc[p] \in PayingPcs /\ \E i, u \in Users, m \in Milestones : Reaching(p, i, u, m)

CountsOK(m, w) ==
  /\ IsFiniteSet(Brought(w, m)) /\ IsFiniteSet(PaidRows(InviterEvent(m), w))
  /\ Cardinality(PaidRows(InviterEvent(m), w)) = Cardinality(Brought(w, m))
  /\ IsFiniteSet(BroughtBy(w, m)) /\ IsFiniteSet(PaidRows(InvitedEvent(m), w))
  /\ Cardinality(PaidRows(InvitedEvent(m), w)) = Cardinality(BroughtBy(w, m))

MileInv ==
  /\ RefInv /\ IdsOK
  /\ \A p \in Procs : MilestoneOK(p)
  /\ \A m \in Milestones, w \in Users : CountsOK(m, w)

\* What a step of p does not do to the others.
OthersRest(p) ==
  /\ LocksKept(p) /\ OthersKept(p)
  /\ \A q \in Procs \ {p} : open'[q] = open[q] /\ todo'[q] = todo[q]

\* The events of the milestones are all different.
LEMMA EventsDiffer ==
  /\ \A m, n \in Milestones : /\ InviterEvent(m) # InvitedEvent(n)
                              /\ m # n => InviterEvent(m) # InviterEvent(n)
                              /\ m # n => InvitedEvent(m) # InvitedEvent(n)
  /\ \A m \in Milestones : /\ InviterEvent(m) # "ONBOARDING_BONUS"
                           /\ InvitedEvent(m) # "ONBOARDING_BONUS"
BY DEF Milestones, InviterEvent, InvitedEvent

\* What another transaction has in hand stays in its hands.
LEMMA OthersMilestones ==
  ASSUME NEW p \in Procs, MileInv, OthersRest(p), MilestoneOK(p)'
  PROVE  \A q \in Procs : MilestoneOK(q)'
<1> SUFFICES ASSUME NEW q \in Procs, q # p PROVE MilestoneOK(q)'
  OBVIOUS
<1>1. MilestoneOK(q) /\ open'[q] = open[q] /\ todo'[q] = todo[q] /\ pc'[q] = pc[q]
  BY DEF MileInv, OthersRest, OthersKept
<1>2. \A i, u \in Users :
        /\ HasReferral(q, i, u)' <=> HasReferral(q, i, u)
        /\ HasReferral(q, i, u) => /\ new'[ReferralRow(i, u)] = new[ReferralRow(i, u)]
                                   /\ db'[ReferralRow(i, u)] = db[ReferralRow(i, u)]
  BY RowTypes DEF OthersRest, LocksKept, HasReferral
<1>3. \A e, u : /\ OwesNone(q, e, u) => OwesNone(q, e, u)'
                /\ OwesOne(q, e, u) => OwesOne(q, e, u)'
  BY <1>1, OwesStays
<1>4. NoMilestone(q) => NoMilestone(q)'
  BY <1>2, <1>3 DEF NoMilestone
<1>5. ASSUME NEW i \in Users, NEW u \in Users, NEW m \in Milestones, Reaching(q, i, u, m)
      PROVE  Reaching(q, i, u, m)'
  <2>1. HasReferral(q, i, u)
    BY <1>5 DEF Reaching
  <2>2. new'[ReferralRow(i, u)] = new[ReferralRow(i, u)]
          /\ db'[ReferralRow(i, u)] = db[ReferralRow(i, u)]
    BY <1>2, <2>1
  <2>3. \A n \in Milestones, w \in Users :
          /\ IF n = m /\ w = i THEN OwesOne(q, InviterEvent(n), w)'
             ELSE OwesNone(q, InviterEvent(n), w)'
          /\ IF n = m /\ w = u THEN OwesOne(q, InvitedEvent(n), w)'
             ELSE OwesNone(q, InvitedEvent(n), w)'
    BY <1>3, <1>5 DEF Reaching
  <2>4. QED
    BY <1>2, <1>5, <2>2, <2>3 DEF Reaching
<1>6. QED
  BY <1>1, <1>4, <1>5 DEF MilestoneOK

\* As long as the ledger and the referrals are what they were, so are the counts.
LEMMA CountsStay ==
  ASSUME ledger' = ledger,
         \A i, u \in Users : db'[ReferralRow(i, u)] = db[ReferralRow(i, u)]
  PROVE  \A m \in Milestones, w \in Users : CountsOK(m, w) => CountsOK(m, w)'
<1> SUFFICES ASSUME NEW m \in Milestones, NEW w \in Users, CountsOK(m, w)
             PROVE  CountsOK(m, w)'
  OBVIOUS
<1>1. \A e : PaidRows(e, w)' = PaidRows(e, w)
  BY DEF PaidRows
<1>2. Brought(w, m)' = Brought(w, m) /\ BroughtBy(w, m)' = BroughtBy(w, m)
  BY DEF Brought, BroughtBy
<1>3. QED
  BY <1>1, <1>2 DEF CountsOK

-----------------------------------------------------------------------------
\* A step of p that touches no referral, appends nothing and plans no append.
NeutralMile(p) ==
  /\ UNCHANGED <<ledger, open, inserted>>
  /\ todo'[p] = todo[p]
  /\ \A i, u \in Users :
       LET k == ReferralRow(i, u) IN
       db'[k] = db[k] /\ new'[k] = new[k] /\ owner'[k] = owner[k]
  /\ OthersRest(p)
  /\ pc'[p] # "commit" /\ (pc[p] \in PayingPcs => pc'[p] \in PayingPcs)

LEMMA NeutralMileKeeps ==
  ASSUME NEW p \in Procs, MileInv, RefInv', NeutralMile(p)
  PROVE  MileInv'
<1>1. IdsOK'
  BY DEF NeutralMile, MileInv, IdsOK
<1>2. MilestoneOK(p)'
  <2>1. \A e, u : /\ OwesNone(p, e, u) => OwesNone(p, e, u)'
                  /\ OwesOne(p, e, u) => OwesOne(p, e, u)'
    BY OwesStays DEF NeutralMile
  <2>2. NoMilestone(p) => NoMilestone(p)'
    BY <2>1 DEF NeutralMile, NoMilestone, HasReferral
  <2>3. \A i, u \in Users, m \in Milestones : Reaching(p, i, u, m) => Reaching(p, i, u, m)'
    BY <2>1 DEF NeutralMile, Reaching, HasReferral
  <2>4. QED
    BY <2>2, <2>3 DEF NeutralMile, MileInv, MilestoneOK
<1>3. \A q \in Procs : MilestoneOK(q)'
  BY <1>2, OthersMilestones DEF NeutralMile
<1>4. \A m \in Milestones, w \in Users : CountsOK(m, w)'
  BY CountsStay DEF NeutralMile, MileInv
<1>5. QED
  BY <1>1, <1>3, <1>4 DEF MileInv

\* A refusal, a rollback or a crash.
LEMMA GiveUpMile ==
  ASSUME NEW p \in Procs, MileInv, RefInv', GiveUp(p)
  PROVE  MileInv'
<1>1. Shared(VersionsOf, Events, Frames, Pcs) /\ TypeInv /\ RefRows
  BY DEF MileInv, RefInv, TypeInv
<1>2. IdsOK'
  BY <1>1, IdsStay DEF MileInv
<1>3. /\ open'[p] = {} /\ todo'[p] = <<>> /\ pc'[p] = "idle" /\ ledger' = ledger
      /\ \A q \in Procs \ {p} : open'[q] = open[q] /\ todo'[q] = todo[q]
      /\ OthersKept(p)
  BY <1>1 DEF GiveUp, Return, Goto, OthersKept, Shared
<1>4. LocksKept(p) /\ (\A k \in Keys : owner'[k] # p) /\ db' = db
  BY <1>1, RollbackRefRows DEF GiveUp, RollbackRows
<1>5. MilestoneOK(p)'
  <2>1. \A e, u : OwesNone(p, e, u)'
    BY <1>3, EndedOwesNone
  <2>2. NoMilestone(p)'
    BY <1>4, <2>1, RowTypes DEF NoMilestone, HasReferral
  <2>3. QED
    BY <1>3, <2>2 DEF MilestoneOK
<1>6. \A q \in Procs : MilestoneOK(q)'
  BY <1>3, <1>4, <1>5, OthersMilestones DEF OthersRest
<1>7. \A m \in Milestones, w \in Users : CountsOK(m, w)'
  BY <1>3, <1>4, CountsStay DEF MileInv
<1>8. QED
  BY <1>2, <1>6, <1>7 DEF MileInv

\* The INSERT of a ledger row pays one side.
LEMMA InsertMile ==
  ASSUME NEW p \in Procs, MileInv, RefInv', AppendInsert(p, "commit")
  PROVE  MileInv'
<1>1. Shared(VersionsOf, Events, Frames, Pcs)
  BY DEF MileInv, RefInv, TypeInv
<1>2. IdsOK'
  BY <1>1, IdsStay DEF MileInv
<1>3. /\ pc'[p] \in {"append", "commit"} /\ (pc'[p] = "commit" => todo'[p] = <<>>)
      /\ \A q \in Procs \ {p} : open'[q] = open[q] /\ todo'[q] = todo[q]
      /\ \A e, u : /\ OwesNone(p, e, u) => OwesNone(p, e, u)'
                   /\ OwesOne(p, e, u) => OwesOne(p, e, u)'
  BY <1>1, InsertPays
<1>4. pc[p] \in PayingPcs /\ UNCHANGED <<rowVars, ledger>>
  BY DEF AppendInsert, PayingPcs
<1>5. OthersRest(p)
  BY <1>1, <1>3, <1>4 DEF AppendInsert, Goto, OthersRest, OthersKept, LocksKept, rowVars, Shared
<1>6. MilestoneOK(p)'
  <2>1. NoMilestone(p) => NoMilestone(p)'
    BY <1>3, <1>4 DEF NoMilestone, HasReferral, rowVars
  <2>2. \A i, u \in Users, m \in Milestones : Reaching(p, i, u, m) => Reaching(p, i, u, m)'
    BY <1>3, <1>4 DEF Reaching, HasReferral, rowVars
  <2>3. QED
    BY <1>3, <2>1, <2>2 DEF MileInv, MilestoneOK, PayingPcs
<1>7. \A q \in Procs : MilestoneOK(q)'
  BY <1>5, <1>6, OthersMilestones
<1>8. \A m \in Milestones, w \in Users : CountsOK(m, w)'
  BY <1>4, CountsStay DEF MileInv, rowVars
<1>9. QED
  BY <1>2, <1>7, <1>8 DEF MileInv

\* A handler that has nothing in hand writes a referral and plans two appends,
\* one for each side.
LEMMA ReachesMilestone ==
  ASSUME NEW p \in Procs, NEW i \in Users, NEW u \in Users, NEW m \in Milestones,
         NEW v \in Referrals, NEW d1, NEW d2, MileInv, NoMilestone(p),
         WriteRow(p, ReferralRow(i, u), v),
         IF m = 1 THEN db[ReferralRow(i, u)] = NoRow /\ v.status = "PARTIAL"
         ELSE /\ db[ReferralRow(i, u)] # NoRow /\ db[ReferralRow(i, u)].status = "PARTIAL"
              /\ v.status = "COMPLETED",
         todo'[p] = <<Append1(i, InviterEvent(m), d1, FALSE),
                      Append1(u, InvitedEvent(m), d2, FALSE)>>,
         open'[p] = open[p]
  PROVE  Reaching(p, i, u, m)'
<1> DEFINE k == ReferralRow(i, u)
           a == Append1(i, InviterEvent(m), d1, FALSE)
           b == Append1(u, InvitedEvent(m), d2, FALSE)
<1>1. /\ db' = db /\ k \in Keys
      /\ \A j \in Keys : owner'[j] = (IF j = k THEN p ELSE owner[j])
      /\ new'[k] = v
  BY RowFacts DEF MileInv, RefInv, WriteRow
<1>2. \A j, w \in Users : HasReferral(p, j, w)' <=> j = i /\ w = u
  BY <1>1, RowTypes, KeysDiffer DEF HasReferral, NoMilestone
<1>3. v # NoRow
  BY NoRowAssumption
<1>4. /\ a.user = i /\ a.event = InviterEvent(m) /\ b.user = u /\ b.event = InvitedEvent(m)
      /\ a.event # b.event
  BY EventsDiffer DEF Append1
<1>5. /\ DOMAIN todo'[p] = {1, 2} /\ todo'[p][1] = a /\ todo'[p][2] = b
  <2> HIDE DEF a, b
  <2>1. DOMAIN <<a, b>> = {1, 2} /\ <<a, b>>[1] = a /\ <<a, b>>[2] = b
    OBVIOUS
  <2>2. QED
    BY <2>1 DEF a, b
<1> HIDE DEF a, b
<1>6. \A e, w : Due(p, e, w)' = {n \in {1, 2} : IF n = 1 THEN a.user = w /\ a.event = e
                                               ELSE b.user = w /\ b.event = e}
  BY <1>5 DEF Due
<1>7. ASSUME NEW n \in Milestones, NEW w \in Users
      PROVE  /\ IF n = m /\ w = i THEN OwesOne(p, InviterEvent(n), w)'
                ELSE OwesNone(p, InviterEvent(n), w)'
             /\ IF n = m /\ w = u THEN OwesOne(p, InvitedEvent(n), w)'
                ELSE OwesNone(p, InvitedEvent(n), w)'
  <2>1. Appended(p, InviterEvent(n), w)' = {} /\ Appended(p, InvitedEvent(n), w)' = {}
    BY DEF NoMilestone, OwesNone, Appended
  <2>2. Due(p, InviterEvent(n), w)' = IF n = m /\ w = i THEN {1} ELSE {}
    BY <1>4, <1>6, EventsDiffer
  <2>3. Due(p, InvitedEvent(n), w)' = IF n = m /\ w = u THEN {2} ELSE {}
    BY <1>4, <1>6, EventsDiffer
  <2>4. QED
    BY <1>5, <2>1, <2>2, <2>3 DEF OwesNone, OwesOne
<1>8. QED
  BY <1>1, <1>2, <1>3, <1>7 DEF Reaching

\* The claim's INSERT of the referral, and the second milestone's UPDATE.
LEMMA ReferralMile ==
  ASSUME NEW p \in Procs, MileInv, RefInv', ~GiveUp(p), ClaimInsert(p) \/ Stage2Update(p)
  PROVE  MileInv'
<1>0. PICK i, u : i = frame[p].inviter /\ u = frame[p].user
  OBVIOUS
<1> DEFINE k == ReferralRow(i, u)
<1>1. Shared(VersionsOf, Events, Frames, Pcs) /\ Locals(p) /\ ClaimLocals(p) /\ TypeInv /\ RefRows
  BY DEF MileInv, RefInv, TypeInv
<1>2. pc[p] \in {"claimInsert", "stage2Update"} /\ frame[p] \in CallFrames
        /\ i \in Users /\ u \in Users /\ frame[p].day \in Days
  BY <1>0, <1>1, Constants DEF ClaimInsert, Stage2Update, Locals
<1>3. NoMilestone(p)
  BY <1>2 DEF MileInv, MilestoneOK, PayingPcs
<1>4. PICK m \in Milestones, v \in Referrals, d \in Nat :
        /\ WriteRow(p, k, v)
        /\ IF m = 1 THEN db[k] = NoRow /\ v.status = "PARTIAL"
           ELSE /\ db[k] # NoRow /\ db[k].status = "PARTIAL" /\ v.status = "COMPLETED"
        /\ todo' = [todo EXCEPT ![p] = <<Append1(i, InviterEvent(m), d, FALSE),
                                        Append1(u, InvitedEvent(m), d, FALSE)>>]
        /\ Goto(p, "append")
        /\ UNCHANGED <<ledgerVars, frame, bal, clockVars, calls>>
  <2>1. \A s \in {"PARTIAL", "COMPLETED"} :
          /\ [status |-> s, day |-> frame[p].day] \in Referrals
          /\ [status |-> s, day |-> frame[p].day].status = s
    BY <1>2 DEF Referrals
  <2>2. CASE ClaimInsert(p)
    <3>1. WriteRow(p, k, [status |-> "PARTIAL", day |-> frame[p].day]) /\ db[k] = NoRow
      BY <1>0, <2>2 DEF ClaimInsert, InsertRow
    <3>2. /\ todo' = [todo EXCEPT ![p] = <<Append1(i, InviterEvent(1), Stage1Points, FALSE),
                                          Append1(u, InvitedEvent(1), Stage1Points, FALSE)>>]
          /\ Goto(p, "append")
          /\ UNCHANGED <<ledgerVars, frame, bal, clockVars, calls>>
      BY <1>0, <2>2 DEF ClaimInsert, InviterEvent, InvitedEvent
    <3>3. 1 \in Milestones /\ Stage1Points \in Nat
      BY ReferralsAssumption DEF Milestones
    <3>4. QED
      BY <2>1, <3>1, <3>2, <3>3
  <2>3. CASE Stage2Update(p)
    <3>1. WriteRow(p, k, [status |-> "COMPLETED", day |-> frame[p].day]) /\ db[k].status = "PARTIAL"
      BY <1>0, <2>3 DEF Stage2Update
    <3>2. /\ todo' = [todo EXCEPT ![p] = <<Append1(i, InviterEvent(2), Stage2Points, FALSE),
                                          Append1(u, InvitedEvent(2), Stage2Points, FALSE)>>]
          /\ Goto(p, "append")
          /\ UNCHANGED <<ledgerVars, frame, bal, clockVars, calls>>
      <4>1. InviterEvent(2) = "REFERRAL_STAGE2" /\ InvitedEvent(2) = "REFERRAL_WELCOME_STAGE2"
        BY DEF InviterEvent, InvitedEvent
      <4>2. QED
        BY <1>0, <2>3, <4>1 DEF Stage2Update, Stage2Appends
    <3>3. 2 \in Milestones /\ Stage2Points \in Nat /\ 2 # 1
      BY ReferralsAssumption DEF Milestones
    <3>4. db[k] # NoRow
      BY <1>0, <1>1, <2>3 DEF ClaimLocals, Stage2Update
    <3>5. QED
      BY <2>1, <3>1, <3>2, <3>3, <3>4
  <2>4. QED
    BY <2>2, <2>3
<1>5. /\ todo'[p] = <<Append1(i, InviterEvent(m), d, FALSE), Append1(u, InvitedEvent(m), d, FALSE)>>
      /\ pc'[p] = "append" /\ open' = open /\ ledger' = ledger /\ inserted' = inserted /\ db' = db
      /\ \A q \in Procs \ {p} : todo'[q] = todo[q]
      /\ OthersKept(p)
  BY <1>1, <1>4 DEF Goto, OthersKept, ledgerVars, clockVars, WriteRow, Shared
<1>6. LocksKept(p)
  <2>1. /\ db' = db /\ owner[k] \in {NoProc, p}
        /\ \A j \in Keys : owner'[j] = (IF j = k THEN p ELSE owner[j])
        /\ \A j \in Keys : j # k => new'[j] = new[j]
    BY <1>1, <1>4, RowFacts DEF WriteRow, Free
  <2>2. QED
    BY <2>1, LedgerAssumption DEF LocksKept
<1>7. Reaching(p, i, u, m)'
  BY <1>2, <1>3, <1>4, <1>5, ReachesMilestone
<1>8. MilestoneOK(p)'
  <2>1. \E j, w \in Users, n \in Milestones : Reaching(p, j, w, n)'
    BY <1>2, <1>7
  <2>2. pc'[p] # "commit" /\ pc'[p] \in PayingPcs
    BY <1>5 DEF PayingPcs
  <2>3. QED
    BY <2>1, <2>2 DEF MilestoneOK
<1>9. \A q \in Procs : MilestoneOK(q)'
  BY <1>5, <1>6, <1>8, OthersMilestones DEF OthersRest
<1>10. IdsOK'
  BY <1>5 DEF MileInv, IdsOK
<1>11. \A n \in Milestones, w \in Users : CountsOK(n, w)'
  BY <1>5, CountsStay DEF MileInv
<1>12. QED
  BY <1>9, <1>10, <1>11 DEF MileInv

\* The onboarding bonus is no milestone.
LEMMA OnboardMile ==
  ASSUME NEW p \in Procs, MileInv, RefInv', ~GiveUp(p), OnboardCheck(p)
  PROVE  MileInv'
<1>1. Shared(VersionsOf, Events, Frames, Pcs)
  BY DEF MileInv, RefInv, TypeInv
<1>2. PICK a : a.event = "ONBOARDING_BONUS" /\ todo' = [todo EXCEPT ![p] = <<a>>]
  <2>1. todo' = [todo EXCEPT ![p] =
          <<Append1(frame[p].user, "ONBOARDING_BONUS", OnboardingPoints, FALSE)>>]
    BY DEF OnboardCheck
  <2>2. Append1(frame[p].user, "ONBOARDING_BONUS", OnboardingPoints, FALSE).event
          = "ONBOARDING_BONUS"
    BY DEF Append1
  <2>3. QED
    BY <2>1, <2>2
<1>3. /\ pc[p] = "onboardCheck" /\ pc'[p] = "append" /\ todo'[p] = <<a>>
      /\ UNCHANGED <<rowVars, ledger, open, inserted>>
      /\ OthersKept(p) /\ LocksKept(p)
      /\ \A q \in Procs \ {p} : todo'[q] = todo[q]
  BY <1>1, <1>2
  DEF OnboardCheck, Goto, OthersKept, LocksKept, ledgerVars, clockVars, rowVars, Shared
<1>4. NoMilestone(p)
  BY <1>3 DEF MileInv, MilestoneOK, PayingPcs
<1>5. NoMilestone(p)'
  <2>1. \A e, w : e # "ONBOARDING_BONUS" => Due(p, e, w)' = {}
    <3>1. \A n \in DOMAIN <<a>> : <<a>>[n] = a
      OBVIOUS
    <3>2. QED
      BY <1>2, <1>3, <3>1 DEF Due
  <2>2. \A e, w : Appended(p, e, w)' = Appended(p, e, w)
    BY <1>3 DEF Appended
  <2>3. \A m \in Milestones, w \in Users :
          OwesNone(p, InviterEvent(m), w)' /\ OwesNone(p, InvitedEvent(m), w)'
    BY <1>4, <2>1, <2>2, EventsDiffer DEF NoMilestone, OwesNone
  <2>4. QED
    BY <1>3, <1>4, <2>3 DEF NoMilestone, HasReferral, rowVars
<1>6. MilestoneOK(p)'
  BY <1>3, <1>5 DEF MilestoneOK
<1>7. \A q \in Procs : MilestoneOK(q)'
  BY <1>3, <1>6, OthersMilestones DEF OthersRest
<1>8. IdsOK'
  BY <1>3 DEF MileInv, IdsOK
<1>9. \A n \in Milestones, w \in Users : CountsOK(n, w)'
  BY <1>3, CountsStay DEF MileInv, rowVars
<1>10. QED
  BY <1>7, <1>8, <1>9 DEF MileInv

\* What a COMMIT makes of the users an inviter has brought to a milestone, and
\* of the inviters who have brought a user there.
LEMMA BroughtByCommit ==
  ASSUME NEW p \in Procs, MileInv, CommitRows(p),
         NEW i \in Users, NEW u \in Users, NEW m \in Milestones, Reaching(p, i, u, m)
  PROVE  \A n \in Milestones, w \in Users :
           /\ Brought(w, n)' = IF n = m /\ w = i THEN Brought(w, n) \cup {u} ELSE Brought(w, n)
           /\ BroughtBy(w, n)' = IF n = m /\ w = u THEN BroughtBy(w, n) \cup {i} ELSE BroughtBy(w, n)
           /\ u \notin Brought(i, m) /\ i \notin BroughtBy(u, m)
<1> DEFINE k == ReferralRow(i, u)
<1>1. \A j, v \in Users :
        db'[ReferralRow(j, v)] = IF j = i /\ v = u THEN new[k] ELSE db[ReferralRow(j, v)]
  BY RowFacts DEF MileInv, RefInv, CommitRows, Sees, Reaching, HasReferral
<1>2. /\ new[k] # NoRow
      /\ \A n \in Milestones : new[k].status \in AtLeast(n) <=>
           n = m \/ (db[k] # NoRow /\ db[k].status \in AtLeast(n))
      /\ ~(db[k] # NoRow /\ db[k].status \in AtLeast(m))
  BY DEF Reaching, AtLeast, Milestones
<1>3. \A j, v \in Users, n \in Milestones :
        v \in Brought(j, n)' <=> (n = m /\ j = i /\ v = u) \/ v \in Brought(j, n)
  BY <1>1, <1>2 DEF Brought
<1>4. \A j, v \in Users, n \in Milestones :
        j \in BroughtBy(v, n)' <=> (n = m /\ j = i /\ v = u) \/ j \in BroughtBy(v, n)
  BY <1>1, <1>2 DEF BroughtBy
<1>5. u \notin Brought(i, m) /\ i \notin BroughtBy(u, m)
  BY <1>2 DEF Brought, BroughtBy
<1>6. \A w, n : /\ Brought(w, n) \subseteq Users /\ Brought(w, n)' \subseteq Users
                /\ BroughtBy(w, n) \subseteq Users /\ BroughtBy(w, n)' \subseteq Users
  BY DEF Brought, BroughtBy
<1>7. ASSUME NEW n \in Milestones, NEW w \in Users
      PROVE  Brought(w, n)' = IF n = m /\ w = i THEN Brought(w, n) \cup {u} ELSE Brought(w, n)
  <2>1. \A v \in Users : v \in Brought(w, n)' <=> (n = m /\ w = i /\ v = u) \/ v \in Brought(w, n)
    BY <1>3
  <2>2. CASE n = m /\ w = i
    <3>1. \A v : v \in Brought(w, n)' <=> v \in Brought(w, n) \cup {u}
      BY <1>6, <2>1, <2>2
    <3>2. QED
      BY <2>2, <3>1
  <2>3. CASE ~(n = m /\ w = i)
    <3>1. \A v : v \in Brought(w, n)' <=> v \in Brought(w, n)
      BY <1>6, <2>1, <2>3
    <3>2. QED
      BY <2>3, <3>1
  <2>4. QED
    BY <2>2, <2>3
<1>8. ASSUME NEW n \in Milestones, NEW w \in Users
      PROVE  BroughtBy(w, n)' = IF n = m /\ w = u THEN BroughtBy(w, n) \cup {i} ELSE BroughtBy(w, n)
  <2>1. \A j \in Users : j \in BroughtBy(w, n)' <=> (n = m /\ j = i /\ w = u) \/ j \in BroughtBy(w, n)
    BY <1>4
  <2>2. CASE n = m /\ w = u
    <3>1. \A j : j \in BroughtBy(w, n)' <=> j \in BroughtBy(w, n) \cup {i}
      BY <1>6, <2>1, <2>2
    <3>2. QED
      BY <2>2, <3>1
  <2>3. CASE ~(n = m /\ w = u)
    <3>1. \A j : j \in BroughtBy(w, n)' <=> j \in BroughtBy(w, n)
      BY <1>6, <2>1, <2>3
    <3>2. QED
      BY <2>3, <3>1
  <2>4. QED
    BY <2>2, <2>3
<1>9. QED
  BY <1>5, <1>7, <1>8

\* COMMIT publishes the milestone and both payments.
LEMMA CommitMile ==
  ASSUME NEW p \in Procs, MileInv, RefInv', Commit(p) \/ OnboardCommit(p)
  PROVE  MileInv'
<1>1. Shared(VersionsOf, Events, Frames, Pcs) /\ TypeInv /\ RefRows
  BY DEF MileInv, RefInv, TypeInv
<1>2. CommitLedger(p) /\ UNCHANGED inserted /\ pc[p] = "commit"
  BY DEF Commit, OnboardCommit, clockVars
<1>3. IdsOK'
  BY <1>1, <1>2, IdsStay DEF MileInv
<1>4. todo[p] = <<>> /\ MilestoneOK(p) /\ CommitRows(p)
  BY <1>2 DEF MileInv, MilestoneOK, CommitLedger
<1>5. /\ open'[p] = {} /\ todo'[p] = <<>> /\ pc'[p] \in {"idle", "stage2Read"}
      /\ ledger' = ledger \cup open[p]
      /\ \A q \in Procs \ {p} : open'[q] = open[q] /\ todo'[q] = todo[q]
      /\ OthersKept(p)
  BY <1>1, <1>2, <1>4
  DEF Commit, OnboardCommit, CommitLedger, Return, Goto, OthersKept, Shared
<1>6. LocksKept(p) /\ (\A k \in Keys : owner'[k] # p)
  BY <1>1, <1>4, CommitRefRows
<1>7. MilestoneOK(p)'
  <2>1. \A e, u : OwesNone(p, e, u)'
    BY <1>5, EndedOwesNone
  <2>2. NoMilestone(p)'
    BY <1>6, <2>1, RowTypes DEF NoMilestone, HasReferral
  <2>3. QED
    BY <1>5, <2>2 DEF MilestoneOK
<1>8. \A q \in Procs : MilestoneOK(q)'
  BY <1>5, <1>6, <1>7, OthersMilestones DEF OthersRest
<1>9. ASSUME NEW e, NEW w, IsFiniteSet(PaidRows(e, w))
      PROVE  /\ OwesNone(p, e, w) => PaidRows(e, w)' = PaidRows(e, w)
             /\ OwesOne(p, e, w) =>
                  /\ IsFiniteSet(PaidRows(e, w)')
                  /\ Cardinality(PaidRows(e, w)') = Cardinality(PaidRows(e, w)) + 1
  BY <1>4, <1>5, <1>9, CommitPays DEF MileInv
<1>10. ASSUME NEW n \in Milestones, NEW w \in Users PROVE CountsOK(n, w)'
  <2>1. CountsOK(n, w)
    BY DEF MileInv
  <2>2. CASE NoMilestone(p)
    <3>1. \A j, v \in Users : db'[ReferralRow(j, v)] = db[ReferralRow(j, v)]
      BY <1>1, <1>4, <2>2, RowFacts DEF CommitRows, Sees, NoMilestone, HasReferral
    <3>2. Brought(w, n)' = Brought(w, n) /\ BroughtBy(w, n)' = BroughtBy(w, n)
      BY <3>1 DEF Brought, BroughtBy
    <3>3. /\ PaidRows(InviterEvent(n), w)' = PaidRows(InviterEvent(n), w)
          /\ PaidRows(InvitedEvent(n), w)' = PaidRows(InvitedEvent(n), w)
      BY <1>9, <2>1, <2>2 DEF CountsOK, NoMilestone
    <3>4. QED
      BY <2>1, <3>2, <3>3 DEF CountsOK
  <2>3. CASE \E i, u \in Users, m \in Milestones : Reaching(p, i, u, m)
    <3>1. PICK i \in Users, u \in Users, m \in Milestones : Reaching(p, i, u, m)
      BY <2>3
    <3>2. /\ Brought(w, n)' = IF n = m /\ w = i THEN Brought(w, n) \cup {u} ELSE Brought(w, n)
          /\ BroughtBy(w, n)' = IF n = m /\ w = u THEN BroughtBy(w, n) \cup {i} ELSE BroughtBy(w, n)
          /\ u \notin Brought(i, m) /\ i \notin BroughtBy(u, m)
      BY <1>4, <3>1, BroughtByCommit
    <3>3. /\ IF n = m /\ w = i THEN OwesOne(p, InviterEvent(n), w)
             ELSE OwesNone(p, InviterEvent(n), w)
          /\ IF n = m /\ w = u THEN OwesOne(p, InvitedEvent(n), w)
             ELSE OwesNone(p, InvitedEvent(n), w)
      BY <3>1 DEF Reaching
    <3>4. /\ IsFiniteSet(Brought(w, n)') /\ IsFiniteSet(PaidRows(InviterEvent(n), w)')
          /\ Cardinality(PaidRows(InviterEvent(n), w)') = Cardinality(Brought(w, n)')
      <4>1. CASE n = m /\ w = i
        BY <1>9, <2>1, <3>2, <3>3, <4>1, OneMore DEF CountsOK
      <4>2. CASE ~(n = m /\ w = i)
        BY <1>9, <2>1, <3>2, <3>3, <4>2 DEF CountsOK
      <4>3. QED
        BY <4>1, <4>2
    <3>5. /\ IsFiniteSet(BroughtBy(w, n)') /\ IsFiniteSet(PaidRows(InvitedEvent(n), w)')
          /\ Cardinality(PaidRows(InvitedEvent(n), w)') = Cardinality(BroughtBy(w, n)')
      <4>1. CASE n = m /\ w = u
        BY <1>9, <2>1, <3>2, <3>3, <4>1, OneMore DEF CountsOK
      <4>2. CASE ~(n = m /\ w = u)
        BY <1>9, <2>1, <3>2, <3>3, <4>2 DEF CountsOK
      <4>3. QED
        BY <4>1, <4>2
    <3>6. QED
      BY <3>4, <3>5 DEF CountsOK
  <2>4. QED
    BY <1>4, <2>2, <2>3 DEF MilestoneOK
<1>11. QED
  BY <1>3, <1>8, <1>10 DEF MileInv

\* Every other statement is neutral: it reads, or locks or writes a user's row.
LEMMA NeutralMileSteps ==
  ASSUME NEW p \in Procs, MileInv, ~GiveUp(p),
         \/ EnsureFound(p) \/ EnsureMissing(p) \/ EnsureInsert(p, AfterEnsure(p))
         \/ ClaimCheck(p) \/ ClaimLock(p) \/ ClaimState(p)
         \/ Stage2Read(p) \/ Stage2Lock(p) \/ Stage2Cap(p) \/ AppendRead(p)
  PROVE  NeutralMile(p)
<1> DEFINE u == StateRow(frame[p].user)
           i == StateRow(frame[p].inviter)
<1>1. Shared(VersionsOf, Events, Frames, Pcs) /\ Locals(p) /\ ClaimLocals(p) /\ TypeInv /\ RefRows
  BY DEF MileInv, RefInv, TypeInv
<1>2. UNCHANGED <<ledgerVars, todo, clockVars>>
  BY DEF EnsureFound, EnsureMissing, EnsureInsert, ClaimCheck, ClaimLock, ClaimState, Stage2Read,
         Stage2Lock, Stage2Cap, AppendRead
<1>3. /\ OthersKept(p) /\ pc'[p] # "commit" /\ (pc[p] \in PayingPcs => pc'[p] \in PayingPcs)
  BY <1>1
  DEF EnsureFound, EnsureMissing, EnsureInsert, ClaimCheck, ClaimLock, ClaimState, Stage2Read,
      Stage2Lock, Stage2Cap, AppendRead, Goto, AfterEnsure, OthersKept, PayingPcs, Shared
<1>4. pc[p] # "idle" /\ frame[p].user \in Users /\ u \in Keys
        /\ (Stage2Lock(p) => frame[p].inviter \in Users /\ i \in Keys)
  BY <1>1, RowTypes, Constants
  DEF EnsureFound, EnsureMissing, EnsureInsert, ClaimCheck, ClaimLock, ClaimState, Stage2Read,
      Stage2Lock, Stage2Cap, AppendRead, Locals
<1>5. \/ UNCHANGED rowVars
      \/ LockRow(p, u)
      \/ Stage2Lock(p) /\ LockRow(p, i)
      \/ db[u] = NoRow /\ AutocommitRow(u, FreshState)
      \/ owner[u] = p /\ \E v : WriteRow(p, u, v)
  BY <1>1
  DEF EnsureFound, EnsureMissing, EnsureInsert, ClaimCheck, ClaimLock, ClaimState, Stage2Read,
      Stage2Lock, Stage2Cap, AppendRead, ClaimLocals
<1>6. \A j, v \in Users : LET k == ReferralRow(j, v) IN
        db'[k] = db[k] /\ new'[k] = new[k] /\ owner'[k] = owner[k]
  BY <1>1, <1>4, <1>5, RowFacts, KeysDiffer DEF LockRow, AutocommitRow, WriteRow, rowVars
<1>7. LocksKept(p)
  <2>1. CASE UNCHANGED rowVars
    BY <2>1 DEF LocksKept, rowVars
  <2>2. ASSUME NEW k \in Keys, LockRow(p, k) PROVE LocksKept(p)
    <3>1. /\ db' = db /\ new' = new /\ owner[k] \in {NoProc, p}
          /\ \A j \in Keys : owner'[j] = (IF j = k THEN p ELSE owner[j])
      BY <1>1, <2>2, RowFacts DEF LockRow, Free
    <3>2. QED
      BY <3>1, LedgerAssumption DEF LocksKept
  <2>3. CASE AutocommitRow(u, FreshState)
    BY <1>1, <1>4, <2>3, RowFacts, LedgerAssumption DEF AutocommitRow, LocksKept
  <2>4. CASE owner[u] = p /\ \E v : WriteRow(p, u, v)
    BY <1>1, <1>4, <2>4, RowFacts DEF WriteRow, LocksKept
  <2>5. QED
    BY <1>4, <1>5, <2>1, <2>2, <2>3, <2>4
<1>8. QED
  BY <1>2, <1>3, <1>6, <1>7 DEF NeutralMile, OthersRest, ledgerVars, clockVars

LEMMA StartMile ==
  ASSUME NEW p \in Procs, MileInv, Start(p)
  PROVE  NeutralMile(p)
<1>1. Shared(VersionsOf, Events, Frames, Pcs)
  BY DEF MileInv, RefInv, TypeInv
<1>2. PICK first \in {"ensure", "stage2Read"} : \E f : StartCall(p, f, first)
  BY DEF Start
<1>3. QED
  BY <1>1, <1>2
  DEF StartCall, Goto, NeutralMile, OthersRest, OthersKept, LocksKept, PayingPcs, Shared,
      rowVars, ledgerVars, clockVars

\* Before the first call the earlier invitation, if any, is PARTIAL, and its
\* first milestone is paid to both sides.
LEMMA InitMile == Init => MileInv
<1> SUFFICES ASSUME Init PROVE MileInv
  OBVIOUS
<1>1. RefInv
  BY InitClaims
<1>2. /\ new = db /\ owner = [k \in Keys |-> NoProc] /\ pc = [p \in Procs |-> "idle"]
      /\ open = [p \in Procs |-> {}] /\ todo = [p \in Procs |-> <<>>] /\ inserted = 0
      /\ ledger = UNION {{EarlierRow(i[2], "REFERRAL_STAGE1"),
                          EarlierRow(i[1], "REFERRAL_WELCOME_STAGE1")} : i \in Claimed}
      /\ \A k \in Keys : db[k] =
           IF \E u \in Joined : k = StateRow(u)
             THEN [FreshState EXCEPT !.referredBy = EarlierInviter(k[2])]
           ELSE IF \E i \in Claimed : k = ReferralRow(i[2], i[1])
             THEN [status |-> "PARTIAL", day |-> 1] ELSE NoRow
  BY DEF Init, LedgerInit, RowsInit
<1>3. IdsOK
  BY <1>2 DEF IdsOK, EarlierRow
<1>4. ASSUME NEW p \in Procs PROVE MilestoneOK(p)
  <2>1. NoMilestone(p)
    BY <1>2, RowTypes, LedgerAssumption
    DEF NoMilestone, HasReferral, OwesNone, Appended, Due
  <2>2. QED
    BY <1>2, <2>1 DEF MilestoneOK
<1>5. \A j, u \in Users : db[ReferralRow(j, u)] =
        IF <<u, j>> \in Claimed THEN [status |-> "PARTIAL", day |-> 1] ELSE NoRow
  <2> SUFFICES ASSUME NEW j \in Users, NEW u \in Users
               PROVE  db[ReferralRow(j, u)] =
                        IF <<u, j>> \in Claimed THEN [status |-> "PARTIAL", day |-> 1] ELSE NoRow
    OBVIOUS
  <2>1. PICK k \in Keys : k = ReferralRow(j, u)
    BY RowTypes
  <2>2. ~ \E v \in Joined : k = StateRow(v)
    BY <2>1, KeysDiffer
  <2>3. (\E i \in Claimed : k = ReferralRow(i[2], i[1])) <=> <<u, j>> \in Claimed
    <3>1. \A i \in Claimed : i = <<i[1], i[2]>>
      BY ReferralsAssumption
    <3>2. QED
      BY <2>1, <3>1, KeysDiffer
  <2>4. QED
    BY <1>2, <2>1, <2>2, <2>3
<1>6. [status |-> "PARTIAL", day |-> 1] # NoRow
  BY LedgerAssumption, NoRowAssumption DEF Referrals, Days
<1>7. \A w \in Users :
        /\ Brought(w, 1) = {u \in Users : <<u, w>> \in Claimed} /\ Brought(w, 2) = {}
        /\ BroughtBy(w, 1) = {j \in Users : <<w, j>> \in Claimed} /\ BroughtBy(w, 2) = {}
  <2>1. \A j, u \in Users, m \in Milestones :
          (db[ReferralRow(j, u)] # NoRow /\ db[ReferralRow(j, u)].status \in AtLeast(m))
            <=> <<u, j>> \in Claimed /\ m = 1
    BY <1>5, <1>6 DEF AtLeast, Milestones
  <2>2. 1 \in Milestones /\ 2 \in Milestones /\ 1 # 2
    BY DEF Milestones
  <2>3. \A w \in Users :
          /\ Brought(w, 1) = {u \in Users : <<u, w>> \in Claimed}
          /\ BroughtBy(w, 1) = {j \in Users : <<w, j>> \in Claimed}
    BY <2>1, <2>2 DEF Brought, BroughtBy
  <2>4. \A w \in Users : Brought(w, 2) = {} /\ BroughtBy(w, 2) = {}
    BY <2>1, <2>2 DEF Brought, BroughtBy
  <2>5. QED
    BY <2>3, <2>4
<1>8. \A r : r \in ledger <=> \E i \in Claimed :
        r = EarlierRow(i[2], "REFERRAL_STAGE1") \/ r = EarlierRow(i[1], "REFERRAL_WELCOME_STAGE1")
  BY <1>2
<1>9. \A u, e : EarlierRow(u, e).user = u /\ EarlierRow(u, e).event = e
  BY DEF EarlierRow
<1>10. /\ InviterEvent(1) = "REFERRAL_STAGE1" /\ InvitedEvent(1) = "REFERRAL_WELCOME_STAGE1"
       /\ InviterEvent(2) = "REFERRAL_STAGE2" /\ InvitedEvent(2) = "REFERRAL_WELCOME_STAGE2"
  BY DEF InviterEvent, InvitedEvent
<1>11. \A w : PaidRows(InviterEvent(2), w) = {} /\ PaidRows(InvitedEvent(2), w) = {}
  BY <1>8, <1>9, <1>10 DEF PaidRows
<1>12. ASSUME NEW w \in Users PROVE CountsOK(2, w)
  BY <1>7, <1>11, FS_EmptySet DEF CountsOK
<1>13. ASSUME NEW w \in Users PROVE CountsOK(1, w)
  <2>1. \/ Brought(w, 1) = {} /\ PaidRows(InviterEvent(1), w) = {}
        \/ \E u, r : Brought(w, 1) = {u} /\ PaidRows(InviterEvent(1), w) = {r}
    <3>1. CASE \E c \in Claimed : c[2] = w
      <4>1. PICK c \in Claimed : c[2] = w
        BY <3>1
      <4>2. c = <<c[1], w>> /\ c[1] \in Users /\ Claimed = {c}
        BY <4>1, ReferralsAssumption
      <4>3. Brought(w, 1) = {c[1]}
        BY <1>7, <4>2
      <4>4. PaidRows(InviterEvent(1), w) = {EarlierRow(w, "REFERRAL_STAGE1")}
        BY <1>8, <1>9, <1>10, <4>1, <4>2 DEF PaidRows
      <4>5. QED
        BY <4>3, <4>4
    <3>2. CASE ~ \E c \in Claimed : c[2] = w
      <4>1. Brought(w, 1) = {}
        <5>1. \A u : <<u, w>>[2] = w
          OBVIOUS
        <5>2. \A u : <<u, w>> \notin Claimed
          BY <3>2, <5>1
        <5>3. QED
          BY <1>7, <5>2
      <4>2. PaidRows(InviterEvent(1), w) = {}
        BY <1>8, <1>9, <1>10, <3>2 DEF PaidRows
      <4>3. QED
        BY <4>1, <4>2
    <3>3. QED
      BY <3>1, <3>2
  <2>2. \/ BroughtBy(w, 1) = {} /\ PaidRows(InvitedEvent(1), w) = {}
        \/ \E j, r : BroughtBy(w, 1) = {j} /\ PaidRows(InvitedEvent(1), w) = {r}
    <3>1. CASE \E c \in Claimed : c[1] = w
      <4>1. PICK c \in Claimed : c[1] = w
        BY <3>1
      <4>2. c = <<w, c[2]>> /\ c[2] \in Users /\ Claimed = {c}
        BY <4>1, ReferralsAssumption
      <4>3. BroughtBy(w, 1) = {c[2]}
        BY <1>7, <4>2
      <4>4. PaidRows(InvitedEvent(1), w) = {EarlierRow(w, "REFERRAL_WELCOME_STAGE1")}
        BY <1>8, <1>9, <1>10, <4>1, <4>2 DEF PaidRows
      <4>5. QED
        BY <4>3, <4>4
    <3>2. CASE ~ \E c \in Claimed : c[1] = w
      <4>1. BroughtBy(w, 1) = {}
        <5>1. \A j : <<w, j>>[1] = w
          OBVIOUS
        <5>2. \A j : <<w, j>> \notin Claimed
          BY <3>2, <5>1
        <5>3. QED
          BY <1>7, <5>2
      <4>2. PaidRows(InvitedEvent(1), w) = {}
        BY <1>8, <1>9, <1>10, <3>2 DEF PaidRows
      <4>3. QED
        BY <4>1, <4>2
    <3>3. QED
      BY <3>1, <3>2
  <2>3. \A x : IsFiniteSet({x}) /\ Cardinality({x}) = 1
    BY FS_Singleton
  <2>4. /\ IsFiniteSet(Brought(w, 1)) /\ IsFiniteSet(PaidRows(InviterEvent(1), w))
        /\ Cardinality(PaidRows(InviterEvent(1), w)) = Cardinality(Brought(w, 1))
    BY <2>1, <2>3, FS_EmptySet
  <2>5. /\ IsFiniteSet(BroughtBy(w, 1)) /\ IsFiniteSet(PaidRows(InvitedEvent(1), w))
        /\ Cardinality(PaidRows(InvitedEvent(1), w)) = Cardinality(BroughtBy(w, 1))
    BY <2>2, <2>3, FS_EmptySet
  <2>6. QED
    BY <2>4, <2>5 DEF CountsOK
<1>14. \A m \in Milestones, w \in Users : CountsOK(m, w)
  BY <1>12, <1>13 DEF Milestones
<1>15. QED
  BY <1>1, <1>3, <1>4, <1>14 DEF MileInv

\* The inductive invariant: no step of the system breaks it.
LEMMA MilestonesStay == MileInv /\ [Next]_vars => MileInv'
<1> SUFFICES ASSUME MileInv, [Next]_vars PROVE MileInv'
  OBVIOUS
<1>1. RefInv'
  BY ClaimsStay DEF MileInv
<1>2. ASSUME NEW p \in Procs, Start(p) PROVE MileInv'
  BY <1>1, <1>2, StartMile, NeutralMileKeeps
<1>3. ASSUME NEW p \in Procs, Step(p) PROVE MileInv'
  <2>1. CASE GiveUp(p)
    BY <1>1, <2>1, GiveUpMile
  <2>2. CASE ~GiveUp(p)
    <3>1. ~AppendDuplicate(p)
      BY <2>2 DEF AppendDuplicate
    <3>2. CASE Commit(p) \/ OnboardCommit(p)
      BY <1>1, <3>2, CommitMile
    <3>3. CASE AppendInsert(p, "commit")
      BY <1>1, <3>3, InsertMile
    <3>4. CASE ClaimInsert(p) \/ Stage2Update(p)
      BY <1>1, <2>2, <3>4, ReferralMile
    <3>5. CASE OnboardCheck(p)
      BY <1>1, <2>2, <3>5, OnboardMile
    <3>6. CASE \/ EnsureFound(p) \/ EnsureMissing(p) \/ EnsureInsert(p, AfterEnsure(p))
               \/ ClaimCheck(p) \/ ClaimLock(p) \/ ClaimState(p)
               \/ Stage2Read(p) \/ Stage2Lock(p) \/ Stage2Cap(p) \/ AppendRead(p)
      <4>1. NeutralMile(p)
        BY <2>2, <3>6, NeutralMileSteps
      <4>2. QED
        BY <1>1, <4>1, NeutralMileKeeps
    <3>7. QED
      BY <1>3, <3>1, <3>2, <3>3, <3>4, <3>5, <3>6 DEF Step
  <2>3. QED
    BY <2>1, <2>2
<1>4. ASSUME NEW p \in Procs, Crash(p) PROVE MileInv'
  BY <1>1, <1>4, GiveUpMile DEF Crash
<1>5. CASE NextDay \/ UNCHANGED vars
  <2>1. UNCHANGED <<rowVars, ledger, open, inserted, pc, todo>>
    BY <1>5 DEF NextDay, vars, ledgerVars, clockVars
  <2>2. IdsOK'
    BY <2>1 DEF IdsOK, MileInv
  <2>3. \A e, u : \A p \in Procs : /\ OwesNone(p, e, u) => OwesNone(p, e, u)'
                                   /\ OwesOne(p, e, u) => OwesOne(p, e, u)'
    BY <2>1, OwesStays
  <2>4. ASSUME NEW p \in Procs PROVE MilestoneOK(p)'
    <3>1. NoMilestone(p) => NoMilestone(p)'
      BY <2>1, <2>3 DEF NoMilestone, HasReferral, rowVars
    <3>2. \A i, u \in Users, m \in Milestones : Reaching(p, i, u, m) => Reaching(p, i, u, m)'
      BY <2>1, <2>3 DEF Reaching, HasReferral, rowVars
    <3>3. QED
      BY <2>1, <3>1, <3>2 DEF MileInv, MilestoneOK
  <2>5. \A m \in Milestones, w \in Users : CountsOK(m, w)'
    BY <2>1, CountsStay DEF MileInv, rowVars
  <2>6. QED
    BY <1>1, <2>2, <2>4, <2>5 DEF MileInv
<1>6. QED
  BY <1>2, <1>3, <1>4, <1>5 DEF Next, Quiet

\* Each milestone of each invitation is paid exactly once to each side,
\* through every race of claims and onboarding calls, every crash and every
\* end of a day.
THEOREM MilestonesArePaidOnce == Spec => []MilestonesPaidOnce
<1>1. MileInv => MilestonesPaidOnce
  <2> SUFFICES ASSUME MileInv, NEW u \in Users
               PROVE  LET any == {"PARTIAL", "COMPLETED"} IN
                      /\ Paid(u, "REFERRAL_STAGE1") = Invited(u, any)
                      /\ Paid(u, "REFERRAL_WELCOME_STAGE1") = InvitedBy(u, any)
                      /\ Paid(u, "REFERRAL_STAGE2") = Invited(u, {"COMPLETED"})
                      /\ Paid(u, "REFERRAL_WELCOME_STAGE2") = InvitedBy(u, {"COMPLETED"})
    BY DEF MilestonesPaidOnce
  <2>1. CountsOK(1, u) /\ CountsOK(2, u)
    BY DEF MileInv, Milestones
  <2>2. /\ InviterEvent(1) = "REFERRAL_STAGE1" /\ InvitedEvent(1) = "REFERRAL_WELCOME_STAGE1"
        /\ InviterEvent(2) = "REFERRAL_STAGE2" /\ InvitedEvent(2) = "REFERRAL_WELCOME_STAGE2"
        /\ AtLeast(1) = {"PARTIAL", "COMPLETED"} /\ AtLeast(2) = {"COMPLETED"}
    BY DEF InviterEvent, InvitedEvent, AtLeast
  <2>3. \A m \in Milestones :
          /\ Cardinality(Brought(u, m)) = Invited(u, AtLeast(m))
          /\ Cardinality(BroughtBy(u, m)) = InvitedBy(u, AtLeast(m))
    BY DEF Brought, BroughtBy, Invited, InvitedBy
  <2>4. \A e : Paid(u, e) = Cardinality(PaidRows(e, u))
    BY DEF Paid, PaidRows
  <2>5. QED
    BY <2>1, <2>2, <2>3, <2>4 DEF CountsOK, Milestones
<1>2. QED
  BY <1>1, InitMile, MilestonesStay, PTL DEF Spec

-----------------------------------------------------------------------------
\* InviterMonthlyCap.  The count is read two statements before the UPDATE it
\* guards, and a COMMIT comes later still.  What keeps it true is the lock of
\* the inviter's row, which everybody who completes a referral of that inviter
\* takes first and holds to the end; and that the month counted is the month
\* stamped, which holds only of calls that no UTC day ends in the middle of.

Room(i) == Cardinality(Completed(db, i, Month(day))) < ReferralCap

CapOK(p) ==
  /\ pc[p] \in {"stage2Lock", "stage2Cap", "stage2Update"} => frame[p].day = day
  /\ pc[p] \in {"stage2Cap", "stage2Update"} => owner[StateRow(frame[p].inviter)] = p
  /\ pc[p] = "stage2Update" => Room(frame[p].inviter)
  /\ \A i, u \in Users :
       LET k == ReferralRow(i, u) IN
       HasReferral(p, i, u) /\ new[k].status = "COMPLETED" =>
         owner[StateRow(i)] = p /\ new[k].day = day /\ Room(i)

CapInv == MileInv /\ InviterMonthlyCap /\ \A p \in Procs : CapOK(p)

\* The set that is counted is finite: it is part of what MileInv counts.
LEMMA CompletedFinite ==
  ASSUME MileInv, NEW i \in Users, NEW m
  PROVE  IsFiniteSet(Completed(db, i, m))
<1>1. 2 \in Milestones
  BY DEF Milestones
<1>2. IsFiniteSet(Brought(i, 2))
  BY <1>1 DEF MileInv, CountsOK
<1>3. Completed(db, i, m) \subseteq Brought(i, 2)
  BY DEF Completed, Brought, AtLeast
<1>4. QED
  BY <1>2, <1>3, FS_Subset

\* As long as the referrals and the day are what they were, so is the room.
LEMMA RoomStays ==
  ASSUME NEW i \in Users, day' = day,
         \A u \in Users : db'[ReferralRow(i, u)] = db[ReferralRow(i, u)]
  PROVE  Room(i)' <=> Room(i)
<1>1. \A m : Completed(db', i, m) = Completed(db, i, m)
  BY DEF Completed
<1>2. QED
  BY <1>1 DEF Room, Month

LEMMA CapStays ==
  ASSUME InviterMonthlyCap,
         \A i, u \in Users : db'[ReferralRow(i, u)] = db[ReferralRow(i, u)]
  PROVE  InviterMonthlyCap'
<1>1. \A i \in Users : \A m : Completed(db', i, m) = Completed(db, i, m)
  BY DEF Completed
<1>2. QED
  BY <1>1 DEF InviterMonthlyCap, Month

\* The others keep what they rely on, if the inviters they have locked keep
\* their room.
LEMMA OthersCap ==
  ASSUME NEW p \in Procs, CapInv, OthersRest(p), day' = day, CapOK(p)',
         \A q \in Procs \ {p}, i \in Users : owner[StateRow(i)] = q /\ Room(i) => Room(i)'
  PROVE  \A q \in Procs : CapOK(q)'
<1> SUFFICES ASSUME NEW q \in Procs, q # p PROVE CapOK(q)'
  OBVIOUS
<1>1. CapOK(q) /\ pc'[q] = pc[q] /\ frame'[q] = frame[q]
  BY DEF CapInv, OthersRest, OthersKept
<1>2. \A i, u \in Users :
        /\ HasReferral(q, i, u)' <=> HasReferral(q, i, u)
        /\ HasReferral(q, i, u) => new'[ReferralRow(i, u)] = new[ReferralRow(i, u)]
  BY RowTypes DEF OthersRest, LocksKept, HasReferral
<1>3. \A i \in Users : owner[StateRow(i)] = q => owner'[StateRow(i)] = q
  BY RowTypes DEF OthersRest, LocksKept
<1>4. pc[q] \in {"stage2Lock", "stage2Cap", "stage2Update"} => frame[q].inviter \in Users
  BY DEF CapInv, MileInv, RefInv, TypeInv, Locals
<1>5. pc[q] \in {"stage2Cap", "stage2Update"} => owner'[StateRow(frame[q].inviter)] = q
  BY <1>1, <1>3, <1>4 DEF CapOK
<1>6. pc[q] = "stage2Update" => Room(frame[q].inviter)'
  <2> SUFFICES ASSUME pc[q] = "stage2Update" PROVE Room(frame[q].inviter)'
    OBVIOUS
  <2>1. PICK i \in Users : i = frame[q].inviter
    BY <1>4
  <2>2. owner[StateRow(i)] = q /\ Room(i)
    BY <1>1, <2>1 DEF CapOK
  <2>3. Room(i)'
    BY <2>2
  <2>4. i = frame'[q].inviter
    BY <1>1, <2>1
  <2>5. QED
    BY <2>3, <2>4 DEF Room
<1>7. ASSUME NEW i \in Users, NEW u \in Users,
             HasReferral(q, i, u), new[ReferralRow(i, u)].status = "COMPLETED"
      PROVE  owner'[StateRow(i)] = q /\ new'[ReferralRow(i, u)].day = day' /\ Room(i)'
  <2>1. owner[StateRow(i)] = q /\ new[ReferralRow(i, u)].day = day /\ Room(i)
    BY <1>1, <1>7 DEF CapOK
  <2>2. QED
    BY <1>2, <1>3, <1>7, <2>1
<1>8. QED
  BY <1>1, <1>2, <1>5, <1>6, <1>7 DEF CapOK

\* A step that leaves the committed referrals alone.
LEMMA QuietReferralsCap ==
  ASSUME NEW p \in Procs, CapInv, MileInv', OthersRest(p), day' = day, CapOK(p)',
         \A i, u \in Users : db'[ReferralRow(i, u)] = db[ReferralRow(i, u)]
  PROVE  CapInv'
<1>1. InviterMonthlyCap'
  BY CapStays DEF CapInv
<1>2. \A i \in Users : Room(i) => Room(i)'
  BY RoomStays
<1>3. \A q \in Procs : CapOK(q)'
  BY <1>2, OthersCap
<1>4. QED
  BY <1>1, <1>3 DEF CapInv

\* Whatever p does to rows, it does to rows nobody else has locked.
LEMMA RowStepKeepsLocks ==
  ASSUME NEW p \in Procs, TypeInv,
         \/ UNCHANGED rowVars
         \/ \E k \in Keys : LockRow(p, k) \/ \E v : WriteRow(p, k, v) \/ AutocommitRow(k, v)
         \/ CommitRows(p)
         \/ RollbackRows(p)
  PROVE  LocksKept(p)
<1>1. DOMAIN owner = Keys /\ DOMAIN db = Keys /\ DOMAIN new = Keys /\ NoProc \notin Procs
  BY RowFacts, LedgerAssumption
<1>2. CASE UNCHANGED rowVars
  BY <1>2 DEF LocksKept, rowVars
<1>3. ASSUME NEW k \in Keys, LockRow(p, k) PROVE LocksKept(p)
  BY <1>1, <1>3 DEF LocksKept, LockRow, Free
<1>4. ASSUME NEW k \in Keys, NEW v, WriteRow(p, k, v) PROVE LocksKept(p)
  BY <1>1, <1>4 DEF LocksKept, WriteRow, Free
<1>5. ASSUME NEW k \in Keys, NEW v, AutocommitRow(k, v) PROVE LocksKept(p)
  BY <1>1, <1>5 DEF LocksKept, AutocommitRow
<1>6. CASE CommitRows(p)
  BY <1>1, <1>6 DEF LocksKept, CommitRows, Sees, Unlocked
<1>7. CASE RollbackRows(p)
  BY <1>1, <1>7 DEF LocksKept, RollbackRows, Unlocked
<1>8. QED
  BY <1>2, <1>3, <1>4, <1>5, <1>6, <1>7

\* A statement that writes no referral, of a handler that has locked none.
LEMMA NoReferralCap ==
  ASSUME NEW p \in Procs, CapInv, NoMilestone(p), NeutralMile(p)
  PROVE  \A i, u \in Users : ~HasReferral(p, i, u)'
BY DEF NoMilestone, NeutralMile, HasReferral

\* The statements that touch no referral and append nothing.
LEMMA NeutralCap ==
  ASSUME NEW p \in Procs, CapInv, MileInv', NeutralMile(p), ~GiveUp(p),
         \/ Start(p)
         \/ EnsureFound(p) \/ EnsureMissing(p) \/ EnsureInsert(p, AfterEnsure(p))
         \/ ClaimCheck(p) \/ ClaimLock(p) \/ ClaimState(p)
         \/ Stage2Read(p) \/ Stage2Lock(p) \/ Stage2Cap(p) \/ AppendRead(p)
  PROVE  CapInv'
<1>1. Shared(VersionsOf, Events, Frames, Pcs) /\ Locals(p) /\ TypeInv /\ MilestoneOK(p) /\ CapOK(p)
  BY DEF CapInv, MileInv, RefInv, TypeInv
<1>2. day' = day
  BY DEF Start, StartCall, EnsureFound, EnsureMissing, EnsureInsert, ClaimCheck, ClaimLock,
         ClaimState, Stage2Read, Stage2Lock, Stage2Cap, AppendRead, clockVars
<1>3. CASE AppendRead(p)
  <2>1. pc'[p] = "insert" /\ UNCHANGED rowVars
    BY <1>1, <1>3 DEF AppendRead, Goto, Shared
  <2>2. \A i \in Users : Room(i) => Room(i)'
    BY <1>2, <2>1, RoomStays DEF rowVars
  <2>3. CapOK(p)'
    BY <1>1, <1>2, <2>1, <2>2 DEF CapOK, HasReferral, rowVars
  <2>4. QED
    BY <1>2, <2>1, <2>3, QuietReferralsCap DEF NeutralMile, rowVars
<1>4. CASE ~AppendRead(p)
  <2>1. NoMilestone(p)
    BY <1>1, <1>4
    DEF Start, StartCall, EnsureFound, EnsureMissing, EnsureInsert, ClaimCheck, ClaimLock,
        ClaimState, Stage2Read, Stage2Lock, Stage2Cap, MilestoneOK, PayingPcs
  <2>2. \A i, u \in Users : ~HasReferral(p, i, u)'
    BY <2>1, NoReferralCap
  <2>3. CapOK(p)'
    <3>1. CASE ~(Stage2Read(p) \/ Stage2Lock(p) \/ Stage2Cap(p))
      <4>1. pc'[p] \notin {"stage2Lock", "stage2Cap", "stage2Update"}
        <5>1. CASE Start(p)
          <6>1. PICK first \in {"ensure", "stage2Read"} : \E f : StartCall(p, f, first)
            BY <5>1 DEF Start
          <6>2. QED
            BY <1>1, <6>1 DEF StartCall, Goto, Shared
        <5>2. CASE ~Start(p)
          BY <1>1, <1>4, <3>1, <5>2
          DEF EnsureFound, EnsureMissing, EnsureInsert, ClaimCheck, ClaimLock, ClaimState,
              AfterEnsure, Goto, Shared
        <5>3. QED
          BY <5>1, <5>2
      <4>2. QED
        BY <2>2, <4>1 DEF CapOK
    <3>2. CASE Stage2Read(p)
      <4>1. frame[p] \in CallFrames
        BY <1>1, <3>2 DEF Stage2Read, Locals
      <4>2. pc'[p] = "stage2Lock" /\ frame'[p].day = day
        <5>1. PICK i : /\ frame' = [frame EXCEPT ![p].inviter = i, ![p].day = day]
                       /\ Goto(p, "stage2Lock")
          BY <3>2 DEF Stage2Read
        <5>2. QED
          BY <1>1, <4>1, <5>1 DEF Goto, Shared, CallFrames, Frames, NoFrame
      <4>3. QED
        BY <1>2, <2>2, <4>2 DEF CapOK
    <3>3. CASE Stage2Lock(p)
      <4>1. pc[p] = "stage2Lock" /\ pc'[p] = "stage2Cap" /\ frame' = frame
              /\ LockRow(p, StateRow(frame[p].inviter))
        BY <1>1, <3>3 DEF Stage2Lock, Goto, Shared
      <4>2. StateRow(frame[p].inviter) \in Keys
        BY <1>1, <4>1, RowTypes DEF Locals
      <4>3. owner'[StateRow(frame[p].inviter)] = p
        BY <1>1, <4>1, <4>2, RowFacts DEF LockRow
      <4>4. QED
        BY <1>1, <1>2, <2>2, <4>1, <4>3 DEF CapOK
    <3>4. CASE Stage2Cap(p)
      <4>1. pc[p] = "stage2Cap" /\ pc'[p] = "stage2Update" /\ UNCHANGED <<frame, rowVars>>
              /\ ~(Cardinality(Completed(db, frame[p].inviter, Month(day))) >= ReferralCap)
        BY <1>1, <3>4 DEF Stage2Cap, Goto, Shared
      <4>2. frame[p].inviter \in Users
        BY <1>1, <4>1 DEF Locals
      <4>3. Cardinality(Completed(db, frame[p].inviter, Month(day))) \in Nat
        BY <4>2, CompletedFinite, FS_CardinalityType DEF CapInv
      <4>4. Room(frame[p].inviter)
        BY <4>1, <4>3, ReferralsAssumption DEF Room
      <4>5. Room(frame[p].inviter)'
        BY <1>2, <4>1, <4>4 DEF Room, Completed, Month, rowVars
      <4>6. QED
        BY <1>1, <1>2, <2>2, <4>1, <4>5 DEF CapOK, rowVars
    <3>5. QED
      BY <3>1, <3>2, <3>3, <3>4
  <2>4. QED
    BY <1>2, <2>3, QuietReferralsCap DEF NeutralMile
<1>5. QED
  BY <1>3, <1>4

\* A refusal, a rollback or a crash.
LEMMA GiveUpCap ==
  ASSUME NEW p \in Procs, CapInv, MileInv', GiveUp(p)
  PROVE  CapInv'
<1>1. Shared(VersionsOf, Events, Frames, Pcs) /\ TypeInv /\ RefRows
  BY DEF CapInv, MileInv, RefInv, TypeInv
<1>2. /\ pc'[p] = "idle" /\ day' = day /\ db' = db /\ RollbackRows(p) /\ OthersKept(p)
      /\ \A q \in Procs \ {p} : open'[q] = open[q] /\ todo'[q] = todo[q]
  BY <1>1 DEF GiveUp, Return, Goto, RollbackRows, OthersKept, Shared, clockVars
<1>3. LocksKept(p) /\ \A k \in Keys : owner'[k] # p
  BY <1>1, <1>2, RollbackRefRows
<1>4. CapOK(p)'
  BY <1>2, <1>3, RowTypes DEF CapOK, HasReferral
<1>5. QED
  BY <1>2, <1>3, <1>4, QuietReferralsCap DEF OthersRest

\* The rows of the ledger have no part in it.
LEMMA AppendsCap ==
  ASSUME NEW p \in Procs, CapInv, MileInv', ~GiveUp(p),
         AppendInsert(p, "commit") \/ OnboardCheck(p)
  PROVE  CapInv'
<1>1. Shared(VersionsOf, Events, Frames, Pcs) /\ TypeInv /\ CapOK(p)
  BY DEF CapInv, MileInv, RefInv, TypeInv
<1>2. /\ pc'[p] \in {"append", "commit"} /\ day' = day /\ UNCHANGED rowVars /\ OthersKept(p)
      /\ \A q \in Procs \ {p} : open'[q] = open[q] /\ todo'[q] = todo[q]
  BY <1>1
  DEF AppendInsert, OnboardCheck, Goto, OthersKept, Shared, clockVars, ledgerVars
<1>3. LocksKept(p)
  BY <1>1, <1>2, RowStepKeepsLocks
<1>4. \A i \in Users : Room(i) => Room(i)'
  BY <1>2, RoomStays DEF rowVars
<1>5. CapOK(p)'
  BY <1>1, <1>2, <1>4 DEF CapOK, HasReferral, rowVars
<1>6. QED
  BY <1>2, <1>3, <1>5, QuietReferralsCap DEF OthersRest, rowVars

\* A claim writes a PARTIAL referral, which the cap does not count ...
LEMMA ClaimInsertCap ==
  ASSUME NEW p \in Procs, CapInv, MileInv', ~GiveUp(p), ClaimInsert(p)
  PROVE  CapInv'
<1>0. PICK k : k = ReferralRow(frame[p].inviter, frame[p].user)
  OBVIOUS
<1>1. Shared(VersionsOf, Events, Frames, Pcs) /\ TypeInv /\ Locals(p)
  BY DEF CapInv, MileInv, RefInv, TypeInv
<1>2. k \in Keys /\ NoMilestone(p)
  BY <1>0, <1>1, RowTypes, Constants
  DEF ClaimInsert, Locals, CapInv, MileInv, MilestoneOK, PayingPcs
<1>3. PICK v : v.status = "PARTIAL" /\ WriteRow(p, k, v)
  <2>1. WriteRow(p, k, [status |-> "PARTIAL", day |-> frame[p].day])
    BY <1>0 DEF ClaimInsert, InsertRow
  <2>2. QED
    BY <2>1
<1>4. /\ pc'[p] = "append" /\ day' = day /\ db' = db /\ OthersKept(p) /\ open' = open
      /\ \A q \in Procs \ {p} : todo'[q] = todo[q]
  BY <1>1, <1>3 DEF ClaimInsert, WriteRow, Goto, OthersKept, Shared, clockVars, ledgerVars
<1>5. LocksKept(p)
  BY <1>1, <1>2, <1>3, RowStepKeepsLocks
<1>6. \A j \in Keys : owner'[j] = p => j = k \/ owner[j] = p
  BY <1>1, <1>3, RowFacts DEF WriteRow
<1>7. new'[k] = v
  BY <1>1, <1>2, <1>3, RowFacts DEF WriteRow
<1>8. \A i, u \in Users : HasReferral(p, i, u)' => ReferralRow(i, u) = k
  BY <1>2, <1>6, RowTypes DEF HasReferral, NoMilestone
<1>9. CapOK(p)'
  BY <1>3, <1>4, <1>7, <1>8 DEF CapOK
<1>10. QED
  BY <1>4, <1>5, <1>9, QuietReferralsCap DEF OthersRest

\* ... and the second milestone one that is counted in the month it has just
\* found room in.
LEMMA Stage2UpdateCap ==
  ASSUME NEW p \in Procs, CapInv, MileInv', ~GiveUp(p), Stage2Update(p)
  PROVE  CapInv'
<1>0. PICK i, u : i = frame[p].inviter /\ u = frame[p].user
  OBVIOUS
<1> DEFINE k == ReferralRow(i, u)
<1>1. Shared(VersionsOf, Events, Frames, Pcs) /\ TypeInv /\ Locals(p) /\ CapOK(p)
  BY DEF CapInv, MileInv, RefInv, TypeInv
<1>2. pc[p] = "stage2Update"
  BY DEF Stage2Update
<1>3. i \in Users /\ u \in Users /\ k \in Keys /\ NoMilestone(p)
  BY <1>0, <1>1, <1>2, RowTypes, Constants
  DEF Locals, CapInv, MileInv, MilestoneOK, PayingPcs
<1>4. owner[StateRow(i)] = p /\ Room(i) /\ frame[p].day = day
  BY <1>0, <1>1, <1>2 DEF CapOK
<1>5. PICK v : v.day = day /\ WriteRow(p, k, v)
  <2>1. WriteRow(p, k, [status |-> "COMPLETED", day |-> frame[p].day])
    BY <1>0 DEF Stage2Update
  <2>2. [status |-> "COMPLETED", day |-> frame[p].day].day = day
    BY <1>4
  <2>3. QED
    BY <2>1, <2>2
<1>6. /\ pc'[p] = "append" /\ day' = day /\ db' = db /\ OthersKept(p) /\ open' = open
      /\ \A q \in Procs \ {p} : todo'[q] = todo[q]
  BY <1>1, <1>5 DEF Stage2Update, WriteRow, Goto, OthersKept, Shared, clockVars, ledgerVars
<1>7. LocksKept(p)
  BY <1>1, <1>3, <1>5, RowStepKeepsLocks
<1>8. \A j \in Keys : owner'[j] = IF j = k THEN p ELSE owner[j]
  BY <1>1, <1>5, RowFacts DEF WriteRow
<1>9. new'[k] = v
  BY <1>1, <1>3, <1>5, RowFacts DEF WriteRow
<1>10. \A j, w \in Users : HasReferral(p, j, w)' => j = i /\ w = u
  BY <1>3, <1>8, RowTypes, KeysDiffer DEF HasReferral, NoMilestone
<1>11. owner'[StateRow(i)] = p /\ Room(i)'
  BY <1>3, <1>4, <1>6, <1>8, RoomStays, RowTypes
<1>12. CapOK(p)'
  BY <1>5, <1>6, <1>9, <1>10, <1>11 DEF CapOK
<1>13. QED
  BY <1>6, <1>7, <1>12, QuietReferralsCap DEF OthersRest

\* COMMIT counts one more completion, and only for an inviter whose row the
\* transaction has locked since it found room.
LEMMA CommitCap ==
  ASSUME NEW p \in Procs, CapInv, MileInv', Commit(p) \/ OnboardCommit(p)
  PROVE  CapInv'
<1>1. /\ Shared(VersionsOf, Events, Frames, Pcs) /\ TypeInv /\ RefRows /\ CapOK(p)
      /\ MilestoneOK(p) /\ InviterMonthlyCap
  BY DEF CapInv, MileInv, RefInv, TypeInv
<1>2. CommitRows(p) /\ CommitLedger(p)
  BY DEF Commit, OnboardCommit, CommitLedger
<1>3. /\ pc'[p] \in {"idle", "stage2Read"} /\ day' = day
      /\ \A q \in Procs \ {p} : open'[q] = open[q] /\ todo'[q] = todo[q]
      /\ OthersKept(p)
  BY <1>1, <1>2
  DEF Commit, OnboardCommit, CommitLedger, Return, Goto, OthersKept, Shared, clockVars
<1>4. LocksKept(p) /\ \A k \in Keys : owner'[k] # p
  BY <1>1, <1>2, CommitRefRows
<1>5. CapOK(p)'
  BY <1>3, <1>4, RowTypes DEF CapOK, HasReferral
<1>6. OthersRest(p)
  BY <1>3, <1>4 DEF OthersRest
<1>7. \A j, v \in Users : db'[ReferralRow(j, v)] =
        IF HasReferral(p, j, v) THEN new[ReferralRow(j, v)] ELSE db[ReferralRow(j, v)]
  BY <1>1, <1>2, RowFacts DEF CommitRows, Sees, HasReferral
<1>8. CASE NoMilestone(p)
  <2>1. \A j, v \in Users : db'[ReferralRow(j, v)] = db[ReferralRow(j, v)]
    BY <1>7, <1>8 DEF NoMilestone
  <2>2. QED
    BY <1>3, <1>5, <1>6, <2>1, QuietReferralsCap
<1>9. ASSUME NEW i \in Users, NEW u \in Users, NEW m \in Milestones, Reaching(p, i, u, m)
      PROVE  CapInv'
  <2> DEFINE k == ReferralRow(i, u)
  <2>1. \A j, v \in Users : db'[ReferralRow(j, v)] =
          IF j = i /\ v = u THEN new[k] ELSE db[ReferralRow(j, v)]
    BY <1>7, <1>9 DEF Reaching
  <2>2. \A j \in Users : \A n : j # i => Completed(db', j, n) = Completed(db, j, n)
    BY <2>1 DEF Completed
  <2>3. CASE m = 1
    <3>1. \A n : Completed(db', i, n) = Completed(db, i, n)
      BY <1>9, <2>1, <2>3 DEF Completed, Reaching
    <3>2. \A j \in Users : \A n : Completed(db', j, n) = Completed(db, j, n)
      BY <2>2, <3>1
    <3>3. \A j \in Users : Room(j) => Room(j)'
      BY <1>3, <3>2 DEF Room, Month
    <3>4. InviterMonthlyCap'
      BY <1>1, <3>2 DEF InviterMonthlyCap, Month
    <3>5. \A q \in Procs : CapOK(q)'
      BY <1>3, <1>5, <1>6, <3>3, OthersCap
    <3>6. QED
      BY <3>4, <3>5 DEF CapInv
  <2>4. CASE m = 2
    <3>1. /\ new[k] # NoRow /\ new[k].status = "COMPLETED" /\ HasReferral(p, i, u)
          /\ db[k] # NoRow /\ db[k].status = "PARTIAL"
      BY <1>9, <2>4 DEF Reaching
    <3>2. owner[StateRow(i)] = p /\ new[k].day = day /\ Room(i)
      BY <1>1, <3>1 DEF CapOK
    <3>3. \A n : n # Month(day) => Completed(db', i, n) = Completed(db, i, n)
      BY <2>1, <3>1, <3>2 DEF Completed
    <3>4. Completed(db', i, Month(day)) = Completed(db, i, Month(day)) \cup {u}
            /\ u \notin Completed(db, i, Month(day))
      BY <2>1, <3>1, <3>2 DEF Completed
    <3>5. Cardinality(Completed(db', i, Month(day))) <= ReferralCap
      <4>1. PICK S : S = Completed(db, i, Month(day))
        OBVIOUS
      <4>2. IsFiniteSet(S)
        BY <4>1, CompletedFinite DEF CapInv
      <4>3. Cardinality(S) \in Nat /\ Cardinality(S \cup {u}) = Cardinality(S) + 1
        BY <3>4, <4>1, <4>2, OneMore, FS_CardinalityType
      <4>4. Cardinality(S) < ReferralCap
        BY <3>2, <4>1 DEF Room
      <4>5. QED
        BY <3>4, <4>1, <4>3, <4>4, ReferralsAssumption
    <3>6. InviterMonthlyCap'
      <4> SUFFICES ASSUME NEW j \in Users, NEW d \in Days
                   PROVE  Cardinality(Completed(db', j, Month(d))) <= ReferralCap
        BY DEF InviterMonthlyCap, Month
      <4>1. Cardinality(Completed(db, j, Month(d))) <= ReferralCap
        BY <1>1 DEF InviterMonthlyCap
      <4>2. QED
        BY <2>2, <3>3, <3>5, <4>1
    <3>7. \A q \in Procs \ {p}, j \in Users : owner[StateRow(j)] = q /\ Room(j) => Room(j)'
      <4> SUFFICES ASSUME NEW q \in Procs \ {p}, NEW j \in Users, owner[StateRow(j)] = q, Room(j)
                   PROVE  Room(j)'
        OBVIOUS
      <4>1. j # i
        BY <3>2
      <4>2. QED
        BY <1>3, <2>2, <4>1 DEF Room, Month
    <3>8. \A q \in Procs : CapOK(q)'
      BY <1>3, <1>5, <1>6, <3>7, OthersCap
    <3>9. QED
      BY <3>6, <3>8 DEF CapInv
  <2>5. QED
    BY <2>3, <2>4 DEF Milestones
<1>10. QED
  BY <1>1, <1>8, <1>9 DEF MilestoneOK

\* Nobody has completed a referral before the first call.
LEMMA InitCap == Init => CapInv
<1> SUFFICES ASSUME Init PROVE CapInv
  OBVIOUS
<1>1. MileInv
  BY InitMile
<1>2. pc = [p \in Procs |-> "idle"] /\ owner = [k \in Keys |-> NoProc]
  BY DEF Init, LedgerInit, RowsInit
<1>3. \A p \in Procs : CapOK(p)
  BY <1>2, RowTypes, LedgerAssumption DEF CapOK, HasReferral
<1>4. ASSUME NEW i \in Users, NEW u \in Users, db[ReferralRow(i, u)] # NoRow
      PROVE  db[ReferralRow(i, u)].status = "PARTIAL"
  <2>1. PICK k \in Keys : k = ReferralRow(i, u)
    BY RowTypes
  <2>2. ~ \E v \in Joined : k = StateRow(v)
    BY <2>1, KeysDiffer
  <2>3. db[k] \in {[status |-> "PARTIAL", day |-> 1], NoRow}
    BY <2>2 DEF Init, LedgerInit, RowsInit
  <2>4. QED
    BY <1>4, <2>1, <2>3
<1>5. \A i \in Users : \A m : Completed(db, i, m) = {}
  BY <1>4 DEF Completed
<1>6. InviterMonthlyCap
  BY <1>5, FS_EmptySet, ReferralsAssumption DEF InviterMonthlyCap
<1>7. QED
  BY <1>1, <1>3, <1>6 DEF CapInv

\* The inductive invariant, where no day ends in the middle of a call.
LEMMA CapsStay ==
  ASSUME MidCallRollover = FALSE
  PROVE  CapInv /\ [Next]_vars => CapInv'
<1> SUFFICES ASSUME CapInv, [Next]_vars PROVE CapInv'
  OBVIOUS
<1>1. MileInv'
  BY MilestonesStay DEF CapInv
<1>2. ASSUME NEW p \in Procs, GiveUp(p) PROVE CapInv'
  BY <1>1, <1>2, GiveUpCap
<1>3. ASSUME NEW p \in Procs, ~GiveUp(p), Start(p) PROVE CapInv'
  BY <1>1, <1>3, StartMile, NeutralCap DEF CapInv
<1>4. ASSUME NEW p \in Procs, ~GiveUp(p), Step(p) PROVE CapInv'
  <2>1. ~AppendDuplicate(p)
    BY <1>4 DEF AppendDuplicate
  <2>2. CASE Commit(p) \/ OnboardCommit(p)
    BY <1>1, <2>2, CommitCap
  <2>3. CASE AppendInsert(p, "commit") \/ OnboardCheck(p)
    BY <1>1, <1>4, <2>3, AppendsCap
  <2>4. CASE ClaimInsert(p)
    BY <1>1, <1>4, <2>4, ClaimInsertCap
  <2>5. CASE Stage2Update(p)
    BY <1>1, <1>4, <2>5, Stage2UpdateCap
  <2>6. CASE \/ EnsureFound(p) \/ EnsureMissing(p) \/ EnsureInsert(p, AfterEnsure(p))
             \/ ClaimCheck(p) \/ ClaimLock(p) \/ ClaimState(p)
             \/ Stage2Read(p) \/ Stage2Lock(p) \/ Stage2Cap(p) \/ AppendRead(p)
    <3>1. NeutralMile(p)
      BY <1>4, <2>6, NeutralMileSteps DEF CapInv
    <3>2. QED
      BY <1>1, <1>4, <2>6, <3>1, NeutralCap
  <2>7. QED
    BY <1>4, <2>1, <2>2, <2>3, <2>4, <2>5, <2>6 DEF Step
<1>5. CASE NextDay
  <2>1. \A p \in Procs : pc[p] = "idle"
    BY <1>5 DEF NextDay
  <2>2. UNCHANGED <<rowVars, pc>>
    BY <1>5 DEF NextDay
  <2>3. ASSUME NEW p \in Procs PROVE CapOK(p)'
    <3>1. NoMilestone(p)
      BY <2>1 DEF CapInv, MileInv, MilestoneOK, PayingPcs
    <3>2. QED
      BY <2>1, <2>2, <3>1 DEF NoMilestone, HasReferral, CapOK, rowVars
  <2>4. InviterMonthlyCap'
    BY <2>2, CapStays DEF CapInv, rowVars
  <2>5. QED
    BY <1>1, <2>3, <2>4 DEF CapInv
<1>6. CASE UNCHANGED vars
  <2>1. \A p \in Procs : CapOK(p)'
    BY <1>6 DEF CapInv, CapOK, HasReferral, Room, Completed, Month, vars, rowVars, clockVars
  <2>2. InviterMonthlyCap'
    BY <1>6, CapStays DEF CapInv, vars, rowVars
  <2>3. QED
    BY <1>1, <2>1, <2>2 DEF CapInv
<1>7. QED
  BY <1>2, <1>3, <1>4, <1>5, <1>6 DEF Next, Quiet, Crash

\* However many second milestones race, no inviter is rewarded for more than
\* ReferralCap completions of one month.  A call that a UTC month ends in the
\* middle of counts one month and stamps the other, hence the assumption.
THEOREM InviterCapHolds ==
  ASSUME MidCallRollover = FALSE
  PROVE  Spec => []InviterMonthlyCap
<1>1. CapInv => InviterMonthlyCap
  BY DEF CapInv
<1>2. QED
  BY <1>1, InitCap, CapsStay, PTL DEF Spec
=============================================================================
