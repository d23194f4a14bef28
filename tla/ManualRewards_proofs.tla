------------------------ MODULE ManualRewards_proofs ------------------------
(***************************************************************************)
(* What is proved of ManualRewards, for any number of instances and users, *)
(* any points and any length of behaviour.  StreaksAreCounted supposes     *)
(* besides that no UTC day ends while a handler is running.                *)
(***************************************************************************)
EXTENDS ManualRewards, PointsLedger_proofs

-----------------------------------------------------------------------------
Untouched == UNCHANGED <<ledger, open>>

\* Every statement of a handler is a step of the abstract ledger, or leaves
\* the ledger alone.
LEMMA StepMaps ==
  ASSUME NEW p \in Procs, DOMAIN open = Procs, Step(p)
  PROVE  Index!Next \/ Untouched
<1>1. CASE GiveUp(p)
  BY <1>1, GiveUpRollsBack DEF Index!Next
<1>2. CASE CommitLedger(p)
  BY <1>2, CommitCommits DEF Index!Next
<1>3. CASE AppendInsert(p, "commit")
  BY <1>3, InsertAppends DEF Index!Next
<1>4. CASE SignupCheck(p)
  BY <1>1, <1>4 DEF SignupCheck, Untouched, ledgerVars
<1>5. CASE EnsureFound(p) \/ EnsureMissing(p) \/ EnsureInsert(p, AfterEnsure(p))
  BY <1>1, <1>5 DEF EnsureFound, EnsureMissing, EnsureInsert, Untouched, ledgerVars
<1>6. CASE Today(p) \/ Answer(p)
  BY <1>1, <1>6 DEF Today, Answer, Untouched, ledgerVars
<1>7. CASE CheckinSelect(p) \/ CheckinInsert(p) \/ CheckinState(p)
  BY <1>1, <1>7
  DEF CheckinSelect, CheckinInsert, CheckinState, DailySelect, DailyInsert, Untouched, ledgerVars
<1>8. CASE EngageSelect(p) \/ EngageInsert(p)
  BY <1>1, <1>8 DEF EngageSelect, EngageInsert, DailySelect, DailyInsert, Untouched, ledgerVars
<1>9. CASE VipCap(p) \/ VipPick(p) \/ VipLock(p) \/ VipState(p)
  BY <1>1, <1>9 DEF VipCap, VipPick, PickLastRow, VipLock, VipState, Untouched, ledgerVars
<1>10. CASE AppendRead(p) \/ AppendNoState(p) \/ MakeState(p) \/ AppendDuplicate(p)
  BY <1>1, <1>10
  DEF AppendRead, AppendNoState, MakeState, AppendDuplicate, Untouched, ledgerVars
<1>11. CASE Commit(p)
  BY <1>2, <1>11 DEF Commit
<1>12. QED
  BY <1>3, <1>4, <1>5, <1>6, <1>7, <1>8, <1>9, <1>10, <1>11 DEF Step

\* So does every step of the system: a call that starts, a crash, a new day.
LEMMA NextMaps ==
  ASSUME DOMAIN open = Procs, [Next]_vars
  PROVE  Index!Next \/ Untouched
<1>1. CASE \E p \in Procs : Start(p)
  BY <1>1 DEF Start, StartCall, Untouched, ledgerVars
<1>2. CASE \E p \in Procs : Step(p)
  BY <1>2, StepMaps
<1>3. CASE \E p \in Procs : Crash(p)
  BY <1>3, GiveUpRollsBack DEF Crash, Index!Next
<1>4. CASE NextDay \/ Quiet \/ UNCHANGED vars
  BY <1>4 DEF NextDay, Quiet, vars, Untouched, ledgerVars
<1>5. QED
  BY <1>1, <1>2, <1>3, <1>4 DEF Next

\* Every instance always has a transaction, possibly an empty one.
LEMMA OpenDomain == Spec => [](DOMAIN open = Procs)
<1>1. Init => DOMAIN open = Procs
  BY DEF Init, LedgerInit
<1>2. DOMAIN open = Procs /\ [Next]_vars => (DOMAIN open = Procs)'
  BY NextMaps DEF Untouched, Index!Next, Index!Append, Index!Commit, Index!Rollback
<1>3. QED
  BY <1>1, <1>2, PTL DEF Spec

\* The handlers implement the abstract ledger: rows are only added, a
\* transaction at a time, and never two of the same singleton.
THEOREM RewardsImplementLedger == Spec => ImplementsUniqueLedger
<1>1. Init => Index!Init
  BY DEF Init, LedgerInit, Index!Init, Index!Unique
<1>2. DOMAIN open = Procs /\ [Next]_vars => [Index!Next]_<<ledger, open>>
  BY NextMaps DEF Untouched
<1>3. QED
  BY <1>1, <1>2, OpenDomain, PTL DEF Spec, ImplementsUniqueLedger, Index!Spec

\* However many instances race through hasLedgerEvent, a user is paid the
\* sign-up bonus at most once.
THEOREM SignupBonusIsOnce == Spec => []SignupBonusOnce
<1>1. Index!IndexHolds => SignupBonusOnce
  BY DEF Index!IndexHolds, Index!Unique, Index!Clash, SignupBonusOnce, SingletonEvents
<1>2. QED
  BY <1>1, RewardsImplementLedger, IndexOfImplementation, PTL

-----------------------------------------------------------------------------
\* Types.  TypeOK is not inductive: a redemption updates a row of
\* manual_user_state nobody has looked for.  The row is there because the
\* balance the redemption has found is not 0, so that the ledger has a row of
\* the user, and no append is sent before ensureManualUserState has found or
\* made the user's row.

VersionsOf == [k \in Keys |-> IF k[1] = "state" THEN UserStates ELSE {DailyRow}]

CallFrames == Frames \ {NoFrame}

AppendPcs == {"append", "makeState", "insert", "commit"}
DayPcs == {"checkinSelect", "checkinInsert", "checkinState", "engageSelect", "engageInsert"}
VipPcs == {"vipCap", "vipPick", "vipLock", "vipState"}

\* The user of p's call has a row.
HasState(p) == db[StateRow(frame[p].user)] \in UserStates

\* User u has a row in the eyes of p's transaction.
SeesState(p, u) == Sees(p, StateRow(u)) \in UserStates

\* The locals a statement finds set, and the rows it relies on.
LocalOK(p) ==
  /\ pc[p] # "idle" => frame[p] \in CallFrames
  /\ pc[p] \in DayPcs => frame[p].day \in Days
  /\ pc[p] \in VipPcs => frame[p].days \in 1..30
  /\ pc[p] \in {"today", "checkinSelect", "checkinInsert", "checkinState", "vipState"} => HasState(p)
  /\ pc[p] = "vipLock" /\ bal[p] > 0 => HasState(p)
  /\ pc[p] \in {"checkinState", "vipState"} => todo[p] # <<>>

\* What p's transaction has appended, or is about to, belongs to users whose
\* row it sees.
OpenOK(p) ==
  /\ pc[p] \notin AppendPcs => open[p] = {}
  /\ pc[p] = "insert" => SeesState(p, Head(todo[p]).user)
  /\ \A r \in open[p] : SeesState(p, r.user)

LedgerOK == \A r \in ledger : db[StateRow(r.user)] \in UserStates

TypeInv ==
  /\ Shared(VersionsOf, Events, Frames, Pcs)
  /\ LedgerOK
  /\ \A p \in Procs : LocalOK(p) /\ OpenOK(p)

\* A step of p leaves the locals of the others alone ...
OthersAll(p) ==
  \A q \in Procs \ {p} : /\ pc'[q] = pc[q] /\ frame'[q] = frame[q] /\ todo'[q] = todo[q]
                         /\ bal'[q] = bal[q] /\ open'[q] = open[q]

\* ... and the rows they have locked.
LocksKept(p) ==
  \A q \in Procs \ {p}, k \in Keys :
    /\ owner'[k] = q <=> owner[k] = q
    /\ owner[k] = q => new'[k] = new[k]

\* Which versions the rows of each table have.
LEMMA RowTypes ==
  /\ DOMAIN VersionsOf = Keys
  /\ \A u \in Users : StateRow(u) \in Keys /\ VersionsOf[StateRow(u)] = UserStates
  /\ \A u \in Users, d \in Days :
       /\ CheckinRow(u, d) \in Keys /\ VersionsOf[CheckinRow(u, d)] = {DailyRow}
       /\ EngagedRow(u, d) \in Keys /\ VersionsOf[EngagedRow(u, d)] = {DailyRow}
BY DEF VersionsOf, Keys, StateRow, CheckinRow, EngagedRow

\* The fresh row and the locals of a call are of their types.
LEMMA Constants ==
  /\ FreshState \in UserStates
  /\ NoFrame \in Frames
  /\ \A f \in CallFrames :
       f \in Frames /\ f.user \in Users /\ f.days \in Nat /\ f.streak \in Nat
BY DEF FreshState, UserStates, NoFrame, Frames, CallFrames, NoDay

\* TypeOK is what TypeInv says of each variable.
LEMMA TypeInvImplies == TypeInv => TypeOK
<1> SUFFICES ASSUME TypeInv PROVE TypeOK
  OBVIOUS
<1>1. \A k \in Keys : VersionsOf[k] \subseteq Versions /\ NoRow \in Versions
  BY DEF VersionsOf, Versions
<1>2. db \in [Keys -> Versions] /\ new \in [Keys -> Versions]
  BY <1>1, RowTypes DEF TypeInv, Shared, RowsInv
<1>3. owner \in [Keys -> Procs \cup {NoProc}]
  BY RowTypes DEF TypeInv, Shared, RowsInv
<1>4. RowsOf(Events) = Rows /\ AppendsOf(Events) = Appends
  BY DEF RowsOf, Rows, AppendsOf, Appends, Days
<1>5. QED
  BY <1>2, <1>3, <1>4 DEF TypeInv, Shared, TypeOK, Days

\* No statement touches a row another transaction has locked.
LEMMA StatementsKeepLocks ==
  ASSUME NEW p \in Procs, TypeInv,
         \/ UNCHANGED rowVars
         \/ CommitRows(p) \/ RollbackRows(p)
         \/ \E k \in Keys, v \in UserStates \cup {DailyRow} :
              WriteRow(p, k, v) \/ AutocommitRow(k, v)
  PROVE  LocksKept(p)
<1>1. /\ owner \in [Keys -> Procs \cup {NoProc}]
      /\ DOMAIN new = Keys /\ DOMAIN db = Keys
      /\ new = [k \in Keys |-> new[k]]
  BY RowTypes DEF TypeInv, Shared, RowsInv
<1>2. CASE UNCHANGED rowVars
  BY <1>2 DEF LocksKept, rowVars
<1>3. CASE CommitRows(p) \/ RollbackRows(p)
  <2>1. owner' = [k \in Keys |-> IF owner[k] = p THEN NoProc ELSE owner[k]]
    BY <1>1, <1>3 DEF CommitRows, RollbackRows, Unlocked
  <2>2. \A k \in Keys : owner[k] # p => new'[k] = new[k]
    BY <1>1, <1>3 DEF CommitRows, RollbackRows
  <2>3. QED
    BY <2>1, <2>2, LedgerAssumption DEF LocksKept
<1>4. CASE \E k \in Keys, v \in UserStates \cup {DailyRow} :
             WriteRow(p, k, v) \/ AutocommitRow(k, v)
  BY <1>1, <1>4, LedgerAssumption DEF LocksKept, WriteRow, AutocommitRow, Free
<1>5. QED
  BY <1>2, <1>3, <1>4

\* What p does to its own locals and rows is all that has to be looked at.
LEMMA OthersKeep ==
  ASSUME NEW p \in Procs, TypeInv, Shared(VersionsOf, Events, Frames, Pcs)',
         RowsStay(VersionsOf), OthersAll(p), LocksKept(p),
         LedgerOK', LocalOK(p)', OpenOK(p)'
  PROVE  TypeInv'
<1> SUFFICES ASSUME NEW q \in Procs, q # p PROVE LocalOK(q)' /\ OpenOK(q)'
  BY DEF TypeInv
<1>1. LocalOK(q) /\ OpenOK(q)
  BY DEF TypeInv
<1>2. /\ pc'[q] = pc[q] /\ frame'[q] = frame[q] /\ todo'[q] = todo[q]
      /\ bal'[q] = bal[q] /\ open'[q] = open[q]
  BY DEF OthersAll
<1>3. \A u \in Users : db[StateRow(u)] \in UserStates => db'[StateRow(u)] \in UserStates
  BY RowTypes DEF RowsStay
<1>4. ASSUME NEW u \in Users, SeesState(q, u) PROVE SeesState(q, u)'
  <2>1. StateRow(u) \in Keys
    BY RowTypes
  <2>2. CASE owner[StateRow(u)] = q
    BY <1>4, <2>1, <2>2 DEF SeesState, Sees, LocksKept
  <2>3. CASE owner[StateRow(u)] # q
    BY <1>3, <1>4, <2>1, <2>3 DEF SeesState, Sees, LocksKept
  <2>4. QED
    BY <2>2, <2>3
<1>5. LocalOK(q)'
  <2>1. pc[q] # "idle" => frame[q].user \in Users
    BY <1>1, Constants DEF LocalOK
  <2>2. pc[q] # "idle" /\ HasState(q) => HasState(q)'
    BY <1>2, <1>3, <2>1 DEF HasState
  <2>3. QED
    BY <1>1, <1>2, <2>2 DEF LocalOK, DayPcs, VipPcs
<1>6. OpenOK(q)'
  <2>1. open[q] \subseteq RowsOf(Events) /\ todo[q] \in Seq(AppendsOf(Events))
          /\ (pc[q] = "insert" => todo[q] # <<>>)
    BY DEF TypeInv, Shared
  <2>2. \A r \in open[q] : r.user \in Users
    BY <2>1 DEF RowsOf
  <2>3. pc[q] = "insert" => Head(todo[q]).user \in Users
    <3>1. pc[q] = "insert" => Head(todo[q]) \in AppendsOf(Events)
      BY <2>1
    <3>2. QED
      BY <3>1 DEF AppendsOf
  <2>4. pc[q] = "insert" => SeesState(q, Head(todo[q]).user)'
    BY <1>1, <1>2, <1>4, <2>3 DEF OpenOK, SeesState
  <2>5. \A r \in open[q] : SeesState(q, r.user)'
    BY <1>1, <1>4, <2>2 DEF OpenOK, SeesState
  <2>6. QED
    BY <1>1, <1>2, <2>4, <2>5 DEF OpenOK, SeesState
<1>7. QED
  BY <1>5, <1>6

\* The ledger's users keep their rows while no transaction commits.
LEMMA LedgerKeeps ==
  ASSUME TypeInv, RowsStay(VersionsOf), UNCHANGED ledger
  PROVE  LedgerOK'
<1>1. \A r \in ledger : r.user \in Users
  BY DEF TypeInv, Shared, RowsOf
<1>2. QED
  BY <1>1, RowTypes DEF TypeInv, LedgerOK, RowsStay

-----------------------------------------------------------------------------
\* A handler that has appended nothing yet goes on with the statement next and
\* the locals f.
LEMMA PlainStep ==
  ASSUME NEW p \in Procs, NEW next \in Pcs, NEW f \in CallFrames, TypeInv,
         pc[p] \notin AppendPcs, next # "insert",
         RowsInv(VersionsOf)', RowsStay(VersionsOf), LocksKept(p),
         pc' = [pc EXCEPT ![p] = next], frame' = [frame EXCEPT ![p] = f],
         todo' \in [Procs -> Seq(AppendsOf(Events))],
         next \in {"append", "makeState", "checkinState", "vipState"} => todo'[p] # <<>>,
         \A q \in Procs \ {p} : todo'[q] = todo[q] /\ bal'[q] = bal[q],
         bal' \in [Procs -> Int], held' \in [Procs -> SUBSET RowsOf(Events)],
         UNCHANGED <<ledger, open, clockVars, calls>>,
         next \in DayPcs => f.day \in Days,
         next \in VipPcs => f.days \in 1..30,
         next \in {"today", "checkinSelect", "checkinInsert", "checkinState", "vipState"}
           => db[StateRow(f.user)] \in UserStates,
         next = "vipLock" /\ bal'[p] > 0 => db[StateRow(f.user)] \in UserStates
  PROVE  TypeInv'
<1>1. f \in Frames /\ f.user \in Users
  BY Constants
<1>2. pc'[p] = next /\ frame'[p] = f
  BY DEF TypeInv, Shared
<1>3. Shared(VersionsOf, Events, Frames, Pcs)'
  BY <1>1 DEF TypeInv, Shared, clockVars
<1>4. OthersAll(p)
  BY DEF OthersAll, TypeInv, Shared
<1>5. LedgerOK'
  BY LedgerKeeps
<1>6. LocalOK(p)'
  <2>1. db[StateRow(f.user)] \in UserStates => db'[StateRow(f.user)] \in UserStates
    BY <1>1, RowTypes DEF RowsStay
  <2>2. QED
    BY <1>2, <2>1 DEF LocalOK, HasState
<1>7. OpenOK(p)'
  <2>1. open'[p] = {}
    BY DEF TypeInv, OpenOK
  <2>2. QED
    BY <1>2, <2>1 DEF OpenOK
<1>8. QED
  BY <1>3, <1>4, <1>5, <1>6, <1>7, OthersKeep

\* A SELECT.
LEMMA ReadStep ==
  ASSUME NEW p \in Procs, TypeInv, UNCHANGED rowVars
  PROVE  RowsInv(VersionsOf)' /\ RowsStay(VersionsOf) /\ LocksKept(p)
BY ReadKeepsRows, StatementsKeepLocks DEF TypeInv, Shared

\* An INSERT or UPDATE in a transaction.
LEMMA WriteStep ==
  ASSUME NEW p \in Procs, NEW k \in Keys, NEW v \in VersionsOf[k], TypeInv, WriteRow(p, k, v)
  PROVE  RowsInv(VersionsOf)' /\ RowsStay(VersionsOf) /\ LocksKept(p)
<1>1. v \in UserStates \cup {DailyRow} /\ k \in DOMAIN VersionsOf
  BY RowTypes DEF VersionsOf
<1>2. RowsInv(VersionsOf)' /\ RowsStay(VersionsOf)
  BY <1>1, WriteKeepsRows DEF TypeInv, Shared
<1>3. QED
  BY <1>1, <1>2, StatementsKeepLocks

\* A refusal, a rollback or a crash.
LEMMA GiveUpTypes ==
  ASSUME NEW p \in Procs, TypeInv, GiveUp(p)
  PROVE  TypeInv'
<1>1. "idle" \in Pcs /\ "idle" \notin AppendPcs
  BY DEF Pcs, AppendPcs
<1>2. Shared(VersionsOf, Events, Frames, Pcs)' /\ RowsStay(VersionsOf)
        /\ pc'[p] = "idle" /\ frame'[p] = NoFrame
  BY <1>1, Constants, GiveUpKeeps DEF TypeInv
<1>3. OthersAll(p) /\ open'[p] = {}
  BY DEF OthersAll, GiveUp, Return, Goto, TypeInv, Shared
<1>4. LocksKept(p)
  BY StatementsKeepLocks DEF GiveUp
<1>5. LedgerOK'
  BY <1>2, LedgerKeeps DEF GiveUp
<1>6. LocalOK(p)' /\ OpenOK(p)'
  BY <1>2, <1>3 DEF LocalOK, OpenOK, DayPcs, VipPcs
<1>7. QED
  BY <1>2, <1>3, <1>4, <1>5, <1>6, OthersKeep

\* COMMIT: the users of the rows it publishes keep, or get, their own row.
LEMMA CommitTypes ==
  ASSUME NEW p \in Procs, TypeInv, Commit(p)
  PROVE  TypeInv'
<1>1. "idle" \in Pcs /\ "idle" \notin AppendPcs
  BY DEF Pcs, AppendPcs
<1>2. Shared(VersionsOf, Events, Frames, Pcs)' /\ RowsStay(VersionsOf)
        /\ pc'[p] = "idle" /\ frame'[p] = NoFrame
  BY <1>1, Constants, CommitKeeps DEF TypeInv
<1>3. OthersAll(p) /\ open'[p] = {}
  BY DEF OthersAll, Commit, CommitLedger, Return, Goto, TypeInv, Shared
<1>4. LocksKept(p)
  BY StatementsKeepLocks DEF Commit, CommitLedger
<1>5. LedgerOK'
  <2> SUFFICES ASSUME NEW r \in ledger' PROVE db'[StateRow(r.user)] \in UserStates
    BY DEF LedgerOK
  <2>1. r \in ledger \cup open[p] /\ r.user \in Users
    BY DEF Commit, CommitLedger, TypeInv, Shared, RowsOf
  <2>2. StateRow(r.user) \in Keys /\ VersionsOf[StateRow(r.user)] = UserStates
    BY <2>1, RowTypes
  <2>3. CASE r \in ledger
    BY <1>2, <2>2, <2>3, RowTypes DEF TypeInv, LedgerOK, RowsStay
  <2>4. CASE r \in open[p]
    <3>1. SeesState(p, r.user)
      BY <2>4 DEF TypeInv, OpenOK
    <3>2. db'[StateRow(r.user)] = Sees(p, StateRow(r.user))
      BY <2>2, RowTypes DEF Commit, CommitLedger, CommitRows, TypeInv, Shared, RowsInv
    <3>3. QED
      BY <3>1, <3>2 DEF SeesState
  <2>5. QED
    BY <2>1, <2>3, <2>4
<1>6. LocalOK(p)' /\ OpenOK(p)'
  BY <1>2, <1>3 DEF LocalOK, OpenOK, DayPcs, VipPcs
<1>7. QED
  BY <1>2, <1>3, <1>4, <1>5, <1>6, OthersKeep

\* A call starts with the locals its first statement needs.
LEMMA StartTypes ==
  ASSUME NEW p \in Procs, TypeInv, Start(p)
  PROVE  TypeInv'
<1>0. PICK op \in Ops, u \in Users :
        \E n \in IF op = "redeem" THEN VipDaysAsked ELSE {0} :
          StartCall(p, Frame(op, u, n), First[op])
  BY DEF Start
<1>1. PICK n \in IF op = "redeem" THEN VipDaysAsked ELSE {0} :
        StartCall(p, Frame(op, u, n), First[op])
  BY <1>0
<1>2. PICK f, first : f = Frame(op, u, n) /\ first = First[op]
  OBVIOUS
<1>3. n \in Nat /\ (op = "redeem" => n \in 1..30)
  BY <1>1, RewardsAssumption
<1>4. f \in CallFrames /\ f.days = n
  BY <1>2, <1>3 DEF Frame, CallFrames, Frames, NoFrame
<1>5. op \in {"signup", "checkin", "engage", "redeem", "dashboard"}
  BY RewardsAssumption
<1>6. first \in {"signupCheck", "vipCap", "ensure"} /\ (first = "vipCap" => op = "redeem")
  BY <1>2, <1>5 DEF First
<1>7. first \in Pcs
  BY <1>6 DEF Pcs
<1>8. /\ pc[p] = "idle"
      /\ pc' = [pc EXCEPT ![p] = first] /\ frame' = [frame EXCEPT ![p] = f]
      /\ UNCHANGED <<rowVars, ledgerVars, todo, bal, clockVars>> /\ calls' = calls + 1
  BY <1>1, <1>2 DEF StartCall, Goto
<1>9. Shared(VersionsOf, Events, Frames, Pcs)' /\ RowsStay(VersionsOf)
        /\ pc'[p] = first /\ frame'[p] = f
  <2>1. f \in Frames /\ first \notin {"append", "insert", "makeState"}
    BY <1>4, <1>6, Constants
  <2>2. QED
    <3>1. StartCall(p, f, first) /\ Shared(VersionsOf, Events, Frames, Pcs)
      BY <1>1, <1>2 DEF TypeInv
    <3>2. QED
      BY <1>7, <2>1, <3>1, StartKeeps
<1>10. OthersAll(p) /\ LocksKept(p) /\ LedgerOK'
  <2>1. OthersAll(p)
    BY <1>8 DEF OthersAll, TypeInv, Shared, ledgerVars
  <2>2. QED
    BY <1>8, <1>9, <2>1, ReadStep, LedgerKeeps DEF ledgerVars
<1>11. LocalOK(p)'
  <2>1. first \notin DayPcs /\ (first \in VipPcs => f.days \in 1..30)
    BY <1>3, <1>4, <1>6 DEF DayPcs, VipPcs
  <2>2. QED
    BY <1>4, <1>6, <1>9, <2>1 DEF LocalOK
<1>12. OpenOK(p)'
  BY <1>6, <1>8, <1>9 DEF TypeInv, OpenOK, AppendPcs, ledgerVars
<1>13. QED
  BY <1>9, <1>10, <1>11, <1>12, OthersKeep

-----------------------------------------------------------------------------
\* What every statement of a call that has appended nothing may use.
LEMMA CallFacts ==
  ASSUME NEW p \in Procs, TypeInv, pc[p] \in Pcs \ (AppendPcs \cup {"idle"})
  PROVE  /\ Shared(VersionsOf, Events, Frames, Pcs) /\ LocalOK(p)
         /\ frame[p] \in CallFrames /\ frame[p].user \in Users
         /\ StateRow(frame[p].user) \in Keys
         /\ frame = [frame EXCEPT ![p] = frame[p]]
<1>1. Shared(VersionsOf, Events, Frames, Pcs) /\ LocalOK(p)
  BY DEF TypeInv
<1>2. frame[p] \in CallFrames /\ frame[p].user \in Users
  BY <1>1, Constants DEF LocalOK
<1>3. QED
  BY <1>1, <1>2, RowTypes DEF Shared

\* tryGrantManualSignupBonus
LEMMA SignupTypes ==
  ASSUME NEW p \in Procs, TypeInv, SignupCheck(p)
  PROVE  TypeInv'
<1>1. CASE GiveUp(p)
  BY <1>1, GiveUpTypes
<1>2. CASE ~GiveUp(p)
  <2>1. pc[p] = "signupCheck" /\ pc[p] \in Pcs \ (AppendPcs \cup {"idle"}) /\ "append" \in Pcs
    BY DEF SignupCheck, Pcs, AppendPcs
  <2>2. /\ Shared(VersionsOf, Events, Frames, Pcs) /\ frame[p] \in CallFrames
        /\ frame[p].user \in Users /\ frame = [frame EXCEPT ![p] = frame[p]]
    BY <2>1, CallFacts
  <2>3. PICK list :
          list = <<Append1(frame[p].user, "SIGNUP_BONUS", SignupPoints, FALSE)>>
    OBVIOUS
  <2>4. list \in Seq(AppendsOf(Events)) /\ list # <<>>
    BY <2>2, <2>3, RewardsAssumption DEF Append1, AppendsOf, Events
  <2>5. /\ todo' = [todo EXCEPT ![p] = list] /\ pc' = [pc EXCEPT ![p] = "append"]
        /\ UNCHANGED <<rowVars, ledgerVars, frame, bal, clockVars, calls>>
    BY <1>2, <2>3 DEF SignupCheck, Goto
  <2>6. /\ todo' \in [Procs -> Seq(AppendsOf(Events))] /\ todo'[p] # <<>>
        /\ bal' \in [Procs -> Int] /\ held' \in [Procs -> SUBSET RowsOf(Events)]
        /\ \A q \in Procs \ {p} : todo'[q] = todo[q] /\ bal'[q] = bal[q]
        /\ UNCHANGED <<ledger, open, clockVars, calls>>
    BY <2>2, <2>4, <2>5 DEF Shared, ledgerVars
  <2>7. frame' = [frame EXCEPT ![p] = frame[p]]
    BY <2>2, <2>5
  <2>8. RowsInv(VersionsOf)' /\ RowsStay(VersionsOf) /\ LocksKept(p)
    BY <2>5, ReadStep
  <2>9. pc[p] \notin AppendPcs /\ "append" \notin DayPcs /\ "append" \notin VipPcs
    BY <2>1 DEF DayPcs, VipPcs
  <2>10. QED
    BY <2>1, <2>2, <2>5, <2>6, <2>7, <2>8, <2>9, PlainStep
<1>3. QED
  BY <1>1, <1>2

\* ensureManualUserState of the check-in, the engagement and the dashboard.
LEMMA EnsureTypes ==
  ASSUME NEW p \in Procs, TypeInv,
         EnsureFound(p) \/ EnsureMissing(p) \/ EnsureInsert(p, AfterEnsure(p)), ~GiveUp(p)
  PROVE  TypeInv'
<1> DEFINE k == StateRow(frame[p].user)
<1>1. pc[p] \in {"ensure", "ensureInsert"} /\ pc[p] \in Pcs \ (AppendPcs \cup {"idle"})
  BY DEF EnsureFound, EnsureMissing, EnsureInsert, Pcs, AppendPcs
<1>2. /\ Shared(VersionsOf, Events, Frames, Pcs) /\ frame[p] \in CallFrames
      /\ frame[p].user \in Users /\ frame = [frame EXCEPT ![p] = frame[p]] /\ k \in Keys
  BY <1>1, CallFacts
<1>3. PICK after \in {"answer", "today"} : after = AfterEnsure(p)
  BY DEF AfterEnsure
<1>4. {"ensureInsert", "answer", "today"} \subseteq Pcs
        /\ {"ensureInsert", "answer", "today"} \cap (DayPcs \cup VipPcs) = {}
  BY DEF Pcs, DayPcs, VipPcs
<1>5. VersionsOf[k] = UserStates /\ db[k] \in UserStates \cup {NoRow}
  BY <1>2, RowTypes DEF Shared, RowsInv
<1>6. /\ todo' \in [Procs -> Seq(AppendsOf(Events))]
      /\ bal' \in [Procs -> Int] /\ held' \in [Procs -> SUBSET RowsOf(Events)]
      /\ \A q \in Procs \ {p} : todo'[q] = todo[q] /\ bal'[q] = bal[q]
      /\ UNCHANGED <<ledger, open, clockVars, calls>>
  BY <1>2 DEF Shared, EnsureFound, EnsureMissing, EnsureInsert, ledgerVars
<1>7. CASE EnsureFound(p)
  <2>1. db[k] \in UserStates
    BY <1>5, <1>7 DEF EnsureFound
  <2>2. PICK f : f = [frame[p] EXCEPT !.lastDay = db[k].lastDay, !.streak = db[k].streak]
    OBVIOUS
  <2>3. f \in CallFrames /\ f.user = frame[p].user
    BY <1>2, <2>1, <2>2 DEF CallFrames, Frames, NoFrame, UserStates
  <2>4. frame' = [frame EXCEPT ![p] = f] /\ pc' = [pc EXCEPT ![p] = after]
    BY <1>2, <1>3, <1>7, <2>2 DEF EnsureFound, Goto, Shared
  <2>5. RowsInv(VersionsOf)' /\ RowsStay(VersionsOf) /\ LocksKept(p)
    BY <1>7, ReadStep DEF EnsureFound
  <2>6. QED
    BY <1>1, <1>4, <1>6, <2>1, <2>3, <2>4, <2>5, PlainStep
<1>8. CASE EnsureMissing(p)
  <2>1. pc' = [pc EXCEPT ![p] = "ensureInsert"] /\ frame' = [frame EXCEPT ![p] = frame[p]]
    BY <1>2, <1>8 DEF EnsureMissing, Goto
  <2>2. RowsInv(VersionsOf)' /\ RowsStay(VersionsOf) /\ LocksKept(p)
    BY <1>8, ReadStep DEF EnsureMissing
  <2>3. QED
    BY <1>1, <1>2, <1>4, <1>6, <2>1, <2>2, PlainStep
<1>9. CASE EnsureInsert(p, AfterEnsure(p))
  <2>1. /\ AutocommitRow(k, FreshState)
        /\ pc' = [pc EXCEPT ![p] = after] /\ frame' = [frame EXCEPT ![p] = frame[p]]
    BY <1>2, <1>3, <1>9 DEF EnsureInsert, Goto
  <2>2. RowsInv(VersionsOf)' /\ RowsStay(VersionsOf)
    BY <1>2, <1>5, <2>1, Constants, RowTypes, AutocommitKeepsRows DEF Shared
  <2>3. LocksKept(p)
    BY <1>2, <2>1, Constants, StatementsKeepLocks
  <2>4. Shared(VersionsOf, Events, Frames, Pcs)'
    BY <1>2, <1>3, <1>4, <1>6, <2>1, <2>2, Constants DEF Shared, clockVars
  <2>5. OthersAll(p) /\ LedgerOK'
    BY <1>2, <1>6, <2>1, <2>2, LedgerKeeps DEF OthersAll, Shared
  <2>6. pc'[p] = after /\ frame'[p] = frame[p] /\ db'[k] \in UserStates /\ open'[p] = {}
    BY <1>1, <1>2, <1>6, <2>1, Constants, RowTypes
    DEF Shared, RowsInv, AutocommitRow, TypeInv, OpenOK
  <2>7. LocalOK(p)' /\ OpenOK(p)'
    BY <1>2, <1>4, <2>6 DEF LocalOK, OpenOK, HasState
  <2>8. QED
    BY <2>2, <2>3, <2>4, <2>5, <2>7, OthersKeep
<1>10. QED
  BY <1>7, <1>8, <1>9

\* The UTC day and the streak are worked out.
LEMMA TodayTypes ==
  ASSUME NEW p \in Procs, TypeInv, Today(p)
  PROVE  TypeInv'
<1>1. pc[p] = "today" /\ pc[p] \in Pcs \ (AppendPcs \cup {"idle"})
  BY DEF Today, Pcs, AppendPcs
<1>2. /\ Shared(VersionsOf, Events, Frames, Pcs) /\ frame[p] \in CallFrames
      /\ frame[p].user \in Users /\ frame[p].streak \in Nat /\ LocalOK(p)
  BY <1>1, CallFacts, Constants
<1>3. PICK n \in Nat : n = IF frame[p].lastDay = day - 1 THEN frame[p].streak + 1 ELSE 1
  BY <1>2
<1>4. PICK f : f = [frame[p] EXCEPT !.day = day, !.streak = n]
  OBVIOUS
<1>5. f \in CallFrames /\ f.user = frame[p].user /\ f.day \in Days
  BY <1>2, <1>4 DEF CallFrames, Frames, NoFrame, Shared, Days
<1>6. PICK next \in {"checkinSelect", "engageSelect"} : pc' = [pc EXCEPT ![p] = next]
  BY DEF Today, Goto
<1>7. frame' = [frame EXCEPT ![p] = f]
  BY <1>2, <1>3, <1>4 DEF Today, Shared
<1>8. /\ todo' \in [Procs -> Seq(AppendsOf(Events))]
      /\ bal' \in [Procs -> Int] /\ held' \in [Procs -> SUBSET RowsOf(Events)]
      /\ \A q \in Procs \ {p} : todo'[q] = todo[q] /\ bal'[q] = bal[q]
      /\ UNCHANGED <<ledger, open, clockVars, calls>>
  BY <1>2 DEF Shared, Today, ledgerVars
<1>9. RowsInv(VersionsOf)' /\ RowsStay(VersionsOf) /\ LocksKept(p)
  BY ReadStep DEF Today
<1>10. next \in Pcs /\ next \notin VipPcs /\ db[StateRow(f.user)] \in UserStates
  BY <1>1, <1>2, <1>5 DEF Pcs, VipPcs, LocalOK, HasState
<1>11. QED
  BY <1>1, <1>5, <1>6, <1>7, <1>8, <1>9, <1>10, PlainStep

\* The row of the day: looked for, then inserted.
LEMMA DailySelectTypes ==
  ASSUME NEW p \in Procs, TypeInv, ~GiveUp(p), CheckinSelect(p) \/ EngageSelect(p)
  PROVE  TypeInv'
<1>1. PICK next \in {"checkinInsert", "engageInsert"} :
        /\ pc' = [pc EXCEPT ![p] = next]
        /\ UNCHANGED <<rowVars, ledgerVars, frame, todo, bal, clockVars, calls>>
        /\ pc[p] \in {"checkinSelect", "engageSelect"}
        /\ next = "checkinInsert" => pc[p] = "checkinSelect"
  BY DEF CheckinSelect, EngageSelect, DailySelect, Goto
<1>2. pc[p] \in Pcs \ (AppendPcs \cup {"idle"})
  BY <1>1 DEF Pcs, AppendPcs
<1>3. /\ Shared(VersionsOf, Events, Frames, Pcs) /\ LocalOK(p) /\ frame[p] \in CallFrames
      /\ frame = [frame EXCEPT ![p] = frame[p]]
  BY <1>2, CallFacts
<1>4. /\ todo' \in [Procs -> Seq(AppendsOf(Events))]
      /\ bal' \in [Procs -> Int] /\ held' \in [Procs -> SUBSET RowsOf(Events)]
      /\ \A q \in Procs \ {p} : todo'[q] = todo[q] /\ bal'[q] = bal[q]
      /\ UNCHANGED <<ledger, open, clockVars, calls>>
  BY <1>1, <1>3 DEF Shared, ledgerVars
<1>5. RowsInv(VersionsOf)' /\ RowsStay(VersionsOf) /\ LocksKept(p)
  BY <1>1, ReadStep
<1>6. /\ next \in Pcs /\ next \notin VipPcs /\ frame[p].day \in Days
      /\ next = "checkinInsert" => db[StateRow(frame[p].user)] \in UserStates
  BY <1>1, <1>3 DEF Pcs, VipPcs, DayPcs, LocalOK, HasState
<1>7. frame' = [frame EXCEPT ![p] = frame[p]]
  BY <1>1, <1>3
<1>8. QED
  BY <1>1, <1>2, <1>3, <1>4, <1>5, <1>6, <1>7, PlainStep

\* Whatever the streak, a check-in has something to append.
LEMMA CheckinAppendsTypes ==
  ASSUME NEW u \in Users, NEW streak \in Nat
  PROVE  CheckinAppends(u, streak) \in Seq(AppendsOf(Events)) \ {<<>>}
<1>1. PICK a : a = Append1(u, "CHECKIN_DAILY", CheckinPoints, FALSE)
  OBVIOUS
<1>2. PICK b : b = Append1(u, "CHECKIN_STREAK_7", StreakShortPoints, TRUE)
  OBVIOUS
<1>3. PICK c : c = Append1(u, "CHECKIN_STREAK_30", StreakLongPoints, TRUE)
  OBVIOUS
<1>4. a \in AppendsOf(Events) /\ b \in AppendsOf(Events) /\ c \in AppendsOf(Events)
  BY <1>1, <1>2, <1>3, RewardsAssumption DEF Append1, AppendsOf, Events
<1>5. PICK s, t \in Seq(AppendsOf(Events)) :
        CheckinAppends(u, streak) = (<<a>> \o s) \o t
  <2>1. PICK s : s = IF streak % StreakShort = 0 THEN <<b>> ELSE <<>>
    OBVIOUS
  <2>2. PICK t : t = IF streak % StreakLong = 0 THEN <<c>> ELSE <<>>
    OBVIOUS
  <2>3. <<b>> \in Seq(AppendsOf(Events)) /\ <<c>> \in Seq(AppendsOf(Events))
          /\ <<>> \in Seq(AppendsOf(Events))
    BY <1>4
  <2>4. s \in Seq(AppendsOf(Events)) /\ t \in Seq(AppendsOf(Events))
    BY <2>1, <2>2, <2>3
  <2>5. CheckinAppends(u, streak) = (<<a>> \o s) \o t
    BY <1>1, <1>2, <1>3, <2>1, <2>2 DEF CheckinAppends
  <2>6. QED
    BY <2>4, <2>5
<1>6. <<a>> \in Seq(AppendsOf(Events)) /\ Len(<<a>>) = 1
  BY <1>4
<1>7. <<a>> \o s \in Seq(AppendsOf(Events)) /\ Len(<<a>> \o s) = 1 + Len(s)
  BY <1>5, <1>6, ConcatProperties
<1>8. /\ (<<a>> \o s) \o t \in Seq(AppendsOf(Events))
      /\ Len((<<a>> \o s) \o t) = 1 + Len(s) + Len(t)
  BY <1>5, <1>7, ConcatProperties
<1>9. Len(s) \in Nat /\ Len(t) \in Nat
  BY <1>5
<1>10. (<<a>> \o s) \o t # <<>>
  BY <1>8, <1>9, EmptySeq
<1>11. QED
  BY <1>5, <1>8, <1>10

\* The INSERT of the day's row, with the appends that pay for it.
LEMMA DailyInsertTypes ==
  ASSUME NEW p \in Procs, TypeInv, ~GiveUp(p), CheckinInsert(p) \/ EngageInsert(p)
  PROVE  TypeInv'
<1>1. pc[p] \in {"checkinInsert", "engageInsert"}
        /\ pc[p] \in Pcs \ (AppendPcs \cup {"idle"})
  BY DEF CheckinInsert, EngageInsert, DailyInsert, Pcs, AppendPcs
<1>2. /\ Shared(VersionsOf, Events, Frames, Pcs) /\ LocalOK(p) /\ frame[p] \in CallFrames
      /\ frame[p].user \in Users /\ frame = [frame EXCEPT ![p] = frame[p]]
  BY <1>1, CallFacts
<1>3. frame[p].day \in Days /\ frame[p].streak \in Nat
  BY <1>1, <1>2, Constants DEF LocalOK, DayPcs
<1>4. PICK k \in Keys, list \in Seq(AppendsOf(Events)) \ {<<>>}, next \in {"checkinState", "append"} :
        /\ WriteRow(p, k, DailyRow) /\ VersionsOf[k] = {DailyRow}
        /\ todo' = [todo EXCEPT ![p] = list] /\ pc' = [pc EXCEPT ![p] = next]
        /\ next = "checkinState" => pc[p] = "checkinInsert"
        /\ UNCHANGED <<ledgerVars, frame, bal, clockVars, calls>>
  <2>1. CASE CheckinInsert(p)
    <3>1. PICK list : list = CheckinAppends(frame[p].user, frame[p].streak)
      OBVIOUS
    <3>2. list \in Seq(AppendsOf(Events)) \ {<<>>}
      BY <1>2, <1>3, <3>1, CheckinAppendsTypes
    <3>3. QED
      BY <1>2, <1>3, <2>1, <3>1, <3>2, RowTypes DEF CheckinInsert, DailyInsert, InsertRow, Goto
  <2>2. CASE EngageInsert(p)
    <3>1. PICK list :
            list = <<Append1(frame[p].user, "ENGAGEMENT_SIGNAL", EngagementPoints, FALSE)>>
      OBVIOUS
    <3>2. list \in Seq(AppendsOf(Events)) /\ list # <<>>
      BY <1>2, <3>1, RewardsAssumption DEF Append1, AppendsOf, Events
    <3>3. QED
      BY <1>2, <1>3, <2>2, <3>1, <3>2, RowTypes DEF EngageInsert, DailyInsert, InsertRow, Goto
  <2>3. QED
    BY <2>1, <2>2
<1>5. /\ todo' \in [Procs -> Seq(AppendsOf(Events))] /\ todo'[p] # <<>>
      /\ bal' \in [Procs -> Int] /\ held' \in [Procs -> SUBSET RowsOf(Events)]
      /\ \A q \in Procs \ {p} : todo'[q] = todo[q] /\ bal'[q] = bal[q]
      /\ UNCHANGED <<ledger, open, clockVars, calls>>
  BY <1>2, <1>4 DEF Shared, ledgerVars
<1>6. RowsInv(VersionsOf)' /\ RowsStay(VersionsOf) /\ LocksKept(p)
  BY <1>4, WriteStep
<1>7. /\ next \in Pcs /\ next \notin VipPcs
      /\ next = "checkinState" => db[StateRow(frame[p].user)] \in UserStates
  BY <1>2, <1>4 DEF Pcs, VipPcs, LocalOK, HasState
<1>8. frame' = [frame EXCEPT ![p] = frame[p]]
  BY <1>2, <1>4
<1>9. QED
  BY <1>1, <1>2, <1>3, <1>4, <1>5, <1>6, <1>7, <1>8, PlainStep

\* The UPDATE of the user's row by a check-in or a redemption.
LEMMA StateTypes ==
  ASSUME NEW p \in Procs, TypeInv, CheckinState(p) \/ VipState(p)
  PROVE  TypeInv'
<1> DEFINE k == StateRow(frame[p].user)
<1>1. pc[p] \in {"checkinState", "vipState"} /\ pc[p] \in Pcs \ (AppendPcs \cup {"idle"})
  BY DEF CheckinState, VipState, Pcs, AppendPcs
<1>2. /\ Shared(VersionsOf, Events, Frames, Pcs) /\ LocalOK(p) /\ frame[p] \in CallFrames
      /\ frame[p].user \in Users /\ frame = [frame EXCEPT ![p] = frame[p]] /\ k \in Keys
  BY <1>1, CallFacts
<1>3. VersionsOf[k] = UserStates /\ k \in DOMAIN VersionsOf
  BY <1>2, RowTypes
<1>4. Sees(p, k) \in UserStates
  <2>1. db[k] \in UserStates
    BY <1>1, <1>2 DEF LocalOK, HasState
  <2>2. new[k] \in UserStates
    BY <1>2, <1>3, <2>1 DEF Shared, RowsInv
  <2>3. QED
    BY <2>1, <2>2 DEF Sees
<1>5. PICK v \in UserStates : WriteRow(p, k, v)
  <2>1. CASE CheckinState(p)
    <3>1. PICK v : v = [Sees(p, k) EXCEPT !.lastDay = frame[p].day, !.streak = frame[p].streak]
      OBVIOUS
    <3>2. pc[p] = "checkinState"
      BY <2>1 DEF CheckinState
    <3>3. frame[p].day \in Days /\ frame[p].streak \in Nat
      BY <1>2, <3>2, Constants DEF LocalOK, DayPcs, CheckinState
    <3>4. v \in UserStates
      BY <1>4, <3>1, <3>3 DEF UserStates
    <3>5. QED
      BY <2>1, <3>1, <3>4 DEF CheckinState
  <2>2. CASE VipState(p)
    <3>1. PICK v : v = [Sees(p, k) EXCEPT !.vip = @ + frame[p].days]
      OBVIOUS
    <3>2. frame[p].days \in Nat
      BY <1>2, Constants
    <3>3. v \in UserStates
      BY <1>4, <3>1, <3>2 DEF UserStates
    <3>4. QED
      BY <2>2, <3>1, <3>3 DEF VipState
  <2>3. QED
    BY <2>1, <2>2
<1>6. /\ pc' = [pc EXCEPT ![p] = "append"]
      /\ UNCHANGED <<ledgerVars, frame, todo, bal, clockVars, calls>>
  BY DEF CheckinState, VipState, Goto
<1>7. RowsInv(VersionsOf)' /\ RowsStay(VersionsOf) /\ LocksKept(p)
  BY <1>2, <1>3, <1>5, WriteStep
<1>8. /\ todo' \in [Procs -> Seq(AppendsOf(Events))] /\ todo'[p] # <<>>
      /\ bal' \in [Procs -> Int] /\ held' \in [Procs -> SUBSET RowsOf(Events)]
      /\ \A q \in Procs \ {p} : todo'[q] = todo[q] /\ bal'[q] = bal[q]
      /\ UNCHANGED <<ledger, open, clockVars, calls>>
  BY <1>1, <1>2, <1>6 DEF Shared, LocalOK, ledgerVars
<1>9. "append" \in Pcs /\ "append" \notin DayPcs /\ "append" \notin VipPcs
  BY DEF Pcs, DayPcs, VipPcs
<1>10. frame' = [frame EXCEPT ![p] = frame[p]]
  BY <1>2, <1>6
<1>11. QED
  BY <1>1, <1>2, <1>6, <1>7, <1>8, <1>9, <1>10, PlainStep

\* The month's redemptions are counted, then the last ledger row is picked.
LEMMA VipReadTypes ==
  ASSUME NEW p \in Procs, TypeInv, ~GiveUp(p), VipCap(p) \/ VipPick(p)
  PROVE  TypeInv'
<1>1. pc[p] \in {"vipCap", "vipPick"} /\ pc[p] \in Pcs \ (AppendPcs \cup {"idle"})
        /\ pc[p] \in VipPcs
  BY DEF VipCap, VipPick, Pcs, AppendPcs, VipPcs
<1>2. /\ Shared(VersionsOf, Events, Frames, Pcs) /\ LocalOK(p) /\ frame[p] \in CallFrames
      /\ frame[p].user \in Users /\ frame = [frame EXCEPT ![p] = frame[p]]
  BY <1>1, CallFacts
<1>3. frame[p].days \in 1..30
  BY <1>1, <1>2 DEF LocalOK
<1>4. UNCHANGED <<rowVars, ledgerVars, todo, clockVars, calls>>
  BY DEF VipCap, VipPick, PickLastRow
<1>5. RowsInv(VersionsOf)' /\ RowsStay(VersionsOf) /\ LocksKept(p)
  BY <1>4, ReadStep
<1>6. /\ todo' \in [Procs -> Seq(AppendsOf(Events))]
      /\ held' \in [Procs -> SUBSET RowsOf(Events)]
      /\ \A q \in Procs \ {p} : todo'[q] = todo[q]
      /\ UNCHANGED <<ledger, open, clockVars, calls>>
  BY <1>2, <1>4 DEF Shared, ledgerVars
<1>7. {"vipPick", "vipLock"} \subseteq Pcs /\ {"vipPick", "vipLock"} \cap DayPcs = {}
  BY DEF Pcs, DayPcs
<1>8. CASE VipCap(p)
  <2>1. /\ pc' = [pc EXCEPT ![p] = "vipPick"] /\ frame' = [frame EXCEPT ![p] = frame[p]]
        /\ bal' = bal
    BY <1>2, <1>8 DEF VipCap, Goto
  <2>2. bal' \in [Procs -> Int] /\ \A q \in Procs \ {p} : bal'[q] = bal[q]
    BY <1>2, <2>1 DEF Shared
  <2>3. QED
    BY <1>1, <1>2, <1>3, <1>5, <1>6, <1>7, <2>1, <2>2, PlainStep
<1>9. CASE VipPick(p)
  <2>1. Visible(p) = ledger
    BY <1>1 DEF Visible, TypeInv, OpenOK
  <2>2. PICK row, b :
          /\ frame' = [frame EXCEPT ![p].row = row] /\ bal' = [bal EXCEPT ![p] = b]
          /\ \/ row = NoRow /\ b = 0
             \/ row \in LastRows(ledger, frame[p].user) /\ b = row.balance
    BY <1>9, <2>1 DEF VipPick, PickLastRow
  <2>3. row \in Rows \cup {NoRow} /\ b \in Int
    BY <1>2, <2>2 DEF LastRows, Shared, RowsOf, Rows, Days
  <2>4. b > 0 => db[StateRow(frame[p].user)] \in UserStates
    BY <2>2 DEF LastRows, TypeInv, LedgerOK
  <2>5. PICK f : f = [frame[p] EXCEPT !.row = row]
    OBVIOUS
  <2>6. f \in CallFrames /\ f.user = frame[p].user /\ f.days = frame[p].days
    BY <1>2, <2>3, <2>5 DEF CallFrames, Frames, NoFrame
  <2>7. frame' = [frame EXCEPT ![p] = f] /\ pc' = [pc EXCEPT ![p] = "vipLock"]
    BY <1>2, <1>9, <2>2, <2>5 DEF VipPick, PickLastRow, Goto, Shared
  <2>8. bal' \in [Procs -> Int] /\ bal'[p] = b /\ \A q \in Procs \ {p} : bal'[q] = bal[q]
    BY <1>2, <2>2, <2>3 DEF Shared
  <2>9. QED
    BY <1>1, <1>2, <1>3, <1>5, <1>6, <1>7, <2>4, <2>6, <2>7, <2>8, PlainStep
<1>10. QED
  BY <1>8, <1>9

\* A redemption that goes on has found a balance, so the user has a row.
LEMMA VipLockTypes ==
  ASSUME NEW p \in Procs, TypeInv, ~GiveUp(p), VipLock(p)
  PROVE  TypeInv'
<1>1. pc[p] = "vipLock" /\ pc[p] \in Pcs \ (AppendPcs \cup {"idle"}) /\ pc[p] \in VipPcs
  BY DEF VipLock, Pcs, AppendPcs, VipPcs
<1>2. /\ Shared(VersionsOf, Events, Frames, Pcs) /\ LocalOK(p) /\ frame[p] \in CallFrames
      /\ frame[p].user \in Users /\ frame = [frame EXCEPT ![p] = frame[p]]
  BY <1>1, CallFacts
<1>3. frame[p].days \in 1..30
  BY <1>1, <1>2 DEF LocalOK
<1>4. PICK cost : cost = frame[p].days * VipRedeemPoints
  OBVIOUS
<1>5. cost \in Nat /\ cost > 0
  BY <1>3, <1>4, RewardsAssumption
<1>6. PICK list : list = <<Append1(frame[p].user, "VIP_REDEEM", -cost, TRUE)>>
  OBVIOUS
<1>7. list \in Seq(AppendsOf(Events)) /\ list # <<>>
  BY <1>2, <1>5, <1>6 DEF Append1, AppendsOf, Events
<1>8. /\ bal[p] >= cost /\ HoldLastRow(p)
      /\ todo' = [todo EXCEPT ![p] = list] /\ pc' = [pc EXCEPT ![p] = "vipState"]
      /\ UNCHANGED <<rowVars, ledger, open, frame, bal, clockVars, calls>>
  BY <1>4, <1>6 DEF VipLock, Goto
<1>9. held' \in [Procs -> SUBSET RowsOf(Events)]
  <2>1. frame[p].row \in RowsOf(Events) \cup {NoRow}
    BY <1>2 DEF CallFrames, Frames, NoFrame, Rows, RowsOf, Days
  <2>2. PICK rows \in SUBSET RowsOf(Events) : rows = {frame[p].row} \ {NoRow}
    BY <2>1
  <2>3. held' = [held EXCEPT ![p] = rows]
    BY <1>8, <2>2 DEF HoldLastRow
  <2>4. QED
    BY <1>2, <2>3 DEF Shared
<1>10. /\ todo' \in [Procs -> Seq(AppendsOf(Events))] /\ todo'[p] # <<>>
       /\ bal' \in [Procs -> Int]
       /\ \A q \in Procs \ {p} : todo'[q] = todo[q] /\ bal'[q] = bal[q]
       /\ UNCHANGED <<ledger, open, clockVars, calls>>
  BY <1>2, <1>7, <1>8 DEF Shared
<1>11. db[StateRow(frame[p].user)] \in UserStates
  <2>1. bal[p] \in Int
    BY <1>2 DEF Shared
  <2>2. bal[p] > 0
    BY <1>5, <1>8, <2>1
  <2>3. QED
    BY <1>1, <1>2, <2>2 DEF LocalOK, HasState
<1>12. RowsInv(VersionsOf)' /\ RowsStay(VersionsOf) /\ LocksKept(p)
  BY <1>8, ReadStep
<1>13. "vipState" \in Pcs /\ "vipState" \notin DayPcs
  BY DEF Pcs, DayPcs
<1>14. frame' = [frame EXCEPT ![p] = frame[p]]
  BY <1>2, <1>8
<1>15. QED
  BY <1>1, <1>2, <1>3, <1>8, <1>9, <1>10, <1>11, <1>12, <1>13, <1>14, PlainStep

-----------------------------------------------------------------------------
\* What the statements of appendPointsLedger may use.
LEMMA AppendFacts ==
  ASSUME NEW p \in Procs, TypeInv, pc[p] \in {"append", "insert", "makeState"}
  PROVE  /\ Shared(VersionsOf, Events, Frames, Pcs) /\ OpenOK(p)
         /\ frame[p] \in CallFrames
         /\ Head(todo[p]).user \in Users
         /\ StateRow(Head(todo[p]).user) \in Keys
         /\ VersionsOf[StateRow(Head(todo[p]).user)] = UserStates
         /\ \A r \in open[p] : StateRow(r.user) \in Keys
<1>1. Shared(VersionsOf, Events, Frames, Pcs) /\ LocalOK(p) /\ OpenOK(p)
  BY DEF TypeInv
<1>2. Head(todo[p]) \in AppendsOf(Events)
  <2>1. todo[p] \in Seq(AppendsOf(Events)) /\ todo[p] # <<>>
    BY <1>1 DEF Shared
  <2>2. QED
    BY <2>1
<1>3. Head(todo[p]).user \in Users
  BY <1>2 DEF AppendsOf
<1>4. \A r \in open[p] : r.user \in Users
  BY <1>1 DEF Shared, RowsOf
<1>5. QED
  BY <1>1, <1>3, <1>4, RowTypes DEF LocalOK

\* The row of the append's user is there before its INSERT is sent ...
LEMMA AppendReadTypes ==
  ASSUME NEW p \in Procs, TypeInv, AppendRead(p)
  PROVE  TypeInv'
<1> DEFINE k == StateRow(Head(todo[p]).user)
<1>1. pc[p] = "append" /\ "insert" \in Pcs
  BY DEF AppendRead, Pcs
<1>2. /\ Shared(VersionsOf, Events, Frames, Pcs) /\ OpenOK(p) /\ frame[p] \in CallFrames
      /\ k \in Keys /\ VersionsOf[k] = UserStates
  BY <1>1, AppendFacts
<1>3. Shared(VersionsOf, Events, Frames, Pcs)' /\ RowsStay(VersionsOf)
        /\ pc'[p] = "insert" /\ frame'[p] = frame[p]
  BY <1>1, <1>2, AppendReadKeeps
<1>4. UNCHANGED <<rowVars, ledger, open, todo>>
  BY DEF AppendRead, ledgerVars
<1>5. OthersAll(p) /\ LocksKept(p) /\ LedgerOK'
  <2>1. OthersAll(p)
    BY <1>2 DEF OthersAll, AppendRead, Goto, Shared, ledgerVars
  <2>2. QED
    BY <1>3, <1>4, <2>1, ReadStep, LedgerKeeps
<1>6. LocalOK(p)'
  BY <1>2, <1>3 DEF LocalOK, DayPcs, VipPcs
<1>7. Sees(p, k) \in UserStates
  <2>1. Sees(p, k) \in UserStates \cup {NoRow}
    BY <1>2, RowTypes DEF Sees, Shared, RowsInv
  <2>2. QED
    BY <2>1 DEF AppendRead, Exists
<1>8. OpenOK(p)'
  BY <1>2, <1>3, <1>4, <1>7 DEF OpenOK, SeesState, Sees, rowVars, AppendPcs
<1>9. QED
  BY <1>3, <1>5, <1>6, <1>8, OthersKeep

\* ... or it is made by the transaction itself.
LEMMA MakeStateTypes ==
  ASSUME NEW p \in Procs, TypeInv, ~GiveUp(p), AppendNoState(p) \/ MakeState(p)
  PROVE  TypeInv'
<1> DEFINE k == StateRow(Head(todo[p]).user)
<1>1. pc[p] \in {"append", "makeState"} /\ {"append", "makeState"} \subseteq Pcs
  BY DEF AppendNoState, MakeState, Pcs
<1>2. /\ Shared(VersionsOf, Events, Frames, Pcs) /\ OpenOK(p) /\ frame[p] \in CallFrames
      /\ k \in Keys /\ VersionsOf[k] = UserStates
      /\ \A r \in open[p] : StateRow(r.user) \in Keys
  BY <1>1, AppendFacts
<1>3. PICK next \in {"append", "makeState"} :
        /\ pc' = [pc EXCEPT ![p] = next]
        /\ UNCHANGED <<ledgerVars, frame, todo, bal, clockVars, calls>>
  BY DEF AppendNoState, MakeState, Goto
<1>4. UNCHANGED rowVars \/ WriteRow(p, k, FreshState)
  BY DEF AppendNoState, MakeState, InsertRow
<1>5. RowsInv(VersionsOf)' /\ RowsStay(VersionsOf) /\ LocksKept(p)
  BY <1>2, <1>4, Constants, ReadStep, WriteStep
<1>6. Shared(VersionsOf, Events, Frames, Pcs)' /\ pc'[p] = next /\ frame'[p] = frame[p]
  BY <1>1, <1>2, <1>3, <1>5 DEF Shared, ledgerVars, clockVars
<1>7. OthersAll(p) /\ LedgerOK'
  <2>1. OthersAll(p)
    BY <1>2, <1>3 DEF OthersAll, Shared, ledgerVars
  <2>2. QED
    BY <1>3, <1>5, <2>1, LedgerKeeps DEF ledgerVars
<1>8. LocalOK(p)'
  BY <1>2, <1>6 DEF LocalOK, DayPcs, VipPcs
<1>9. \A r \in open[p] : SeesState(p, r.user)'
  <2> SUFFICES ASSUME NEW r \in open[p] PROVE SeesState(p, r.user)'
    OBVIOUS
  <2>1. SeesState(p, r.user) /\ StateRow(r.user) \in Keys
    BY <1>2 DEF OpenOK
  <2>2. CASE UNCHANGED rowVars
    BY <2>1, <2>2 DEF SeesState, Sees, rowVars
  <2>3. CASE WriteRow(p, k, FreshState)
    <3>1. DOMAIN new = Keys /\ DOMAIN owner = Keys
      BY <1>2, RowTypes DEF Shared, RowsInv
    <3>2. QED
      BY <2>1, <2>3, <3>1, Constants DEF SeesState, Sees, WriteRow
  <2>4. QED
    BY <1>4, <2>2, <2>3
<1>10. OpenOK(p)'
  BY <1>3, <1>6, <1>9 DEF OpenOK, SeesState, AppendPcs, ledgerVars
<1>11. QED
  BY <1>5, <1>6, <1>7, <1>8, <1>10, OthersKeep

\* The INSERT of the ledger row.
LEMMA AppendInsertTypes ==
  ASSUME NEW p \in Procs, TypeInv, AppendInsert(p, "commit")
  PROVE  TypeInv'
<1> DEFINE a == Head(todo[p])
<1>1. pc[p] = "insert" /\ {"append", "commit"} \subseteq Pcs
  BY DEF AppendInsert, Pcs
<1>2. /\ Shared(VersionsOf, Events, Frames, Pcs) /\ OpenOK(p) /\ frame[p] \in CallFrames
      /\ SeesState(p, a.user)
  BY <1>1, AppendFacts DEF OpenOK
<1>3. PICK done \in Pcs : done = "commit" /\ done \notin {"append", "insert", "makeState"}
  BY <1>1
<1>4. Shared(VersionsOf, Events, Frames, Pcs)' /\ RowsStay(VersionsOf)
        /\ pc'[p] \in {done, "append"} /\ frame'[p] = frame[p]
  <2>1. AppendInsert(p, done) /\ "append" \in Pcs
    BY <1>1, <1>3
  <2>2. QED
    BY <1>2, <1>3, <2>1, AppendInsertKeeps
<1>5. UNCHANGED <<rowVars, ledger>>
  BY DEF AppendInsert
<1>6. PICK row : row.user = a.user /\ open' = [open EXCEPT ![p] = @ \cup {row}]
  <2>1. PICK stamp :
          open' = [open EXCEPT ![p] = @ \cup
            {[id |-> inserted + 1, user |-> a.user, event |-> a.event,
              delta |-> a.delta, balance |-> bal[p] + a.delta, ts |-> stamp, day |-> day]}]
    BY DEF AppendInsert
  <2>2. QED
    BY <2>1
<1>7. OthersAll(p) /\ LocksKept(p) /\ LedgerOK'
  <2>1. OthersAll(p)
    BY <1>2, <1>6 DEF OthersAll, AppendInsert, Goto, Shared
  <2>2. QED
    BY <1>4, <1>5, <2>1, ReadStep, LedgerKeeps
<1>8. LocalOK(p)'
  BY <1>2, <1>3, <1>4 DEF LocalOK, DayPcs, VipPcs
<1>9. \A r \in open'[p] : SeesState(p, r.user)'
  <2>1. open'[p] = open[p] \cup {row}
    BY <1>2, <1>6 DEF Shared
  <2>2. QED
    BY <1>2, <1>5, <1>6, <2>1 DEF OpenOK, SeesState, Sees, rowVars
<1>10. OpenOK(p)'
  BY <1>3, <1>4, <1>9 DEF OpenOK, SeesState, AppendPcs
<1>11. QED
  BY <1>4, <1>7, <1>8, <1>10, OthersKeep

-----------------------------------------------------------------------------
\* Nobody has touched the points service yet.
LEMMA InitTypes == Init => TypeInv
<1> SUFFICES ASSUME Init PROVE TypeInv
  OBVIOUS
<1>1. /\ pc = [p \in Procs |-> "idle"] /\ frame = [p \in Procs |-> NoFrame]
      /\ open = [p \in Procs |-> {}] /\ held = [p \in Procs |-> {}]
      /\ todo = [p \in Procs |-> <<>>] /\ bal = [p \in Procs |-> 0] /\ ledger = {}
      /\ inserted = 0 /\ ms = 0 /\ day = 1 /\ calls = 0
  BY DEF Init, LedgerInit
<1>2. RowsInv(VersionsOf)
  BY RowTypes DEF RowsInv, Init, LedgerInit, RowsInit
<1>3. "idle" \in Pcs /\ 1 \in 1..MaxDay /\ <<>> \in Seq(AppendsOf(Events))
  BY LedgerAssumption DEF Pcs
<1>4. Shared(VersionsOf, Events, Frames, Pcs)
  BY <1>1, <1>2, <1>3, Constants DEF Shared
<1>5. LedgerOK /\ \A p \in Procs : LocalOK(p) /\ OpenOK(p)
  BY <1>1 DEF LedgerOK, LocalOK, OpenOK, AppendPcs, DayPcs, VipPcs
<1>6. QED
  BY <1>4, <1>5 DEF TypeInv

\* No step of any instance disturbs the types.
LEMMA TypesStay == TypeInv /\ [Next]_vars => TypeInv'
<1> SUFFICES ASSUME TypeInv, [Next]_vars PROVE TypeInv'
  OBVIOUS
<1>1. ASSUME NEW p \in Procs, Start(p) PROVE TypeInv'
  BY <1>1, StartTypes
<1>2. ASSUME NEW p \in Procs, Step(p) PROVE TypeInv'
  <2>1. CASE GiveUp(p)
    BY <2>1, GiveUpTypes
  <2>2. CASE ~GiveUp(p)
    <3>1. ~Answer(p) /\ ~AppendDuplicate(p)
      BY <2>2 DEF Answer, AppendDuplicate
    <3>2. QED
      BY <1>2, <2>2, <3>1, SignupTypes, EnsureTypes, TodayTypes, DailySelectTypes,
         DailyInsertTypes, StateTypes, VipReadTypes, VipLockTypes, AppendReadTypes,
         MakeStateTypes, AppendInsertTypes, CommitTypes DEF Step
  <2>3. QED
    BY <2>1, <2>2
<1>3. ASSUME NEW p \in Procs, Crash(p) PROVE TypeInv'
  BY <1>3, GiveUpTypes DEF Crash
<1>4. ASSUME Shared(VersionsOf, Events, Frames, Pcs)', RowsStay(VersionsOf),
             UNCHANGED <<rowVars, ledger, open, pc, frame, todo, bal>>
      PROVE  TypeInv'
  <2>1. ASSUME NEW p \in Procs PROVE LocalOK(p)' /\ OpenOK(p)'
    <3>1. LocalOK(p) /\ OpenOK(p)
      BY DEF TypeInv
    <3>2. QED
      BY <1>4, <3>1 DEF LocalOK, OpenOK, HasState, SeesState, Sees, rowVars
  <2>2. LedgerOK'
    BY <1>4, LedgerKeeps
  <2>3. QED
    BY <1>4, <2>1, <2>2 DEF TypeInv
<1>5. CASE NextDay
  BY <1>4, <1>5, NextDayKeeps DEF TypeInv, NextDay, ledgerVars
<1>6. CASE UNCHANGED vars
  BY <1>4, <1>6, StutterKeeps DEF TypeInv, vars, ledgerVars
<1>7. QED
  BY <1>1, <1>2, <1>3, <1>5, <1>6 DEF Next, Quiet

\* Every variable has the type of the column or of the local it stands for,
\* whichever handlers race, whichever instances die and however days pass: no
\* redemption credits days to a row that is not there, and no ledger row is of
\* a user manual_user_state does not know.
THEOREM TypesHold == Spec => []TypeOK
<1>1. TypeInv => TypeOK
  BY TypeInvImplies
<1>2. QED
  BY <1>1, InitTypes, TypesStay, PTL DEF Spec

-----------------------------------------------------------------------------
\* Payments of the day rows.  PaidOnce compares two counts of committed rows,
\* and a transaction writes its day row several statements before the ledger
\* row that pays for it; so the invariant says of every open transaction that
\* it has no day row, no payment for one and none to make, or one day row, not
\* committed by anybody else, and one payment, made or still to be made.

DailyEvents == {"CHECKIN_DAILY", "ENGAGEMENT_SIGNAL"}

DayRow(e, u, d) == IF e = "CHECKIN_DAILY" THEN CheckinRow(u, d) ELSE EngagedRow(u, d)

Done(e, u) == {d \in Days : db[DayRow(e, u, d)] # NoRow}

\* The day rows p's transaction has inserted.
Mine(p, e, u) == {d \in Days : owner[DayRow(e, u, d)] = p}

PayingPcs == AppendPcs \cup {"checkinState"}

NoDayRow(p, e, u) == Mine(p, e, u) = {} /\ OwesNone(p, e, u)

NewDay(p, e, u, d) ==
  /\ Mine(p, e, u) = {d}
  /\ db[DayRow(e, u, d)] = NoRow
  /\ new[DayRow(e, u, d)] # NoRow

OneDayRow(p, e, u) ==
  /\ pc[p] \in PayingPcs
  /\ \E d \in Days : NewDay(p, e, u, d)
  /\ OwesOne(p, e, u)

DailyOK(p) ==
  /\ pc[p] = "commit" => todo[p] = <<>>
  /\ \A e \in DailyEvents, u \in Users : NoDayRow(p, e, u) \/ OneDayRow(p, e, u)

PaidOnce(e, u) ==
  /\ IsFiniteSet(PaidRows(e, u))
  /\ Cardinality(PaidRows(e, u)) = Cardinality(Done(e, u))

DailyInv ==
  /\ TypeInv
  /\ IdsOK
  /\ \A p \in Procs : DailyOK(p)
  /\ \A e \in DailyEvents, u \in Users : PaidOnce(e, u)

\* The keys of the day rows.
LEMMA DayRowKeys ==
  /\ \A e \in DailyEvents, u \in Users, d \in Days :
       /\ DayRow(e, u, d) \in Keys
       /\ \A v \in Users : DayRow(e, u, d) # StateRow(v)
  /\ \A e, f \in DailyEvents, u, v \in Users, c, d \in Days :
       DayRow(e, u, c) = DayRow(f, v, d) => e = f /\ u = v /\ c = d
<1>1. \A u \in Users, d \in Days : CheckinRow(u, d) \in Keys /\ EngagedRow(u, d) \in Keys
  BY RowTypes
<1>2. QED
  BY <1>1 DEF DailyEvents, DayRow, CheckinRow, EngagedRow, StateRow

\* No statement of p touches the day rows ...
DayRowsKept ==
  \A e \in DailyEvents, u \in Users, d \in Days :
    LET k == DayRow(e, u, d) IN owner'[k] = owner[k] /\ new'[k] = new[k] /\ db'[k] = db[k]

\* ... or none touches those of the others.
OthersDayRowsKept(p) ==
  \A q \in Procs \ {p}, e \in DailyEvents, u \in Users, d \in Days :
    LET k == DayRow(e, u, d) IN
    /\ owner'[k] = q <=> owner[k] = q
    /\ owner[k] = q => new'[k] = new[k] /\ db'[k] = db[k]

\* A step of p does not disturb what the invariant says of the others.
LEMMA OthersDailyOK ==
  ASSUME NEW p \in Procs, DailyInv, OthersAll(p), OthersDayRowsKept(p), NEW q \in Procs, q # p
  PROVE  DailyOK(q)'
<1>1. DailyOK(q)
  BY DEF DailyInv
<1>2. pc'[q] = pc[q] /\ todo'[q] = todo[q] /\ open'[q] = open[q]
  BY DEF OthersAll
<1> SUFFICES ASSUME NEW e \in DailyEvents, NEW u \in Users
             PROVE  NoDayRow(q, e, u)' \/ OneDayRow(q, e, u)'
  BY <1>1, <1>2 DEF DailyOK
<1>3. Mine(q, e, u)' = Mine(q, e, u)
  BY DEF Mine, OthersDayRowsKept
<1>4. (OwesNone(q, e, u)' <=> OwesNone(q, e, u)) /\ (OwesOne(q, e, u)' <=> OwesOne(q, e, u))
  BY <1>2, OwesStays
<1>5. ASSUME NEW d \in Days, NewDay(q, e, u, d) PROVE NewDay(q, e, u, d)'
  <2>1. owner[DayRow(e, u, d)] = q
    BY <1>5 DEF NewDay, Mine
  <2>2. QED
    BY <1>3, <1>5, <2>1 DEF NewDay, OthersDayRowsKept
<1>6. CASE NoDayRow(q, e, u)
  BY <1>3, <1>4, <1>6 DEF NoDayRow
<1>7. CASE OneDayRow(q, e, u)
  BY <1>2, <1>3, <1>4, <1>5, <1>7 DEF OneDayRow
<1>8. QED
  BY <1>1, <1>6, <1>7 DEF DailyOK

\* The counts change with a COMMIT only.
LEMMA CountsStay ==
  ASSUME DailyInv, UNCHANGED ledger, NEW e \in DailyEvents, NEW u \in Users,
         \A d \in Days : db'[DayRow(e, u, d)] = db[DayRow(e, u, d)]
  PROVE  PaidOnce(e, u)'
<1>1. PaidRows(e, u)' = PaidRows(e, u) /\ Done(e, u)' = Done(e, u)
  BY DEF PaidRows, Done
<1>2. PaidOnce(e, u)
  BY DEF DailyInv
<1>3. QED
  BY <1>1, <1>2 DEF PaidOnce

-----------------------------------------------------------------------------
\* A statement that has nothing to do with a day row.
Neutral(p) ==
  /\ DayRowsKept
  /\ UNCHANGED <<ledger, open, inserted>>
  /\ OthersAll(p)
  /\ pc'[p] # "commit"
  /\ \/ todo'[p] = todo[p] /\ (pc[p] \in PayingPcs => pc'[p] \in PayingPcs)
     \/ /\ pc[p] \notin PayingPcs
        /\ \E a : todo'[p] = <<a>> /\ a.event \notin DailyEvents

LEMMA NeutralKeeps ==
  ASSUME NEW p \in Procs, DailyInv, TypeInv', Neutral(p)
  PROVE  DailyInv'
<1>1. IdsOK'
  BY IdsStay DEF Neutral, DailyInv, TypeInv
<1>2. OthersDayRowsKept(p)
  BY DEF Neutral, DayRowsKept, OthersDayRowsKept
<1>3. \A e \in DailyEvents, u \in Users : PaidOnce(e, u)'
  BY CountsStay DEF Neutral, DayRowsKept
<1>4. DailyOK(p)'
  <2>1. DailyOK(p)
    BY DEF DailyInv
  <2>2. open'[p] = open[p] /\ pc'[p] # "commit"
    BY DEF Neutral
  <2> SUFFICES ASSUME NEW e \in DailyEvents, NEW u \in Users
               PROVE  NoDayRow(p, e, u)' \/ OneDayRow(p, e, u)'
    BY <2>2 DEF DailyOK
  <2>3. Mine(p, e, u)' = Mine(p, e, u)
    BY DEF Mine, Neutral, DayRowsKept
  <2>4. CASE todo'[p] = todo[p] /\ (pc[p] \in PayingPcs => pc'[p] \in PayingPcs)
    <3>1. /\ OwesNone(p, e, u)' <=> OwesNone(p, e, u)
          /\ OwesOne(p, e, u)' <=> OwesOne(p, e, u)
      BY <2>2, <2>4, OwesStays
    <3>2. \A d \in Days : NewDay(p, e, u, d) => NewDay(p, e, u, d)'
      BY <2>3 DEF NewDay, Neutral, DayRowsKept
    <3>3. QED
      BY <2>1, <2>3, <2>4, <3>1, <3>2 DEF DailyOK, NoDayRow, OneDayRow
  <2>5. CASE pc[p] \notin PayingPcs /\ \E a : todo'[p] = <<a>> /\ a.event \notin DailyEvents
    <3>1. NoDayRow(p, e, u)
      BY <2>1, <2>5 DEF DailyOK, OneDayRow
    <3>2. OwesNone(p, e, u)'
      BY <2>2, <2>5, <3>1 DEF NoDayRow, OwesNone, Appended, Due
    <3>3. QED
      BY <2>3, <3>1, <3>2 DEF NoDayRow
  <2>6. QED
    BY <2>4, <2>5 DEF Neutral
<1>5. \A q \in Procs : DailyOK(q)'
  BY <1>2, <1>4, OthersDailyOK DEF Neutral
<1>6. QED
  BY <1>1, <1>3, <1>5 DEF DailyInv

\* A transaction that ends takes everything of its own with it.
LEMMA EndedDailyOK ==
  ASSUME NEW p \in Procs, pc'[p] = "idle", todo'[p] = <<>>, open'[p] = {},
         \A k \in Keys : owner'[k] # p
  PROVE  DailyOK(p)'
<1> SUFFICES ASSUME NEW e \in DailyEvents, NEW u \in Users PROVE NoDayRow(p, e, u)'
  BY DEF DailyOK
<1>1. Mine(p, e, u)' = {}
  BY DayRowKeys DEF Mine
<1>2. QED
  BY <1>1, EndedOwesNone DEF NoDayRow

\* What the end of a transaction does to the rows.
LEMMA EndedRows ==
  ASSUME NEW p \in Procs, TypeInv, CommitRows(p) \/ RollbackRows(p)
  PROVE  /\ \A k \in Keys : owner'[k] # p
         /\ \A k \in Keys : db'[k] = IF CommitRows(p) /\ owner[k] = p THEN new[k] ELSE db[k]
         /\ OthersDayRowsKept(p)
<1>1. /\ owner \in [Keys -> Procs \cup {NoProc}]
      /\ DOMAIN new = Keys /\ DOMAIN db = Keys
  BY RowTypes DEF TypeInv, Shared, RowsInv
<1>2. owner' = [k \in Keys |-> IF owner[k] = p THEN NoProc ELSE owner[k]]
  BY <1>1 DEF CommitRows, RollbackRows, Unlocked
<1>3. \A k \in Keys : owner'[k] # p /\ \A q \in Procs \ {p} : owner'[k] = q <=> owner[k] = q
  BY <1>1, <1>2, LedgerAssumption
<1>4. \A k \in Keys : owner[k] # p => new'[k] = new[k] /\ db'[k] = db[k]
  BY <1>1 DEF CommitRows, RollbackRows, Sees
<1>5. \A k \in Keys : db'[k] = IF CommitRows(p) /\ owner[k] = p THEN new[k] ELSE db[k]
  BY <1>1, <1>4 DEF CommitRows, RollbackRows, Sees
<1>6. OthersDayRowsKept(p)
  BY <1>3, <1>4, DayRowKeys DEF OthersDayRowsKept
<1>7. QED
  BY <1>3, <1>5, <1>6

LEMMA GiveUpDaily ==
  ASSUME NEW p \in Procs, DailyInv, TypeInv', GiveUp(p)
  PROVE  DailyInv'
<1>1. TypeInv /\ Shared(VersionsOf, Events, Frames, Pcs)
  BY DEF DailyInv, TypeInv
<1>2. IdsOK'
  BY <1>1, IdsStay DEF DailyInv
<1>3. RollbackRows(p) /\ UNCHANGED <<db, ledger>>
  BY DEF GiveUp, RollbackRows
<1>4. pc'[p] = "idle" /\ todo'[p] = <<>> /\ open'[p] = {} /\ OthersAll(p)
  BY <1>1 DEF OthersAll, GiveUp, Return, Goto, Shared
<1>5. \A q \in Procs : DailyOK(q)'
  BY <1>1, <1>3, <1>4, EndedRows, EndedDailyOK, OthersDailyOK
<1>6. \A e \in DailyEvents, u \in Users : PaidOnce(e, u)'
  BY <1>3, CountsStay
<1>7. QED
  BY <1>2, <1>5, <1>6 DEF DailyInv

\* COMMIT: a day row and the ledger row that pays for it are published
\* together, and neither was there before.
LEMMA CommitDaily ==
  ASSUME NEW p \in Procs, DailyInv, TypeInv', Commit(p)
  PROVE  DailyInv'
<1>1. TypeInv /\ Shared(VersionsOf, Events, Frames, Pcs) /\ IdsOK /\ DailyOK(p)
  BY DEF DailyInv, TypeInv
<1>2. IdsOK'
  BY <1>1, IdsStay DEF Commit, clockVars
<1>3. CommitRows(p) /\ ledger' = ledger \cup open[p] /\ pc[p] = "commit"
  BY DEF Commit, CommitLedger
<1>4. pc'[p] = "idle" /\ todo'[p] = <<>> /\ open'[p] = {} /\ OthersAll(p)
  BY <1>1 DEF OthersAll, Commit, CommitLedger, Return, Goto, Shared
<1>5. \A q \in Procs : DailyOK(q)'
  BY <1>1, <1>3, <1>4, EndedRows, EndedDailyOK, OthersDailyOK
<1>6. ASSUME NEW e \in DailyEvents, NEW u \in Users PROVE PaidOnce(e, u)'
  <2>1. PaidOnce(e, u) /\ (NoDayRow(p, e, u) \/ OneDayRow(p, e, u))
    BY <1>1 DEF DailyInv, DailyOK
  <2>2. /\ OwesNone(p, e, u) => PaidRows(e, u)' = PaidRows(e, u)
        /\ OwesOne(p, e, u) =>
             /\ IsFiniteSet(PaidRows(e, u)')
             /\ Cardinality(PaidRows(e, u)') = Cardinality(PaidRows(e, u)) + 1
    BY <1>1, <1>3, <2>1, CommitPays DEF PaidOnce, DailyOK
  <2>3. \A d \in Days : db'[DayRow(e, u, d)] = IF d \in Mine(p, e, u) THEN new[DayRow(e, u, d)]
                                               ELSE db[DayRow(e, u, d)]
    BY <1>1, <1>3, EndedRows, DayRowKeys DEF Mine
  <2>4. CASE NoDayRow(p, e, u)
    <3>1. PaidRows(e, u)' = PaidRows(e, u) /\ Done(e, u)' = Done(e, u)
      BY <2>2, <2>3, <2>4 DEF NoDayRow, Done
    <3>2. QED
      BY <2>1, <3>1 DEF PaidOnce
  <2>5. CASE OneDayRow(p, e, u)
    <3>1. PICK d \in Days : NewDay(p, e, u, d)
      BY <2>5 DEF OneDayRow
    <3>2. Done(e, u)' = Done(e, u) \cup {d} /\ d \notin Done(e, u)
      BY <2>3, <3>1 DEF Done, NewDay
    <3>3. IsFiniteSet(Done(e, u))
      <4>1. IsFiniteSet(Days)
        BY LedgerAssumption, FS_Interval DEF Days
      <4>2. QED
        BY <4>1, FS_Subset DEF Done
    <3>4. Cardinality(Done(e, u)') = Cardinality(Done(e, u)) + 1
      BY <3>2, <3>3, OneMore
    <3>5. QED
      BY <2>1, <2>2, <2>5, <3>4 DEF PaidOnce, OneDayRow
  <2>6. QED
    BY <2>1, <2>4, <2>5
<1>7. QED
  BY <1>2, <1>5, <1>6 DEF DailyInv

-----------------------------------------------------------------------------
\* What a check-in appends pays for one check-in, and comes first.
LEMMA CheckinPays ==
  ASSUME NEW u \in Users, NEW streak \in Nat
  PROVE  LET list == CheckinAppends(u, streak) IN
         /\ 1 \in DOMAIN list
         /\ list[1].user = u /\ list[1].event = "CHECKIN_DAILY"
         /\ \A i \in DOMAIN list : i # 1 => list[i].event \notin DailyEvents
         /\ \A i \in DOMAIN list : list[i].event # "VIP_REDEEM"
<1>1. PICK a : a = Append1(u, "CHECKIN_DAILY", CheckinPoints, FALSE)
  OBVIOUS
<1>2. PICK b : b = Append1(u, "CHECKIN_STREAK_7", StreakShortPoints, TRUE)
  OBVIOUS
<1>3. PICK c : c = Append1(u, "CHECKIN_STREAK_30", StreakLongPoints, TRUE)
  OBVIOUS
<1>4. PICK s \in {<<>>, <<b>>}, t \in {<<>>, <<c>>} :
        CheckinAppends(u, streak) = (<<a>> \o s) \o t
  BY <1>1, <1>2, <1>3 DEF CheckinAppends
<1>5. /\ a.user = u /\ a.event = "CHECKIN_DAILY"
      /\ b.event \notin DailyEvents /\ c.event \notin DailyEvents
      /\ b.event # "VIP_REDEEM" /\ c.event # "VIP_REDEEM"
  BY <1>1, <1>2, <1>3 DEF Append1, DailyEvents
<1>6. PICK all : all = {a, b, c}
  OBVIOUS
<1>7. <<a>> \in Seq(all) /\ s \in Seq(all) /\ t \in Seq(all)
  <2>1. a \in all /\ b \in all /\ c \in all
    BY <1>6
  <2>2. <<a>> \in Seq(all) /\ <<b>> \in Seq(all) /\ <<c>> \in Seq(all) /\ <<>> \in Seq(all)
    BY <2>1
  <2>3. QED
    BY <2>2
<1>8. /\ Len(<<a>>) = 1 /\ Len(s) \in Nat /\ Len(t) \in Nat
      /\ \A i \in 1..Len(s) : s[i] = b
      /\ \A i \in 1..Len(t) : t[i] = c
  OBVIOUS
<1>9. /\ <<a>> \o s \in Seq(all) /\ Len(<<a>> \o s) = 1 + Len(s)
      /\ \A i \in 1..(1 + Len(s)) : (<<a>> \o s)[i] = IF i <= 1 THEN <<a>>[i] ELSE s[i - 1]
  BY <1>7, <1>8, ConcatProperties
<1>10. PICK list : list = (<<a>> \o s) \o t
  OBVIOUS
<1>11. /\ list \in Seq(all) /\ Len(list) = 1 + Len(s) + Len(t)
       /\ \A i \in 1..(1 + Len(s) + Len(t)) :
            list[i] = IF i <= 1 + Len(s) THEN (<<a>> \o s)[i] ELSE t[i - (1 + Len(s))]
  BY <1>7, <1>9, <1>10, ConcatProperties
<1>12. DOMAIN list = 1..(1 + Len(s) + Len(t))
  BY <1>11, LenProperties
<1>13. 1 \in DOMAIN list /\ list[1] = a
  BY <1>8, <1>9, <1>11, <1>12
<1>14. ASSUME NEW i \in DOMAIN list, i # 1 PROVE list[i] \in {b, c}
  <2>1. i \in 1..(1 + Len(s) + Len(t))
    BY <1>12
  <2>2. CASE i <= 1 + Len(s)
    <3>1. i - 1 \in 1..Len(s) /\ i \in 1..(1 + Len(s)) /\ ~(i <= 1)
      BY <1>8, <1>14, <2>1, <2>2
    <3>2. list[i] = s[i - 1]
      BY <1>9, <1>11, <2>1, <2>2, <3>1
    <3>3. QED
      BY <1>8, <3>1, <3>2
  <2>3. CASE ~(i <= 1 + Len(s))
    <3>1. i - (1 + Len(s)) \in 1..Len(t)
      BY <1>8, <2>1, <2>3
    <3>2. list[i] = t[i - (1 + Len(s))]
      BY <1>11, <2>1, <2>3
    <3>3. QED
      BY <1>8, <3>1, <3>2
  <2>4. QED
    BY <2>2, <2>3
<1>15. QED
  BY <1>4, <1>5, <1>10, <1>13, <1>14

\* The INSERT of the day's row of event e.
LEMMA DailyInsertFacts ==
  ASSUME NEW p \in Procs, TypeInv, ~GiveUp(p), CheckinInsert(p) \/ EngageInsert(p)
  PROVE  \E e \in DailyEvents, u \in Users, d \in Days :
           /\ db[DayRow(e, u, d)] = NoRow /\ WriteRow(p, DayRow(e, u, d), DailyRow)
           /\ 1 \in DOMAIN todo'[p] /\ todo'[p][1].user = u /\ todo'[p][1].event = e
           /\ \A i \in DOMAIN todo'[p] : i # 1 => todo'[p][i].event \notin DailyEvents
           /\ \A i \in DOMAIN todo'[p] : todo'[p][i].event # "VIP_REDEEM"
           /\ pc[p] \notin PayingPcs /\ pc'[p] \in {"append", "checkinState"}
           /\ UNCHANGED <<ledger, open, inserted>> /\ OthersAll(p)
<1>1. pc[p] \in {"checkinInsert", "engageInsert"}
        /\ pc[p] \in Pcs \ (AppendPcs \cup {"idle"}) /\ pc[p] \notin PayingPcs
  BY DEF CheckinInsert, EngageInsert, DailyInsert, Pcs, AppendPcs, PayingPcs
<1>2. /\ Shared(VersionsOf, Events, Frames, Pcs) /\ LocalOK(p) /\ frame[p] \in CallFrames
      /\ frame[p].user \in Users
  BY <1>1, CallFacts
<1>3. frame[p].day \in Days /\ frame[p].streak \in Nat
  BY <1>1, <1>2, Constants DEF LocalOK, DayPcs
<1>4. CASE CheckinInsert(p)
  <2>1. PICK list : list = CheckinAppends(frame[p].user, frame[p].streak)
    OBVIOUS
  <2>2. /\ InsertRow(p, CheckinRow(frame[p].user, frame[p].day), DailyRow)
        /\ todo' = [todo EXCEPT ![p] = list]
        /\ pc' = [pc EXCEPT ![p] = "checkinState"]
        /\ UNCHANGED <<ledgerVars, frame, bal, clockVars, calls>>
    BY <1>4, <2>1 DEF CheckinInsert, DailyInsert, Goto
  <2>3. todo'[p] = list /\ pc'[p] = "checkinState" /\ OthersAll(p)
          /\ UNCHANGED <<ledger, open, inserted>>
    BY <1>2, <2>2 DEF OthersAll, Shared, ledgerVars, clockVars
  <2>4. /\ 1 \in DOMAIN list /\ list[1].user = frame[p].user /\ list[1].event = "CHECKIN_DAILY"
        /\ \A i \in DOMAIN list : i # 1 => list[i].event \notin DailyEvents
        /\ \A i \in DOMAIN list : list[i].event # "VIP_REDEEM"
    BY <1>2, <1>3, <2>1, CheckinPays
  <2>5. DayRow("CHECKIN_DAILY", frame[p].user, frame[p].day) = CheckinRow(frame[p].user, frame[p].day)
          /\ "CHECKIN_DAILY" \in DailyEvents
    BY DEF DayRow, DailyEvents
  <2>6. QED
    BY <1>1, <1>2, <1>3, <2>2, <2>3, <2>4, <2>5 DEF InsertRow
<1>5. CASE EngageInsert(p)
  <2>1. PICK a : a = Append1(frame[p].user, "ENGAGEMENT_SIGNAL", EngagementPoints, FALSE)
    OBVIOUS
  <2>2. /\ InsertRow(p, EngagedRow(frame[p].user, frame[p].day), DailyRow)
        /\ todo' = [todo EXCEPT ![p] = <<a>>]
        /\ pc' = [pc EXCEPT ![p] = "append"]
        /\ UNCHANGED <<ledgerVars, frame, bal, clockVars, calls>>
    BY <1>5, <2>1 DEF EngageInsert, DailyInsert, Goto
  <2>3. todo'[p] = <<a>> /\ pc'[p] = "append" /\ OthersAll(p)
          /\ UNCHANGED <<ledger, open, inserted>>
    BY <1>2, <2>2 DEF OthersAll, Shared, ledgerVars, clockVars
  <2>4. a.user = frame[p].user /\ a.event = "ENGAGEMENT_SIGNAL"
    BY <2>1 DEF Append1
  <2>5. DayRow("ENGAGEMENT_SIGNAL", frame[p].user, frame[p].day) = EngagedRow(frame[p].user, frame[p].day)
          /\ "ENGAGEMENT_SIGNAL" \in DailyEvents
    BY DEF DayRow, DailyEvents
  <2>6. DOMAIN todo'[p] = {1} /\ todo'[p][1] = a
    BY <2>3
  <2>7. QED
    BY <1>1, <1>2, <1>3, <2>2, <2>3, <2>4, <2>5, <2>6 DEF InsertRow
<1>6. QED
  BY <1>4, <1>5

\* The transaction now has one day row, and owes the payment for it.
LEMMA DailyInsertDaily ==
  ASSUME NEW p \in Procs, DailyInv, TypeInv', ~GiveUp(p), CheckinInsert(p) \/ EngageInsert(p)
  PROVE  DailyInv'
<1>1. TypeInv /\ Shared(VersionsOf, Events, Frames, Pcs) /\ IdsOK /\ DailyOK(p)
  BY DEF DailyInv, TypeInv
<1>2. PICK e \in DailyEvents, u \in Users, d \in Days :
        /\ db[DayRow(e, u, d)] = NoRow /\ WriteRow(p, DayRow(e, u, d), DailyRow)
        /\ 1 \in DOMAIN todo'[p] /\ todo'[p][1].user = u /\ todo'[p][1].event = e
        /\ \A i \in DOMAIN todo'[p] : i # 1 => todo'[p][i].event \notin DailyEvents
        /\ pc[p] \notin PayingPcs /\ pc'[p] \in {"append", "checkinState"}
        /\ UNCHANGED <<ledger, open, inserted>> /\ OthersAll(p)
  BY <1>1, DailyInsertFacts
<1> DEFINE k == DayRow(e, u, d)
<1>3. /\ owner \in [Keys -> Procs \cup {NoProc}]
      /\ DOMAIN new = Keys /\ DOMAIN db = Keys /\ k \in Keys
  BY <1>1, RowTypes, DayRowKeys DEF Shared, RowsInv
<1>4. /\ Free(p, k) /\ db' = db
      /\ owner'[k] = p /\ new'[k] = DailyRow
      /\ \A j \in Keys : j # k => owner'[j] = owner[j] /\ new'[j] = new[j]
  BY <1>2, <1>3 DEF WriteRow
<1>5. OthersDayRowsKept(p)
  BY <1>3, <1>4, DayRowKeys, LedgerAssumption DEF OthersDayRowsKept, Free
<1>6. IdsOK'
  BY <1>1, <1>2, IdsStay
<1>7. \A f \in DailyEvents, v \in Users : PaidOnce(f, v)'
  BY <1>2, <1>4, CountsStay
<1>8. DailyOK(p)'
  <2> SUFFICES ASSUME NEW f \in DailyEvents, NEW v \in Users
               PROVE  NoDayRow(p, f, v)' \/ OneDayRow(p, f, v)'
    BY <1>2 DEF DailyOK
  <2>1. NoDayRow(p, f, v)
    BY <1>1, <1>2 DEF DailyOK, OneDayRow
  <2>2. Appended(p, f, v)' = {}
    BY <1>2, <2>1 DEF NoDayRow, OwesNone, Appended
  <2>3. CASE f = e /\ v = u
    <3>1. Mine(p, f, v)' = {d}
      BY <1>4, <2>1, <2>3, DayRowKeys DEF NoDayRow, Mine
    <3>2. NewDay(p, f, v, d)'
      BY <1>2, <1>4, <2>3, <3>1, NoRowAssumption DEF NewDay
    <3>3. Due(p, f, v)' = {1}
      BY <1>2, <2>3 DEF Due
    <3>4. QED
      BY <1>2, <2>2, <3>2, <3>3 DEF OneDayRow, OwesOne, PayingPcs, AppendPcs
  <2>4. CASE ~(f = e /\ v = u)
    <3>1. Mine(p, f, v)' = {}
      <4>1. \A c \in Days : DayRow(f, v, c) # k /\ DayRow(f, v, c) \in Keys
        BY <2>4, DayRowKeys
      <4>2. QED
        BY <1>4, <2>1, <4>1 DEF NoDayRow, Mine
    <3>2. Due(p, f, v)' = {}
      BY <1>2, <2>4 DEF Due
    <3>3. QED
      BY <2>2, <3>1, <3>2 DEF NoDayRow, OwesNone
  <2>5. QED
    BY <2>3, <2>4
<1>9. \A q \in Procs : DailyOK(q)'
  BY <1>2, <1>5, <1>8, OthersDailyOK
<1>10. QED
  BY <1>6, <1>7, <1>9 DEF DailyInv

\* The INSERT of a ledger row: what was owed is appended.
LEMMA AppendInsertDaily ==
  ASSUME NEW p \in Procs, DailyInv, TypeInv', AppendInsert(p, "commit")
  PROVE  DailyInv'
<1>1. TypeInv /\ Shared(VersionsOf, Events, Frames, Pcs) /\ IdsOK /\ DailyOK(p)
  BY DEF DailyInv, TypeInv
<1>2. IdsOK'
  BY <1>1, IdsStay
<1>3. UNCHANGED <<rowVars, ledger, frame>> /\ pc[p] \in PayingPcs
  BY DEF AppendInsert, PayingPcs, AppendPcs
<1>4. /\ pc'[p] \in PayingPcs /\ (pc'[p] = "commit" => todo'[p] = <<>>)
      /\ \A q \in Procs \ {p} : open'[q] = open[q] /\ todo'[q] = todo[q]
      /\ \A e, u : /\ OwesNone(p, e, u) => OwesNone(p, e, u)'
                   /\ OwesOne(p, e, u) => OwesOne(p, e, u)'
  BY <1>1, InsertPays DEF PayingPcs, AppendPcs
<1>5. OthersAll(p) /\ OthersDayRowsKept(p)
  <2>1. \A q \in Procs \ {p} : pc'[q] = pc[q] /\ bal'[q] = bal[q]
    BY <1>1 DEF AppendInsert, Goto, Shared
  <2>2. QED
    BY <1>3, <1>4, <2>1 DEF OthersAll, OthersDayRowsKept, rowVars
<1>6. \A e \in DailyEvents, u \in Users : PaidOnce(e, u)'
  BY <1>3, CountsStay DEF rowVars
<1>7. DailyOK(p)'
  <2> SUFFICES ASSUME NEW e \in DailyEvents, NEW u \in Users
               PROVE  NoDayRow(p, e, u)' \/ OneDayRow(p, e, u)'
    BY <1>4 DEF DailyOK
  <2>1. Mine(p, e, u)' = Mine(p, e, u) /\ \A d \in Days : NewDay(p, e, u, d) => NewDay(p, e, u, d)'
    BY <1>3 DEF Mine, NewDay, rowVars
  <2>2. QED
    BY <1>1, <1>4, <2>1 DEF DailyOK, NoDayRow, OneDayRow
<1>8. \A q \in Procs : DailyOK(q)'
  BY <1>5, <1>7, OthersDailyOK
<1>9. QED
  BY <1>2, <1>6, <1>8 DEF DailyInv

-----------------------------------------------------------------------------
\* Reads, and what is written to the rows of users, leave the day rows alone.
LEMMA StateWrites ==
  ASSUME NEW p \in Procs, NEW u \in Users, NEW v, TypeInv,
         UNCHANGED rowVars \/ WriteRow(p, StateRow(u), v) \/ AutocommitRow(StateRow(u), v)
  PROVE  DayRowsKept
<1>1. /\ DOMAIN owner = Keys /\ DOMAIN new = Keys /\ DOMAIN db = Keys
  BY RowTypes DEF TypeInv, Shared, RowsInv
<1>2. \A e \in DailyEvents, w \in Users, d \in Days :
        DayRow(e, w, d) \in Keys /\ DayRow(e, w, d) # StateRow(u)
  BY DayRowKeys
<1>3. QED
  BY <1>1, <1>2 DEF DayRowsKept, WriteRow, AutocommitRow, rowVars

\* The statements of a handler that neither insert a day row nor append, and
\* that do not end the transaction.
LEMMA NeutralSteps ==
  ASSUME NEW p \in Procs, TypeInv, ~GiveUp(p),
         \/ SignupCheck(p)
         \/ EnsureFound(p) \/ EnsureMissing(p) \/ EnsureInsert(p, AfterEnsure(p)) \/ Today(p)
         \/ CheckinSelect(p) \/ CheckinState(p) \/ EngageSelect(p)
         \/ VipCap(p) \/ VipPick(p) \/ VipLock(p) \/ VipState(p)
         \/ AppendRead(p) \/ AppendNoState(p) \/ MakeState(p)
  PROVE  Neutral(p)
<1>1. Shared(VersionsOf, Events, Frames, Pcs)
  BY DEF TypeInv
<1>2. CASE EnsureFound(p) \/ EnsureMissing(p) \/ EnsureInsert(p, AfterEnsure(p)) \/ Today(p)
             \/ CheckinSelect(p) \/ EngageSelect(p) \/ VipCap(p) \/ VipPick(p)
  <2>1. pc[p] \in Pcs \ (AppendPcs \cup {"idle"}) /\ pc[p] \notin PayingPcs
    BY <1>2 DEF EnsureFound, EnsureMissing, EnsureInsert, Today, CheckinSelect, EngageSelect,
       DailySelect, VipCap, VipPick, Pcs, AppendPcs, PayingPcs
  <2>2. frame[p].user \in Users
    BY <2>1, CallFacts
  <2>3. UNCHANGED rowVars \/ AutocommitRow(StateRow(frame[p].user), FreshState)
    BY <1>2 DEF EnsureFound, EnsureMissing, EnsureInsert, Today, CheckinSelect, EngageSelect,
       DailySelect, VipCap, VipPick, PickLastRow
  <2>4. DayRowsKept
    BY <2>2, <2>3, StateWrites
  <2>5. PICK next : pc' = [pc EXCEPT ![p] = next] /\ next # "commit"
    BY <1>2 DEF EnsureFound, EnsureMissing, EnsureInsert, Today, CheckinSelect, EngageSelect,
       DailySelect, VipCap, VipPick, PickLastRow, Goto, AfterEnsure
  <2>6. UNCHANGED <<ledger, open, inserted, todo>>
    BY <1>2 DEF EnsureFound, EnsureMissing, EnsureInsert, Today, CheckinSelect, EngageSelect,
       DailySelect, VipCap, VipPick, PickLastRow, ledgerVars, clockVars
  <2>7. \A q \in Procs \ {p} : frame'[q] = frame[q] /\ bal'[q] = bal[q]
    BY <1>1, <1>2 DEF EnsureFound, EnsureMissing, EnsureInsert, Today, CheckinSelect, EngageSelect,
       DailySelect, VipCap, VipPick, PickLastRow, Shared
  <2>8. OthersAll(p) /\ pc'[p] # "commit"
    BY <1>1, <2>5, <2>6, <2>7 DEF OthersAll, Shared
  <2>9. QED
    BY <2>1, <2>4, <2>6, <2>8 DEF Neutral
<1>3. CASE SignupCheck(p) \/ VipLock(p)
  <2>1. pc[p] \notin PayingPcs
    BY <1>3 DEF SignupCheck, VipLock, PayingPcs, AppendPcs
  <2>2. PICK a, next :
          /\ todo' = [todo EXCEPT ![p] = <<a>>] /\ a.event \notin DailyEvents
          /\ pc' = [pc EXCEPT ![p] = next] /\ next # "commit"
    <3>1. CASE SignupCheck(p)
      <4>1. PICK a : a = Append1(frame[p].user, "SIGNUP_BONUS", SignupPoints, FALSE)
        OBVIOUS
      <4>2. a.event \notin DailyEvents
        BY <4>1 DEF Append1, DailyEvents
      <4>3. QED
        BY <3>1, <4>1, <4>2 DEF SignupCheck, Goto
    <3>2. CASE VipLock(p)
      <4>1. PICK a : a = Append1(frame[p].user, "VIP_REDEEM", -(frame[p].days * VipRedeemPoints), TRUE)
        OBVIOUS
      <4>2. a.event \notin DailyEvents
        BY <4>1 DEF Append1, DailyEvents
      <4>3. QED
        BY <3>2, <4>1, <4>2 DEF VipLock, Goto
    <3>3. QED
      BY <1>3, <3>1, <3>2
  <2>3. UNCHANGED <<rowVars, ledger, open, inserted, frame, bal>>
    BY <1>3 DEF SignupCheck, VipLock, ledgerVars, clockVars
  <2>4. DayRowsKept
    BY <2>3 DEF DayRowsKept, rowVars
  <2>5. OthersAll(p) /\ pc'[p] # "commit" /\ todo'[p] = <<a>>
    BY <1>1, <2>2, <2>3 DEF OthersAll, Shared
  <2>6. QED
    BY <2>1, <2>2, <2>3, <2>4, <2>5 DEF Neutral
<1>4. CASE CheckinState(p) \/ VipState(p)
  <2>1. pc[p] \in Pcs \ (AppendPcs \cup {"idle"})
    BY <1>4 DEF CheckinState, VipState, Pcs, AppendPcs
  <2>2. frame[p].user \in Users
    BY <2>1, CallFacts
  <2>3. PICK v : WriteRow(p, StateRow(frame[p].user), v)
    BY <1>4 DEF CheckinState, VipState
  <2>4. DayRowsKept
    BY <2>2, <2>3, StateWrites
  <2>5. /\ pc' = [pc EXCEPT ![p] = "append"]
        /\ UNCHANGED <<ledger, open, inserted, frame, todo, bal>>
    BY <1>4 DEF CheckinState, VipState, Goto, ledgerVars, clockVars
  <2>6. OthersAll(p) /\ pc'[p] = "append"
    BY <1>1, <2>5 DEF OthersAll, Shared
  <2>7. QED
    BY <2>4, <2>5, <2>6 DEF Neutral, PayingPcs, AppendPcs
<1>5. CASE AppendRead(p) \/ AppendNoState(p) \/ MakeState(p)
  <2>1. pc[p] \in {"append", "insert", "makeState"}
    BY <1>5 DEF AppendRead, AppendNoState, MakeState
  <2>2. Head(todo[p]).user \in Users
    BY <2>1, AppendFacts
  <2>3. UNCHANGED rowVars \/ WriteRow(p, StateRow(Head(todo[p]).user), FreshState)
    BY <1>5 DEF AppendRead, AppendNoState, MakeState, InsertRow
  <2>4. DayRowsKept
    BY <2>2, <2>3, StateWrites
  <2>5. PICK next \in {"insert", "makeState", "append"} : pc' = [pc EXCEPT ![p] = next]
    BY <1>5 DEF AppendRead, AppendNoState, MakeState, Goto
  <2>6. UNCHANGED <<ledger, open, inserted, frame, todo>>
    BY <1>5 DEF AppendRead, AppendNoState, MakeState, ledgerVars, clockVars
  <2>7. \A q \in Procs \ {p} : bal'[q] = bal[q]
    BY <1>1, <1>5 DEF AppendRead, AppendNoState, MakeState, Shared
  <2>8. OthersAll(p) /\ pc'[p] = next
    BY <1>1, <2>5, <2>6, <2>7 DEF OthersAll, Shared
  <2>9. QED
    BY <2>4, <2>5, <2>6, <2>8 DEF Neutral, PayingPcs, AppendPcs
<1>6. QED
  BY <1>2, <1>3, <1>4, <1>5

LEMMA InitDaily == Init => DailyInv
<1> SUFFICES ASSUME Init PROVE DailyInv
  OBVIOUS
<1>1. TypeInv
  BY InitTypes
<1>2. /\ \A k \in Keys : db[k] = NoRow /\ owner[k] = NoProc
      /\ ledger = {} /\ \A p \in Procs : open[p] = {} /\ todo[p] = <<>> /\ pc[p] = "idle"
  BY DEF Init, LedgerInit, RowsInit
<1>3. IdsOK
  BY <1>2 DEF IdsOK
<1>4. \A p \in Procs : DailyOK(p)
  <2> SUFFICES ASSUME NEW p \in Procs, NEW e \in DailyEvents, NEW u \in Users
               PROVE  NoDayRow(p, e, u)
    BY <1>2 DEF DailyOK
  <2>1. Mine(p, e, u) = {}
    BY <1>2, DayRowKeys, LedgerAssumption DEF Mine
  <2>2. OwesNone(p, e, u)
    BY <1>2 DEF OwesNone, Appended, Due
  <2>3. QED
    BY <2>1, <2>2 DEF NoDayRow
<1>5. ASSUME NEW e \in DailyEvents, NEW u \in Users PROVE PaidOnce(e, u)
  <2>1. PaidRows(e, u) = {} /\ Done(e, u) = {}
    BY <1>2, DayRowKeys DEF PaidRows, Done
  <2>2. QED
    BY <2>1, FS_EmptySet DEF PaidOnce
<1>6. QED
  BY <1>1, <1>3, <1>4, <1>5 DEF DailyInv

LEMMA DailyStays == DailyInv /\ [Next]_vars => DailyInv'
<1> SUFFICES ASSUME DailyInv, [Next]_vars PROVE DailyInv'
  OBVIOUS
<1>1. TypeInv /\ TypeInv' /\ Shared(VersionsOf, Events, Frames, Pcs)
  BY TypesStay DEF DailyInv, TypeInv
<1>2. ASSUME NEW p \in Procs, Start(p) PROVE DailyInv'
  <2>0. PICK op \in Ops, u \in Users : \E n : StartCall(p, Frame(op, u, n), First[op])
    BY <1>2 DEF Start
  <2>1. PICK n : StartCall(p, Frame(op, u, n), First[op])
    BY <2>0
  <2>2. PICK f, first : f = Frame(op, u, n) /\ first = First[op]
    OBVIOUS
  <2>3. first # "commit"
    BY <2>2, RewardsAssumption DEF First
  <2>4. /\ pc[p] = "idle" /\ pc' = [pc EXCEPT ![p] = first] /\ frame' = [frame EXCEPT ![p] = f]
        /\ UNCHANGED <<rowVars, ledger, open, inserted, todo, bal>>
    BY <2>1, <2>2 DEF StartCall, Goto, ledgerVars, clockVars
  <2>5. OthersAll(p) /\ pc'[p] # "commit"
    BY <1>1, <2>3, <2>4 DEF OthersAll, Shared
  <2>6. Neutral(p)
    BY <2>4, <2>5 DEF Neutral, DayRowsKept, rowVars, PayingPcs, AppendPcs
  <2>7. QED
    BY <1>1, <2>6, NeutralKeeps
<1>3. ASSUME NEW p \in Procs, Step(p) PROVE DailyInv'
  <2>1. CASE GiveUp(p)
    BY <1>1, <2>1, GiveUpDaily
  <2>2. CASE ~GiveUp(p)
    <3>1. ~Answer(p) /\ ~AppendDuplicate(p)
      BY <2>2 DEF Answer, AppendDuplicate
    <3>2. CASE Commit(p)
      BY <1>1, <3>2, CommitDaily
    <3>3. CASE AppendInsert(p, "commit")
      BY <1>1, <3>3, AppendInsertDaily
    <3>4. CASE CheckinInsert(p) \/ EngageInsert(p)
      BY <1>1, <2>2, <3>4, DailyInsertDaily
    <3>5. CASE ~(Commit(p) \/ AppendInsert(p, "commit") \/ CheckinInsert(p) \/ EngageInsert(p))
      <4>1. Neutral(p)
        BY <1>1, <1>3, <2>2, <3>1, <3>5, NeutralSteps DEF Step
      <4>2. QED
        BY <1>1, <4>1, NeutralKeeps
    <3>6. QED
      BY <3>2, <3>3, <3>4, <3>5
  <2>3. QED
    BY <2>1, <2>2
<1>4. ASSUME NEW p \in Procs, Crash(p) PROVE DailyInv'
  BY <1>1, <1>4, GiveUpDaily DEF Crash
<1>5. CASE NextDay \/ UNCHANGED vars
  <2>1. UNCHANGED <<rowVars, ledger, open, inserted, pc, todo>>
    BY <1>5 DEF NextDay, vars, ledgerVars, clockVars
  <2>2. IdsOK'
    BY <2>1 DEF IdsOK, DailyInv
  <2>3. ASSUME NEW p \in Procs PROVE DailyOK(p)'
    <3>1. \A e \in DailyEvents, u \in Users :
            /\ OwesNone(p, e, u)' <=> OwesNone(p, e, u)
            /\ OwesOne(p, e, u)' <=> OwesOne(p, e, u)
      BY <2>1, OwesStays
    <3>2. QED
      BY <2>1, <3>1 DEF DailyInv, DailyOK, NoDayRow, OneDayRow, NewDay, Mine, rowVars
  <2>4. \A e \in DailyEvents, u \in Users : PaidOnce(e, u)'
    BY <2>1, CountsStay DEF rowVars
  <2>5. QED
    BY <1>1, <2>2, <2>3, <2>4 DEF DailyInv
<1>6. QED
  BY <1>2, <1>3, <1>4, <1>5 DEF Next, Quiet

\* A check-in or an engagement signal is paid exactly once for each day row
\* that was committed, whichever handlers race, wherever an instance dies and
\* even when the UTC day ends in the middle of a call.
THEOREM DailyRowIsPaidOnce == Spec => []DailyRowPaidOnce
<1>1. DailyInv => DailyRowPaidOnce
  <2> SUFFICES ASSUME DailyInv, NEW u \in Users
               PROVE  /\ PaidTimes(u, "CHECKIN_DAILY")
                           = Cardinality({d \in Days : db[CheckinRow(u, d)] # NoRow})
                      /\ PaidTimes(u, "ENGAGEMENT_SIGNAL")
                           = Cardinality({d \in Days : db[EngagedRow(u, d)] # NoRow})
    BY DEF DailyRowPaidOnce
  <2>1. PaidOnce("CHECKIN_DAILY", u) /\ PaidOnce("ENGAGEMENT_SIGNAL", u)
    BY DEF DailyInv, DailyEvents
  <2>2. /\ Done("CHECKIN_DAILY", u) = {d \in Days : db[CheckinRow(u, d)] # NoRow}
        /\ Done("ENGAGEMENT_SIGNAL", u) = {d \in Days : db[EngagedRow(u, d)] # NoRow}
    BY DEF Done, DayRow
  <2>3. QED
    BY <2>1, <2>2 DEF PaidOnce, PaidTimes, PaidRows
<1>2. QED
  BY <1>1, InitDaily, DailyStays, PTL DEF Spec

-----------------------------------------------------------------------------
\* The VIP days credited and the points they cost.  A redemption adds the days
\* to the user's row two statements before it appends the row that charges
\* them, so the balance of VipDaysMatchLedger holds of what is committed, and
\* of each open transaction: the days it has added to the rows it owns, and is
\* about to add, are those it charges, by a row appended or by the next one.

VipEvents == {"VIP_REDEEM"}

Vip(version) == IF version = NoRow THEN 0 ELSE version.vip

\* The days p's transaction has credited, and those it credits next.
Credited(p, u) == Vip(Sees(p, StateRow(u))) - Vip(db[StateRow(u)])

Asked(p, u) == IF pc[p] = "vipState" /\ frame[p].user = u THEN frame[p].days ELSE 0

TodoPcs == AppendPcs \cup {"checkinState", "vipState"}

\* A row p's transaction is about to insert is not one it has written.
Making(p) == LET k == StateRow(Head(todo[p]).user) IN owner[k] = p => new[k] = NoRow

VipOK(p) ==
  /\ pc[p] = "makeState" => Making(p)
  /\ pc[p] \notin TodoPcs \/ pc[p] = "commit" => todo[p] = <<>>
  /\ RestIsNot(p, VipEvents)
  /\ \A u \in Users :
       /\ FiniteFor(p, VipEvents, u)
       /\ (Credited(p, u) + Asked(p, u)) * VipRedeemPoints = -Moved(p, VipEvents, u)

VipCharged(u) ==
  /\ IsFiniteSet(RowsFor(ledger, VipEvents, u))
  /\ Vip(db[StateRow(u)]) * VipRedeemPoints = -PointsFor(VipEvents, u)

VipInv ==
  /\ TypeInv
  /\ IdsOK
  /\ \A p \in Procs : VipOK(p)
  /\ \A u \in Users : VipCharged(u)

\* What the days of a row are.
LEMMA VipTypes ==
  ASSUME TypeInv, NEW u \in Users, NEW p \in Procs
  PROVE  /\ StateRow(u) \in Keys
         /\ Vip(db[StateRow(u)]) \in Nat /\ Vip(Sees(p, StateRow(u))) \in Nat
         /\ Credited(p, u) \in Int /\ Asked(p, u) \in Nat
<1>1. /\ StateRow(u) \in Keys
      /\ db[StateRow(u)] \in UserStates \cup {NoRow}
      /\ new[StateRow(u)] \in UserStates \cup {NoRow}
  BY RowTypes DEF TypeInv, Shared, RowsInv
<1>2. Vip(db[StateRow(u)]) \in Nat /\ Vip(new[StateRow(u)]) \in Nat
  BY <1>1 DEF Vip, UserStates
<1>3. pc[p] = "vipState" => frame[p].days \in Nat
  BY Constants DEF TypeInv, LocalOK
<1>4. QED
  BY <1>1, <1>2, <1>3 DEF Sees, Credited, Asked

\* No statement of p touches what the others have locked.
RowsApart(p) ==
  \A q \in Procs \ {p}, k \in Keys :
    /\ owner'[k] = q <=> owner[k] = q
    /\ owner[k] = q => new'[k] = new[k] /\ db'[k] = db[k]

LEMMA StatementsApart ==
  ASSUME NEW p \in Procs, TypeInv,
         \/ UNCHANGED rowVars
         \/ CommitRows(p) \/ RollbackRows(p)
         \/ \E k \in Keys, v \in UserStates \cup {DailyRow} :
              WriteRow(p, k, v) \/ AutocommitRow(k, v)
  PROVE  RowsApart(p)
<1>1. LocksKept(p)
  BY StatementsKeepLocks
<1>2. DOMAIN db = Keys /\ owner \in [Keys -> Procs \cup {NoProc}]
  BY RowTypes DEF TypeInv, Shared, RowsInv
<1>3. \A q \in Procs \ {p}, k \in Keys : owner[k] = q => db'[k] = db[k]
  <2>1. CASE CommitRows(p)
    BY <1>2, <2>1 DEF CommitRows, Sees
  <2>2. CASE RollbackRows(p) \/ UNCHANGED rowVars
    BY <2>2 DEF RollbackRows, rowVars
  <2>3. CASE \E k \in Keys, v \in UserStates \cup {DailyRow} :
               WriteRow(p, k, v) \/ AutocommitRow(k, v)
    BY <1>2, <2>3, LedgerAssumption DEF WriteRow, AutocommitRow
  <2>4. QED
    BY <2>1, <2>2, <2>3
<1>4. QED
  BY <1>1, <1>3 DEF LocksKept, RowsApart

\* A step of p does not disturb what the invariant says of the others.
LEMMA OthersVipOK ==
  ASSUME NEW p \in Procs, VipInv, TypeInv', OthersAll(p), RowsApart(p),
         NEW q \in Procs, q # p
  PROVE  VipOK(q)'
<1>1. VipOK(q) /\ TypeInv
  BY DEF VipInv
<1>2. pc'[q] = pc[q] /\ todo'[q] = todo[q] /\ open'[q] = open[q] /\ frame'[q] = frame[q]
  BY DEF OthersAll
<1>3. ASSUME NEW u \in Users PROVE Credited(q, u)' = Credited(q, u)
  <2> DEFINE k == StateRow(u)
  <2>1. k \in Keys /\ Vip(db[k]) \in Nat /\ Vip(db[k])' \in Nat
    <3>1. db'[k] \in UserStates \cup {NoRow}
      BY RowTypes DEF TypeInv, Shared, RowsInv
    <3>2. QED
      BY <1>1, <3>1, VipTypes DEF Vip, UserStates
  <2>2. CASE owner[k] = q
    <3>1. owner'[k] = q /\ new'[k] = new[k] /\ db'[k] = db[k]
      BY <2>1, <2>2 DEF RowsApart
    <3>2. QED
      BY <2>2, <3>1 DEF Credited, Sees, Vip
  <2>3. CASE owner[k] # q
    <3>1. owner'[k] # q
      BY <2>1, <2>3 DEF RowsApart
    <3>2. Credited(q, u) = Vip(db[k]) - Vip(db[k])
      BY <2>3 DEF Credited, Sees
    <3>3. Credited(q, u)' = Vip(db[k])' - Vip(db[k])'
      BY <3>1 DEF Credited, Sees
    <3>4. QED
      BY <2>1, <3>2, <3>3
  <2>4. QED
    BY <2>2, <2>3
<1>4. \A u \in Users : Asked(q, u)' = Asked(q, u)
  BY <1>2 DEF Asked
<1>5. \A u \in Users : /\ FiniteFor(q, VipEvents, u)' <=> FiniteFor(q, VipEvents, u)
                       /\ Moved(q, VipEvents, u)' = Moved(q, VipEvents, u)
  BY <1>2 DEF FiniteFor, Moved, NextPoints, NextIsFor
<1>6. RestIsNot(q, VipEvents)'
  BY <1>1, <1>2 DEF VipOK, RestIsNot
<1>7. pc[q] = "makeState" => Making(q)'
  <2> SUFFICES ASSUME pc[q] = "makeState" PROVE Making(q)'
    OBVIOUS
  <2>1. StateRow(Head(todo[q]).user) \in Keys
    BY <1>1, AppendFacts
  <2>2. QED
    BY <1>1, <1>2, <2>1 DEF VipOK, Making, RowsApart
<1>8. QED
  BY <1>1, <1>2, <1>3, <1>4, <1>5, <1>6, <1>7 DEF VipOK

\* So only p and the ledger have to be looked at; and while no transaction
\* commits, the ledger's side is the same.
LEMMA VipStep ==
  ASSUME NEW p \in Procs, VipInv, TypeInv', IdsOK', OthersAll(p), RowsApart(p), VipOK(p)',
         \A u \in Users : VipCharged(u)'
  PROVE  VipInv'
BY OthersVipOK DEF VipInv

LEMMA ChargedStays ==
  ASSUME VipInv, UNCHANGED ledger, NEW u \in Users, Vip(db'[StateRow(u)]) = Vip(db[StateRow(u)])
  PROVE  VipCharged(u)'
BY DEF VipInv, VipCharged, PointsFor, RowsFor, Vip

-----------------------------------------------------------------------------
\* A statement that neither charges nor credits.
NoVip(p) ==
  /\ UNCHANGED <<ledger, open, inserted>>
  /\ OthersAll(p) /\ RowsApart(p)
  /\ pc[p] # "vipState" /\ pc'[p] # "vipState" /\ pc'[p] # "commit"
  /\ pc'[p] = "makeState" => Making(p)'
  /\ \A u \in Users : /\ Credited(p, u)' = Credited(p, u)
                      /\ Vip(db'[StateRow(u)]) = Vip(db[StateRow(u)])
  /\ \/ todo'[p] = todo[p] /\ (pc'[p] \in TodoPcs \/ pc[p] \notin TodoPcs)
     \/ /\ pc[p] \notin TodoPcs /\ pc'[p] \in TodoPcs
        /\ todo'[p] \in Seq(AppendsOf(Events))
        /\ \A i \in 1..Len(todo'[p]) : todo'[p][i].event \notin VipEvents

LEMMA NoVipKeeps ==
  ASSUME NEW p \in Procs, VipInv, TypeInv', NoVip(p)
  PROVE  VipInv'
<1>1. VipOK(p) /\ IdsOK /\ TypeInv /\ Shared(VersionsOf, Events, Frames, Pcs)
  BY DEF VipInv, TypeInv
<1>2. IdsOK'
  BY <1>1, IdsStay DEF NoVip
<1>3. \A u \in Users : VipCharged(u)'
  BY ChargedStays DEF NoVip
<1>4. \A u \in Users : /\ Asked(p, u) = 0 /\ Asked(p, u)' = 0
                       /\ FiniteFor(p, VipEvents, u) /\ FiniteFor(p, VipEvents, u)'
                       /\ Credited(p, u)' = Credited(p, u)
                       /\ (Credited(p, u) + Asked(p, u)) * VipRedeemPoints
                            = -Moved(p, VipEvents, u)
  BY <1>1 DEF NoVip, Asked, FiniteFor, VipOK
<1>5. CASE todo'[p] = todo[p] /\ (pc'[p] \in TodoPcs \/ pc[p] \notin TodoPcs)
  <2>1. RestIsNot(p, VipEvents)' /\ \A u \in Users : Moved(p, VipEvents, u)' = Moved(p, VipEvents, u)
    BY <1>1, <1>5 DEF NoVip, VipOK, RestIsNot, Moved, NextPoints, NextIsFor
  <2>2. VipOK(p)'
    BY <1>1, <1>4, <1>5, <2>1 DEF NoVip, VipOK, TodoPcs, AppendPcs
  <2>3. QED
    BY <1>2, <1>3, <2>2, VipStep DEF NoVip
<1>6. CASE /\ pc[p] \notin TodoPcs /\ pc'[p] \in TodoPcs /\ todo'[p] \in Seq(AppendsOf(Events))
           /\ \A i \in 1..Len(todo'[p]) : todo'[p][i].event \notin VipEvents
  <2>1. todo[p] = <<>>
    BY <1>1, <1>6 DEF VipOK
  <2>2. \A u \in Users : NextPoints(p, VipEvents, u) = 0
    BY <2>1 DEF NextPoints, NextIsFor
  <2>3. ASSUME NEW u \in Users PROVE NextPoints(p, VipEvents, u)' = 0
    <3>1. ASSUME todo'[p] # <<>> PROVE Head(todo'[p]).event \notin VipEvents
      <4>1. PICK t \in Seq(AppendsOf(Events)) : t = todo'[p] /\ t # <<>>
        BY <1>6, <3>1
      <4>2. Head(t) = t[1] /\ 1 \in 1..Len(t)
        BY <4>1, HeadTailProperties, EmptySeq
      <4>3. QED
        BY <1>6, <4>1, <4>2
    <3>2. QED
      BY <3>1 DEF NextPoints, NextIsFor
  <2>4. \A u \in Users : Moved(p, VipEvents, u)' = Moved(p, VipEvents, u)
    BY <2>2, <2>3 DEF NoVip, Moved
  <2>5. RestIsNot(p, VipEvents)'
    <3>1. Len(todo'[p]) \in Nat
      BY <1>6
    <3>2. QED
      BY <1>6, <3>1 DEF RestIsNot
  <2>6. VipOK(p)'
    BY <1>4, <1>6, <2>4, <2>5 DEF NoVip, VipOK
  <2>7. QED
    BY <1>2, <1>3, <2>6, VipStep DEF NoVip
<1>7. QED
  BY <1>5, <1>6 DEF NoVip

-----------------------------------------------------------------------------
\* What a statement writes to the rows of users, day rows aside, and what it
\* credits by it.
LEMMA WriteCredits ==
  ASSUME NEW p \in Procs, NEW k \in Keys, NEW v \in VersionsOf[k], TypeInv, NEW u \in Users,
         WriteRow(p, k, v)
  PROVE  /\ Vip(db'[StateRow(u)]) = Vip(db[StateRow(u)])
         /\ Credited(p, u)' = IF k = StateRow(u) THEN Vip(v) - Vip(db[k]) ELSE Credited(p, u)
<1>1. DOMAIN owner = Keys /\ DOMAIN new = Keys /\ StateRow(u) \in Keys
  BY RowTypes DEF TypeInv, Shared, RowsInv
<1>2. /\ db' = db /\ owner' = [owner EXCEPT ![k] = p] /\ new' = [new EXCEPT ![k] = v]
  BY DEF WriteRow
<1>3. CASE k = StateRow(u)
  <2>1. owner'[StateRow(u)] = p /\ new'[StateRow(u)] = v
    BY <1>1, <1>2, <1>3
  <2>2. QED
    BY <1>2, <1>3, <2>1 DEF Credited, Sees
<1>4. CASE k # StateRow(u)
  <2>1. owner'[StateRow(u)] = owner[StateRow(u)] /\ new'[StateRow(u)] = new[StateRow(u)]
    BY <1>1, <1>2, <1>4
  <2>2. QED
    BY <1>2, <1>4, <2>1 DEF Credited, Sees
<1>5. QED
  BY <1>3, <1>4

\* A user whose row is made, by the transaction or on its own, has no days.
LEMMA FreshCredits ==
  ASSUME NEW p \in Procs, NEW w \in Users, TypeInv, NEW u \in Users,
         \/ /\ InsertRow(p, StateRow(w), FreshState)
            /\ owner[StateRow(w)] = p => new[StateRow(w)] = NoRow
         \/ db[StateRow(w)] = NoRow /\ AutocommitRow(StateRow(w), FreshState)
  PROVE  /\ Vip(db'[StateRow(u)]) = Vip(db[StateRow(u)])
         /\ Credited(p, u)' = Credited(p, u)
<1> DEFINE k == StateRow(w)
<1>1. /\ DOMAIN owner = Keys /\ DOMAIN new = Keys /\ DOMAIN db = Keys
      /\ StateRow(u) \in Keys /\ k \in Keys /\ FreshState \in VersionsOf[k]
      /\ db[k] = NoRow /\ Vip(db[k]) = 0
  BY RowTypes, Constants DEF TypeInv, Shared, RowsInv, InsertRow, Vip
<1>2. Vip(FreshState) = 0
  BY DEF Vip, FreshState
<1>3. CASE InsertRow(p, k, FreshState) /\ (owner[k] = p => new[k] = NoRow)
  <2>1. WriteRow(p, k, FreshState)
    BY <1>3 DEF InsertRow
  <2>2. /\ Vip(db'[StateRow(u)]) = Vip(db[StateRow(u)])
        /\ Credited(p, u)' = IF k = StateRow(u) THEN Vip(FreshState) - Vip(db[k]) ELSE Credited(p, u)
    BY <1>1, <2>1, WriteCredits
  <2>3. k = StateRow(u) => Credited(p, u) = 0
    BY <1>1, <1>3 DEF Credited, Sees
  <2>4. QED
    BY <1>1, <1>2, <2>2, <2>3
<1>4. CASE AutocommitRow(k, FreshState)
  <2>1. /\ owner' = owner /\ owner[k] = NoProc
        /\ db' = [db EXCEPT ![k] = FreshState] /\ new' = [new EXCEPT ![k] = FreshState]
    BY <1>4 DEF AutocommitRow
  <2>2. Vip(db'[StateRow(u)]) = Vip(db[StateRow(u)])
    BY <1>1, <1>2, <2>1 DEF Vip
  <2>3. Vip(Sees(p, StateRow(u)))' = Vip(Sees(p, StateRow(u)))
    BY <1>1, <1>2, <2>1, LedgerAssumption DEF Vip, Sees
  <2>4. QED
    BY <2>2, <2>3 DEF Credited
<1>5. QED
  BY <1>3, <1>4

-----------------------------------------------------------------------------
LEMMA Distributes ==
  ASSUME NEW a \in Int, NEW b \in Int, NEW c \in Int
  PROVE  (a + b) * c = a * c + b * c
OBVIOUS

\* The statements that have nothing to do with VIP days.
LEMMA ReadsNoVip ==
  ASSUME NEW p \in Procs, TypeInv, ~GiveUp(p),
         \/ EnsureFound(p) \/ EnsureMissing(p) \/ Today(p)
         \/ CheckinSelect(p) \/ EngageSelect(p) \/ VipCap(p) \/ VipPick(p)
         \/ AppendRead(p) \/ AppendNoState(p)
  PROVE  NoVip(p)
<1>1. Neutral(p)
  BY NeutralSteps
<1>2. UNCHANGED rowVars
  BY DEF EnsureFound, EnsureMissing, Today, CheckinSelect, EngageSelect, DailySelect,
     VipCap, VipPick, PickLastRow, AppendRead, AppendNoState
<1>3. RowsApart(p) /\ \A u \in Users : /\ Credited(p, u)' = Credited(p, u)
                                       /\ Vip(db'[StateRow(u)]) = Vip(db[StateRow(u)])
  BY <1>2, StatementsApart DEF Credited, Sees, Vip, rowVars
<1>4. pc \in [Procs -> Pcs] /\ todo' = todo
  BY DEF TypeInv, Shared, EnsureFound, EnsureMissing, Today, CheckinSelect, EngageSelect,
     DailySelect, VipCap, VipPick, PickLastRow, AppendRead, AppendNoState
<1>5. CASE AppendRead(p) \/ AppendNoState(p)
  <2>1. pc[p] = "append" /\ pc'[p] \in {"insert", "makeState"}
    BY <1>4, <1>5 DEF AppendRead, AppendNoState, Goto
  <2>2. pc'[p] = "makeState" => AppendNoState(p)
    BY <1>4, <1>5 DEF AppendRead, Goto
  <2>3. AppendNoState(p) => Making(p)'
    BY <1>2, <1>4 DEF AppendNoState, Exists, Sees, Making, rowVars
  <2>4. QED
    BY <1>1, <1>3, <1>4, <2>1, <2>2, <2>3 DEF NoVip, Neutral, TodoPcs, AppendPcs
<1>6. CASE ~(AppendRead(p) \/ AppendNoState(p))
  <2>1. pc[p] \notin TodoPcs
    BY <1>6 DEF EnsureFound, EnsureMissing, Today, CheckinSelect, EngageSelect, DailySelect,
       VipCap, VipPick, TodoPcs, AppendPcs
  <2>2. PICK next : pc' = [pc EXCEPT ![p] = next] /\ next \notin {"vipState", "makeState"}
    BY <1>6 DEF EnsureFound, EnsureMissing, Today, CheckinSelect, EngageSelect, DailySelect,
       VipCap, VipPick, PickLastRow, Goto, AfterEnsure
  <2>3. pc[p] # "vipState" /\ pc'[p] \notin {"vipState", "makeState"}
    BY <1>4, <2>1, <2>2 DEF TodoPcs
  <2>4. QED
    BY <1>1, <1>3, <1>4, <2>1, <2>3 DEF NoVip, Neutral
<1>7. QED
  BY <1>5, <1>6

\* The rows of users that are made.
LEMMA MakesNoVip ==
  ASSUME NEW p \in Procs, VipInv, ~GiveUp(p), EnsureInsert(p, AfterEnsure(p)) \/ MakeState(p)
  PROVE  NoVip(p)
<1>1. TypeInv /\ Shared(VersionsOf, Events, Frames, Pcs) /\ VipOK(p)
  BY DEF VipInv, TypeInv
<1>2. Neutral(p)
  BY <1>1, NeutralSteps
<1>3. CASE EnsureInsert(p, AfterEnsure(p))
  <2>1. pc[p] = "ensureInsert" /\ pc[p] \in Pcs \ (AppendPcs \cup {"idle"})
    BY <1>3 DEF EnsureInsert, Pcs, AppendPcs
  <2>2. frame[p].user \in Users /\ StateRow(frame[p].user) \in Keys
    BY <1>1, <2>1, CallFacts
  <2>3. /\ db[StateRow(frame[p].user)] = NoRow
        /\ AutocommitRow(StateRow(frame[p].user), FreshState)
        /\ todo' = todo
    BY <1>3 DEF EnsureInsert
  <2>4. pc'[p] \in {"answer", "today"}
    BY <1>1, <1>3 DEF EnsureInsert, Goto, AfterEnsure, Shared
  <2>5. RowsApart(p)
    BY <1>1, <2>2, <2>3, Constants, StatementsApart
  <2>6. QED
    BY <1>1, <1>2, <2>1, <2>2, <2>3, <2>4, <2>5, FreshCredits
    DEF NoVip, Neutral, TodoPcs, AppendPcs
<1>4. CASE MakeState(p)
  <2>1. pc[p] = "makeState"
    BY <1>4 DEF MakeState
  <2>2. Head(todo[p]).user \in Users /\ StateRow(Head(todo[p]).user) \in Keys
    BY <1>1, <2>1, AppendFacts
  <2>3. InsertRow(p, StateRow(Head(todo[p]).user), FreshState) /\ todo' = todo
    BY <1>4 DEF MakeState
  <2>4. pc'[p] = "append"
    BY <1>1, <1>4 DEF MakeState, Goto, Shared
  <2>5. RowsApart(p)
    BY <1>1, <2>2, <2>3, Constants, StatementsApart DEF InsertRow
  <2>6. \A u \in Users : /\ Credited(p, u)' = Credited(p, u)
                         /\ Vip(db'[StateRow(u)]) = Vip(db[StateRow(u)])
    BY <1>1, <2>1, <2>2, <2>3, FreshCredits DEF VipOK, Making
  <2>7. QED
    BY <1>2, <2>1, <2>3, <2>4, <2>5, <2>6 DEF NoVip, Neutral, TodoPcs, AppendPcs
<1>5. QED
  BY <1>3, <1>4

\* The UPDATE of a check-in keeps the user's days.
LEMMA CheckinStateNoVip ==
  ASSUME NEW p \in Procs, TypeInv, ~GiveUp(p), CheckinState(p)
  PROVE  NoVip(p)
<1> DEFINE k == StateRow(frame[p].user)
<1>1. pc[p] = "checkinState" /\ pc[p] \in Pcs \ (AppendPcs \cup {"idle"})
  BY DEF CheckinState, Pcs, AppendPcs
<1>2. /\ Shared(VersionsOf, Events, Frames, Pcs) /\ LocalOK(p) /\ frame[p] \in CallFrames
      /\ frame[p].user \in Users /\ k \in Keys
  BY <1>1, CallFacts
<1>3. Neutral(p)
  BY NeutralSteps
<1>4. Sees(p, k) \in UserStates
  <2>1. db[k] \in UserStates
    BY <1>1, <1>2 DEF LocalOK, HasState
  <2>2. new[k] \in UserStates
    BY <1>2, <2>1, RowTypes DEF Shared, RowsInv
  <2>3. QED
    BY <2>1, <2>2 DEF Sees
<1>5. PICK v : v = [Sees(p, k) EXCEPT !.lastDay = frame[p].day, !.streak = frame[p].streak]
  OBVIOUS
<1>6. WriteRow(p, k, v) /\ pc' = [pc EXCEPT ![p] = "append"] /\ todo' = todo
  BY <1>5 DEF CheckinState, Goto
<1>7. frame[p].day \in Days /\ frame[p].streak \in Nat
  BY <1>1, <1>2, Constants DEF LocalOK, DayPcs
<1>8. v \in UserStates /\ Vip(v) = Vip(Sees(p, k))
  <2>1. v \in UserStates /\ v.vip = Sees(p, k).vip
    BY <1>4, <1>5, <1>7 DEF UserStates
  <2>2. QED
    BY <1>4, <2>1, NoRowAssumption DEF Vip
<1>9. ASSUME NEW u \in Users
      PROVE  /\ Vip(db'[StateRow(u)]) = Vip(db[StateRow(u)])
             /\ Credited(p, u)' = Credited(p, u)
  <2>1. v \in VersionsOf[k]
    BY <1>2, <1>8, RowTypes
  <2>2. /\ Vip(db'[StateRow(u)]) = Vip(db[StateRow(u)])
        /\ Credited(p, u)' = IF k = StateRow(u) THEN Vip(v) - Vip(db[k]) ELSE Credited(p, u)
    BY <1>2, <1>6, <2>1, WriteCredits
  <2>3. k = StateRow(u) => Credited(p, u) = Vip(Sees(p, k)) - Vip(db[k])
    BY DEF Credited
  <2>4. QED
    BY <1>8, <2>2, <2>3
<1>10. RowsApart(p)
  BY <1>2, <1>6, <1>8, StatementsApart
<1>11. pc'[p] = "append"
  BY <1>2, <1>6 DEF Shared
<1>12. QED
  BY <1>1, <1>3, <1>6, <1>9, <1>10, <1>11 DEF NoVip, Neutral, TodoPcs, AppendPcs

\* The bonus of a new account, the check-in and the engagement signal.
LEMMA GrantsNoVip ==
  ASSUME NEW p \in Procs, TypeInv, TypeInv', ~GiveUp(p),
         SignupCheck(p) \/ CheckinInsert(p) \/ EngageInsert(p)
  PROVE  NoVip(p)
<1>1. Shared(VersionsOf, Events, Frames, Pcs) /\ todo'[p] \in Seq(AppendsOf(Events))
  BY DEF TypeInv, Shared
<1>2. DOMAIN todo'[p] = 1..Len(todo'[p])
  BY <1>1, LenProperties
<1>3. CASE SignupCheck(p)
  <2>1. Neutral(p)
    BY <1>3, NeutralSteps
  <2>2. PICK a : a = Append1(frame[p].user, "SIGNUP_BONUS", SignupPoints, FALSE)
    OBVIOUS
  <2>3. a.event \notin VipEvents
    BY <2>2 DEF Append1, VipEvents
  <2>4. /\ todo' = [todo EXCEPT ![p] = <<a>>] /\ pc' = [pc EXCEPT ![p] = "append"]
        /\ UNCHANGED rowVars /\ pc[p] = "signupCheck"
    BY <1>3, <2>2 DEF SignupCheck, Goto
  <2>5. todo'[p] = <<a>> /\ pc'[p] = "append"
    BY <1>1, <2>4 DEF Shared
  <2>6. \A i \in 1..Len(todo'[p]) : todo'[p][i].event \notin VipEvents
    <3>1. Len(<<a>>) = 1 /\ <<a>>[1] = a
      OBVIOUS
    <3>2. QED
      BY <2>3, <2>5, <3>1
  <2>7. RowsApart(p) /\ \A u \in Users : /\ Credited(p, u)' = Credited(p, u)
                                         /\ Vip(db'[StateRow(u)]) = Vip(db[StateRow(u)])
    BY <2>4, StatementsApart DEF Credited, Sees, Vip, rowVars
  <2>8. QED
    BY <1>1, <2>1, <2>4, <2>5, <2>6, <2>7 DEF NoVip, Neutral, TodoPcs, AppendPcs
<1>4. CASE CheckinInsert(p) \/ EngageInsert(p)
  <2>1. PICK e \in DailyEvents, w \in Users, d \in Days :
          /\ WriteRow(p, DayRow(e, w, d), DailyRow)
          /\ \A i \in DOMAIN todo'[p] : todo'[p][i].event # "VIP_REDEEM"
          /\ pc[p] \notin PayingPcs /\ pc'[p] \in {"append", "checkinState"}
          /\ UNCHANGED <<ledger, open, inserted>> /\ OthersAll(p)
    BY <1>4, DailyInsertFacts
  <2>2. DayRow(e, w, d) \in Keys /\ DailyRow \in VersionsOf[DayRow(e, w, d)]
    BY RowTypes DEF DailyEvents, DayRow
  <2>3. \A u \in Users : DayRow(e, w, d) # StateRow(u)
    BY DayRowKeys
  <2>4. RowsApart(p)
    BY <2>1, <2>2, StatementsApart
  <2>5. \A u \in Users : /\ Credited(p, u)' = Credited(p, u)
                         /\ Vip(db'[StateRow(u)]) = Vip(db[StateRow(u)])
    BY <2>1, <2>2, <2>3, WriteCredits
  <2>6. pc[p] \in {"checkinInsert", "engageInsert"}
    BY <1>4 DEF CheckinInsert, EngageInsert, DailyInsert
  <2>7. QED
    BY <1>1, <1>2, <2>1, <2>4, <2>5, <2>6 DEF NoVip, TodoPcs, AppendPcs, VipEvents
<1>5. QED
  BY <1>3, <1>4

-----------------------------------------------------------------------------
\* A redemption that goes on: the days asked for are what its append charges.
LEMMA VipLockKeeps ==
  ASSUME NEW p \in Procs, VipInv, TypeInv', ~GiveUp(p), VipLock(p)
  PROVE  VipInv'
<1>1. TypeInv /\ Shared(VersionsOf, Events, Frames, Pcs) /\ VipOK(p) /\ IdsOK
  BY DEF VipInv, TypeInv
<1>2. pc[p] = "vipLock" /\ pc[p] \in Pcs \ (AppendPcs \cup {"idle"}) /\ pc[p] \notin TodoPcs
  BY DEF VipLock, Pcs, AppendPcs, TodoPcs
<1>3. frame[p].user \in Users /\ frame[p].days \in Nat
  BY <1>1, <1>2, CallFacts, Constants
<1>4. Neutral(p)
  BY <1>1, NeutralSteps
<1>5. PICK cost : cost = frame[p].days * VipRedeemPoints
  OBVIOUS
<1>6. PICK a : a = Append1(frame[p].user, "VIP_REDEEM", -cost, TRUE)
  OBVIOUS
<1>7. a.user = frame[p].user /\ a.event \in VipEvents /\ a.delta = -cost
  BY <1>6 DEF Append1, VipEvents
<1>8. /\ todo' = [todo EXCEPT ![p] = <<a>>] /\ pc' = [pc EXCEPT ![p] = "vipState"]
      /\ UNCHANGED <<rowVars, ledger, open, frame>>
  BY <1>5, <1>6 DEF VipLock, Goto
<1>9. todo'[p] = <<a>> /\ pc'[p] = "vipState" /\ todo[p] = <<>>
  BY <1>1, <1>2, <1>8 DEF Shared, VipOK
<1>10. IdsOK'
  BY <1>1, <1>4, IdsStay DEF Neutral
<1>11. RowsApart(p)
  BY <1>1, <1>8, StatementsApart
<1>12. \A u \in Users : VipCharged(u)'
  BY <1>8, ChargedStays DEF rowVars
<1>13. ASSUME NEW u \in Users
       PROVE  /\ FiniteFor(p, VipEvents, u)'
              /\ (Credited(p, u)' + Asked(p, u)') * VipRedeemPoints = -Moved(p, VipEvents, u)'
  <2>1. Credited(p, u)' = Credited(p, u) /\ Credited(p, u) \in Int
    BY <1>1, <1>8, VipTypes DEF Credited, Sees, Vip, rowVars
  <2>2. PICK D : D = Deltas(RowsFor(open[p], VipEvents, u))
    OBVIOUS
  <2>3. FiniteFor(p, VipEvents, u) /\ FiniteFor(p, VipEvents, u)' /\ D \in Int
    BY <1>1, <1>8, <2>2, MovedIsInt DEF VipOK, FiniteFor
  <2>4. Asked(p, u) = 0 /\ Moved(p, VipEvents, u) = D + 0
    BY <1>2, <1>9, <2>2 DEF Asked, Moved, NextPoints, NextIsFor
  <2>5. (Credited(p, u) + 0) * VipRedeemPoints = -(D + 0)
    BY <1>1, <2>4 DEF VipOK
  <2>6. <<a>> # <<>> /\ Head(<<a>>) = a
    OBVIOUS
  <2>7. Asked(p, u)' = (IF u = frame[p].user THEN frame[p].days ELSE 0)
    BY <1>8, <1>9 DEF Asked
  <2>8. Moved(p, VipEvents, u)' = D + (IF u = frame[p].user THEN -cost ELSE 0)
    BY <1>7, <1>8, <1>9, <2>2, <2>6 DEF Moved, NextPoints, NextIsFor
  <2>9. VipRedeemPoints \in Int /\ cost \in Int
    BY <1>3, <1>5, RewardsAssumption
  <2>10. CASE u = frame[p].user
    <3>1. (Credited(p, u) + frame[p].days) * VipRedeemPoints
            = Credited(p, u) * VipRedeemPoints + cost
      BY <1>3, <1>5, <2>1, <2>9, Distributes
    <3>2. Credited(p, u) * VipRedeemPoints = -D
      BY <2>1, <2>3, <2>5
    <3>3. -D + cost = -(D + -cost)
      BY <2>3, <2>9
    <3>4. (Credited(p, u)' + Asked(p, u)') * VipRedeemPoints = -D + cost
      BY <2>1, <2>7, <2>10, <3>1, <3>2
    <3>5. QED
      BY <2>3, <2>8, <2>10, <3>3, <3>4
  <2>11. CASE u # frame[p].user
    BY <2>1, <2>3, <2>5, <2>7, <2>8, <2>11
  <2>12. QED
    BY <2>10, <2>11
<1>14. RestIsNot(p, VipEvents)'
  <2>1. Len(<<a>>) = 1
    OBVIOUS
  <2>2. QED
    BY <1>9, <2>1 DEF RestIsNot
<1>15. VipOK(p)'
  BY <1>9, <1>13, <1>14 DEF VipOK, TodoPcs
<1>16. QED
  BY <1>4, <1>10, <1>11, <1>12, <1>15, VipStep DEF Neutral

-----------------------------------------------------------------------------
\* The UPDATE credits the days asked for.
LEMMA VipStateKeeps ==
  ASSUME NEW p \in Procs, VipInv, TypeInv', ~GiveUp(p), VipState(p)
  PROVE  VipInv'
<1> DEFINE k == StateRow(frame[p].user)
<1>1. TypeInv /\ Shared(VersionsOf, Events, Frames, Pcs) /\ VipOK(p) /\ IdsOK
  BY DEF VipInv, TypeInv
<1>2. pc[p] = "vipState" /\ pc[p] \in Pcs \ (AppendPcs \cup {"idle"})
  BY DEF VipState, Pcs, AppendPcs
<1>3. LocalOK(p) /\ frame[p].user \in Users /\ frame[p].days \in Nat /\ k \in Keys
  BY <1>1, <1>2, CallFacts, Constants
<1>4. Neutral(p)
  BY <1>1, NeutralSteps
<1>5. Sees(p, k) \in UserStates
  <2>1. db[k] \in UserStates
    BY <1>2, <1>3 DEF LocalOK, HasState
  <2>2. new[k] \in UserStates
    BY <1>1, <1>3, <2>1, RowTypes DEF Shared, RowsInv
  <2>3. QED
    BY <2>1, <2>2 DEF Sees
<1>6. PICK v : v = [Sees(p, k) EXCEPT !.vip = @ + frame[p].days]
  OBVIOUS
<1>7. /\ WriteRow(p, k, v) /\ pc' = [pc EXCEPT ![p] = "append"]
      /\ UNCHANGED <<ledger, open, frame, todo>>
  BY <1>6 DEF VipState, Goto, ledgerVars
<1>8. v \in UserStates /\ Vip(v) = Vip(Sees(p, k)) + frame[p].days
  <2>1. v \in UserStates /\ v.vip = Sees(p, k).vip + frame[p].days
    BY <1>3, <1>5, <1>6 DEF UserStates
  <2>2. QED
    BY <1>5, <2>1, NoRowAssumption DEF Vip
<1>9. pc'[p] = "append"
  BY <1>1, <1>7 DEF Shared
<1>10. IdsOK'
  BY <1>1, <1>4, IdsStay DEF Neutral
<1>11. RowsApart(p)
  BY <1>1, <1>3, <1>7, <1>8, StatementsApart
<1>12. ASSUME NEW u \in Users
       PROVE  /\ VipCharged(u)'
              /\ FiniteFor(p, VipEvents, u)'
              /\ (Credited(p, u)' + Asked(p, u)') * VipRedeemPoints = -Moved(p, VipEvents, u)'
  <2>1. v \in VersionsOf[k]
    BY <1>3, <1>8, RowTypes
  <2>2. /\ Vip(db'[StateRow(u)]) = Vip(db[StateRow(u)])
        /\ Credited(p, u)' = IF k = StateRow(u) THEN Vip(v) - Vip(db[k]) ELSE Credited(p, u)
    BY <1>1, <1>3, <1>7, <2>1, WriteCredits
  <2>3. VipCharged(u)'
    BY <1>7, <2>2, ChargedStays
  <2>4. /\ Moved(p, VipEvents, u)' = Moved(p, VipEvents, u)
        /\ FiniteFor(p, VipEvents, u)' /\ FiniteFor(p, VipEvents, u)
    BY <1>1, <1>7 DEF VipOK, FiniteFor, Moved, NextPoints, NextIsFor
  <2>5. Asked(p, u)' = 0
    BY <1>9 DEF Asked
  <2>6. /\ Vip(db[k]) \in Nat /\ Vip(Sees(p, k)) \in Nat
        /\ Credited(p, u) \in Int
    BY <1>1, <1>3, VipTypes
  <2>7. Credited(p, u)' + 0 = Credited(p, u) + Asked(p, u)
    <3>1. CASE u = frame[p].user
      <4>1. Asked(p, u) = frame[p].days /\ Credited(p, u) = Vip(Sees(p, k)) - Vip(db[k])
        BY <1>2, <3>1 DEF Asked, Credited
      <4>2. Credited(p, u)' = Vip(v) - Vip(db[k])
        BY <2>2, <3>1
      <4>3. QED
        BY <1>3, <1>8, <2>6, <4>1, <4>2
    <3>2. CASE u # frame[p].user
      <4>1. Asked(p, u) = 0 /\ k # StateRow(u)
        BY <3>2 DEF Asked, StateRow
      <4>2. QED
        BY <2>2, <2>6, <4>1
    <3>3. QED
      BY <3>1, <3>2
  <2>8. (Credited(p, u) + Asked(p, u)) * VipRedeemPoints = -Moved(p, VipEvents, u)
    BY <1>1 DEF VipOK
  <2>9. QED
    BY <2>3, <2>4, <2>5, <2>7, <2>8
<1>13. RestIsNot(p, VipEvents)'
  BY <1>1, <1>7 DEF VipOK, RestIsNot
<1>14. VipOK(p)'
  BY <1>9, <1>12, <1>13 DEF VipOK, TodoPcs, AppendPcs
<1>15. QED
  BY <1>4, <1>10, <1>11, <1>12, <1>14, VipStep DEF Neutral

\* The INSERT of a ledger row charges what was to be charged next.
LEMMA AppendInsertVip ==
  ASSUME NEW p \in Procs, VipInv, TypeInv', AppendInsert(p, "commit")
  PROVE  VipInv'
<1>1. TypeInv /\ Shared(VersionsOf, Events, Frames, Pcs) /\ IdsOK /\ VipOK(p)
  BY DEF VipInv, TypeInv
<1>2. IdsOK'
  BY <1>1, IdsStay
<1>3. UNCHANGED <<rowVars, ledger, frame>> /\ pc[p] = "insert"
  BY DEF AppendInsert
<1>4. /\ pc'[p] \in {"append", "commit"} /\ (pc'[p] = "commit" => todo'[p] = <<>>)
      /\ \A q \in Procs \ {p} : open'[q] = open[q] /\ todo'[q] = todo[q]
  BY <1>1, InsertPays
<1>5. OthersAll(p)
  <2>1. \A q \in Procs \ {p} : pc'[q] = pc[q] /\ bal'[q] = bal[q]
    BY <1>1 DEF AppendInsert, Goto, Shared
  <2>2. QED
    BY <1>3, <1>4, <2>1 DEF OthersAll
<1>6. RowsApart(p)
  BY <1>1, <1>3, StatementsApart
<1>7. \A u \in Users : VipCharged(u)'
  BY <1>3, ChargedStays DEF rowVars
<1>8. RestIsNot(p, VipEvents)
  BY <1>1 DEF VipOK
<1>9. ASSUME NEW u \in Users
      PROVE  /\ FiniteFor(p, VipEvents, u)' /\ RestIsNot(p, VipEvents)'
             /\ (Credited(p, u)' + Asked(p, u)') * VipRedeemPoints = -Moved(p, VipEvents, u)'
  <2>1. FiniteFor(p, VipEvents, u)
    BY <1>1 DEF VipOK
  <2>2. /\ FiniteFor(p, VipEvents, u)' /\ RestIsNot(p, VipEvents)'
        /\ Moved(p, VipEvents, u)' = Moved(p, VipEvents, u)
    BY <1>1, <1>8, <2>1, InsertMoves
  <2>3. Credited(p, u)' = Credited(p, u) /\ Asked(p, u) = 0 /\ Asked(p, u)' = 0
    BY <1>3, <1>4 DEF Credited, Sees, Vip, Asked, rowVars
  <2>4. QED
    BY <1>1, <2>2, <2>3 DEF VipOK
<1>10. RestIsNot(p, VipEvents)'
  <2>1. Head(todo[p]).user \in Users
    BY <1>1, <1>3, AppendFacts
  <2>2. QED
    BY <1>9, <2>1
<1>11. VipOK(p)'
  BY <1>4, <1>9, <1>10 DEF VipOK, TodoPcs, AppendPcs
<1>12. QED
  BY <1>2, <1>5, <1>6, <1>7, <1>11, VipStep

-----------------------------------------------------------------------------
\* A transaction that ends has credited and charged nothing any more.
LEMMA EndedVipOK ==
  ASSUME NEW p \in Procs, TypeInv', pc'[p] = "idle", todo'[p] = <<>>, open'[p] = {},
         \A k \in Keys : owner'[k] # p
  PROVE  VipOK(p)'
<1>1. ASSUME NEW u \in Users
      PROVE  Credited(p, u)' = 0 /\ Asked(p, u)' = 0
  <2>1. StateRow(u) \in Keys
    BY RowTypes
  <2>2. Credited(p, u)' = Vip(db[StateRow(u)])' - Vip(db[StateRow(u)])'
    BY <2>1 DEF Credited, Sees
  <2>3. db'[StateRow(u)] \in UserStates \cup {NoRow}
    BY <2>1, RowTypes DEF TypeInv, Shared, RowsInv
  <2>4. Vip(db[StateRow(u)])' \in Nat
    BY <2>3 DEF Vip, UserStates
  <2>5. QED
    BY <2>2, <2>4 DEF Asked
<1>2. RestIsNot(p, VipEvents)'
  BY EndedMovesNone
<1>3. \A u \in Users : FiniteFor(p, VipEvents, u)' /\ Moved(p, VipEvents, u)' = 0
  BY EndedMovesNone
<1>4. (0 + 0) * VipRedeemPoints = -0
  BY RewardsAssumption
<1>5. QED
  BY <1>1, <1>2, <1>3, <1>4 DEF VipOK

LEMMA GiveUpVip ==
  ASSUME NEW p \in Procs, VipInv, TypeInv', GiveUp(p)
  PROVE  VipInv'
<1>1. TypeInv /\ Shared(VersionsOf, Events, Frames, Pcs) /\ IdsOK
  BY DEF VipInv, TypeInv
<1>2. IdsOK'
  BY <1>1, IdsStay
<1>3. RollbackRows(p) /\ UNCHANGED <<db, ledger>>
  BY DEF GiveUp, RollbackRows
<1>4. pc'[p] = "idle" /\ todo'[p] = <<>> /\ open'[p] = {} /\ OthersAll(p)
  BY <1>1 DEF OthersAll, GiveUp, Return, Goto, Shared
<1>5. \A k \in Keys : owner'[k] # p
  BY <1>1, <1>3, EndedRows
<1>6. VipOK(p)'
  BY <1>4, <1>5, EndedVipOK
<1>7. RowsApart(p)
  BY <1>1, <1>3, StatementsApart
<1>8. \A u \in Users : VipCharged(u)'
  BY <1>3, ChargedStays
<1>9. QED
  BY <1>2, <1>4, <1>6, <1>7, <1>8, VipStep

\* COMMIT: the days and the row that charges for them are published together.
LEMMA CommitVip ==
  ASSUME NEW p \in Procs, VipInv, TypeInv', Commit(p)
  PROVE  VipInv'
<1>1. TypeInv /\ Shared(VersionsOf, Events, Frames, Pcs) /\ IdsOK /\ VipOK(p)
  BY DEF VipInv, TypeInv
<1>2. IdsOK'
  BY <1>1, IdsStay DEF Commit, clockVars
<1>3. CommitRows(p) /\ ledger' = ledger \cup open[p] /\ pc[p] = "commit"
  BY DEF Commit, CommitLedger
<1>4. pc'[p] = "idle" /\ todo'[p] = <<>> /\ open'[p] = {} /\ OthersAll(p)
  BY <1>1 DEF OthersAll, Commit, CommitLedger, Return, Goto, Shared
<1>5. \A k \in Keys : owner'[k] # p
  BY <1>1, <1>3, EndedRows
<1>6. VipOK(p)'
  BY <1>4, <1>5, EndedVipOK
<1>7. RowsApart(p)
  BY <1>1, <1>3, StatementsApart
<1>8. ASSUME NEW u \in Users PROVE VipCharged(u)'
  <2>1. VipCharged(u) /\ todo[p] = <<>>
    BY <1>1, <1>3 DEF VipInv, VipOK
  <2>2. FiniteFor(p, VipEvents, u)
    BY <1>1 DEF VipOK
  <2>3. /\ IsFiniteSet(RowsFor(ledger', VipEvents, u))
        /\ PointsFor(VipEvents, u)' = PointsFor(VipEvents, u) + Moved(p, VipEvents, u)
        /\ PointsFor(VipEvents, u) \in Int /\ Moved(p, VipEvents, u) \in Int
    BY <1>1, <1>3, <2>1, <2>2, CommitMoves DEF VipCharged
  <2>4. /\ StateRow(u) \in Keys /\ Vip(db[StateRow(u)]) \in Nat
        /\ Vip(Sees(p, StateRow(u))) \in Nat /\ Credited(p, u) \in Int
    BY <1>1, VipTypes
  <2>5. db'[StateRow(u)] = Sees(p, StateRow(u))
    BY <1>1, <1>3, <2>4, RowTypes DEF CommitRows, Shared, RowsInv
  <2>6. Vip(db'[StateRow(u)]) = Vip(db[StateRow(u)]) + Credited(p, u)
    BY <2>4, <2>5 DEF Credited
  <2>7. Asked(p, u) = 0
    BY <1>3 DEF Asked
  <2>8. Credited(p, u) * VipRedeemPoints = -Moved(p, VipEvents, u)
    <3>1. (Credited(p, u) + Asked(p, u)) * VipRedeemPoints = -Moved(p, VipEvents, u)
      BY <1>1 DEF VipOK
    <3>2. Credited(p, u) + 0 = Credited(p, u)
      BY <2>4
    <3>3. QED
      BY <2>7, <3>1, <3>2
  <2>9. Vip(db[StateRow(u)]) * VipRedeemPoints = -PointsFor(VipEvents, u)
    BY <2>1 DEF VipCharged
  <2>10. Vip(db'[StateRow(u)]) * VipRedeemPoints = -PointsFor(VipEvents, u)'
    <3>1. (Vip(db[StateRow(u)]) + Credited(p, u)) * VipRedeemPoints
            = Vip(db[StateRow(u)]) * VipRedeemPoints + Credited(p, u) * VipRedeemPoints
      BY <2>4, RewardsAssumption, Distributes
    <3>2. QED
      BY <2>3, <2>6, <2>8, <2>9, <3>1
  <2>11. QED
    BY <2>3, <2>10 DEF VipCharged, Vip
<1>9. QED
  BY <1>2, <1>4, <1>6, <1>7, <1>8, VipStep

-----------------------------------------------------------------------------
LEMMA InitVip == Init => VipInv
<1> SUFFICES ASSUME Init PROVE VipInv
  OBVIOUS
<1>1. TypeInv
  BY InitTypes
<1>2. /\ \A k \in Keys : db[k] = NoRow /\ owner[k] = NoProc
      /\ ledger = {} /\ \A p \in Procs : open[p] = {} /\ todo[p] = <<>> /\ pc[p] = "idle"
  BY DEF Init, LedgerInit, RowsInit
<1>3. IdsOK
  BY <1>2 DEF IdsOK
<1>4. \A S, u : RowsFor({}, S, u) = {}
  BY DEF RowsFor
<1>5. 0 * VipRedeemPoints = -0
  BY RewardsAssumption
<1>6. ASSUME NEW p \in Procs PROVE VipOK(p)
  <2>1. Len(todo[p]) = 0
    BY <1>2, EmptySeq
  <2>2. RestIsNot(p, VipEvents)
    BY <2>1 DEF RestIsNot
  <2>3. ASSUME NEW u \in Users
        PROVE  /\ FiniteFor(p, VipEvents, u)
               /\ Credited(p, u) = 0 /\ Asked(p, u) = 0 /\ Moved(p, VipEvents, u) = 0
    <3>1. FiniteFor(p, VipEvents, u) /\ Moved(p, VipEvents, u) = 0
      <4>1. RowsFor(open[p], VipEvents, u) = {} /\ NextPoints(p, VipEvents, u) = 0
        BY <1>2, <1>4 DEF NextPoints, NextIsFor
      <4>2. QED
        BY <4>1, DeltasOfNone, FS_EmptySet DEF FiniteFor, Moved
    <3>2. Credited(p, u) = 0 /\ Asked(p, u) = 0
      BY <1>2, RowTypes, LedgerAssumption DEF Credited, Sees, Vip, Asked
    <3>3. QED
      BY <3>1, <3>2
  <2>4. QED
    BY <1>2, <1>5, <2>2, <2>3 DEF VipOK
<1>7. ASSUME NEW u \in Users PROVE VipCharged(u)
  <2>1. Vip(db[StateRow(u)]) = 0
    BY <1>2, RowTypes DEF Vip
  <2>2. QED
    BY <1>2, <1>4, <1>5, <2>1, DeltasOfNone, FS_EmptySet DEF VipCharged, PointsFor
<1>8. QED
  BY <1>1, <1>3, <1>6, <1>7 DEF VipInv

LEMMA VipStays == VipInv /\ [Next]_vars => VipInv'
<1> SUFFICES ASSUME VipInv, [Next]_vars PROVE VipInv'
  OBVIOUS
<1>1. TypeInv /\ TypeInv' /\ Shared(VersionsOf, Events, Frames, Pcs)
  BY TypesStay DEF VipInv, TypeInv
<1>2. ASSUME NEW p \in Procs, Start(p) PROVE VipInv'
  <2>0. PICK op \in Ops, u \in Users : \E n : StartCall(p, Frame(op, u, n), First[op])
    BY <1>2 DEF Start
  <2>1. PICK n : StartCall(p, Frame(op, u, n), First[op])
    BY <2>0
  <2>2. PICK f, first : f = Frame(op, u, n) /\ first = First[op]
    OBVIOUS
  <2>3. first \in {"signupCheck", "vipCap", "ensure"}
    BY <2>2, RewardsAssumption DEF First
  <2>4. /\ pc[p] = "idle" /\ pc' = [pc EXCEPT ![p] = first] /\ frame' = [frame EXCEPT ![p] = f]
        /\ UNCHANGED <<rowVars, ledger, open, inserted, todo, bal>>
    BY <2>1, <2>2 DEF StartCall, Goto, ledgerVars, clockVars
  <2>5. OthersAll(p) /\ pc'[p] = first
    BY <1>1, <2>4 DEF OthersAll, Shared
  <2>6. RowsApart(p) /\ \A v \in Users : /\ Credited(p, v)' = Credited(p, v)
                                         /\ Vip(db'[StateRow(v)]) = Vip(db[StateRow(v)])
    BY <1>1, <2>4, StatementsApart DEF Credited, Sees, Vip, rowVars
  <2>7. NoVip(p)
    BY <2>3, <2>4, <2>5, <2>6 DEF NoVip, TodoPcs, AppendPcs
  <2>8. QED
    BY <1>1, <2>7, NoVipKeeps
<1>3. ASSUME NEW p \in Procs, Step(p) PROVE VipInv'
  <2>1. CASE GiveUp(p)
    BY <1>1, <2>1, GiveUpVip
  <2>2. CASE ~GiveUp(p)
    <3>1. ~Answer(p) /\ ~AppendDuplicate(p)
      BY <2>2 DEF Answer, AppendDuplicate
    <3>2. CASE Commit(p)
      BY <1>1, <3>2, CommitVip
    <3>3. CASE AppendInsert(p, "commit")
      BY <1>1, <3>3, AppendInsertVip
    <3>4. CASE VipLock(p)
      BY <1>1, <2>2, <3>4, VipLockKeeps
    <3>5. CASE VipState(p)
      BY <1>1, <2>2, <3>5, VipStateKeeps
    <3>6. CASE ~(Commit(p) \/ AppendInsert(p, "commit") \/ VipLock(p) \/ VipState(p))
      <4>1. NoVip(p)
        BY <1>1, <1>3, <2>2, <3>1, <3>6, ReadsNoVip, MakesNoVip, CheckinStateNoVip, GrantsNoVip
        DEF Step
      <4>2. QED
        BY <1>1, <4>1, NoVipKeeps
    <3>7. QED
      BY <3>2, <3>3, <3>4, <3>5, <3>6
  <2>3. QED
    BY <2>1, <2>2
<1>4. ASSUME NEW p \in Procs, Crash(p) PROVE VipInv'
  BY <1>1, <1>4, GiveUpVip DEF Crash
<1>5. CASE NextDay \/ UNCHANGED vars
  <2>1. UNCHANGED <<rowVars, ledger, open, inserted, pc, todo, frame>>
    BY <1>5 DEF NextDay, vars, ledgerVars, clockVars
  <2>2. IdsOK'
    BY <2>1 DEF IdsOK, VipInv
  <2>3. ASSUME NEW p \in Procs PROVE VipOK(p)'
    <3>1. /\ RestIsNot(p, VipEvents)' <=> RestIsNot(p, VipEvents)
          /\ pc[p] = "makeState" => (Making(p)' <=> Making(p))
          /\ pc'[p] = pc[p] /\ todo'[p] = todo[p]
      BY <2>1 DEF RestIsNot, Making, rowVars
    <3>2. ASSUME NEW u \in Users
          PROVE  /\ FiniteFor(p, VipEvents, u)' <=> FiniteFor(p, VipEvents, u)
                 /\ Credited(p, u)' = Credited(p, u) /\ Asked(p, u)' = Asked(p, u)
                 /\ Moved(p, VipEvents, u)' = Moved(p, VipEvents, u)
      BY <2>1 DEF FiniteFor, Credited, Sees, Vip, Asked, Moved, NextPoints, NextIsFor, rowVars
    <3>3. QED
      BY <3>1, <3>2 DEF VipInv, VipOK
  <2>4. \A u \in Users : VipCharged(u)'
    BY <2>1, ChargedStays DEF rowVars
  <2>5. QED
    BY <1>1, <2>2, <2>3, <2>4 DEF VipInv
<1>6. QED
  BY <1>2, <1>3, <1>4, <1>5 DEF Next, Quiet

\* The VIP days a user was credited are the days the ledger charged for,
\* whichever redemptions race and wherever an instance dies between the UPDATE
\* of the user's row and the INSERT of the row that charges for it.
THEOREM VipDaysAreCharged == Spec => []VipDaysMatchLedger
<1>1. VipInv => VipDaysMatchLedger
  <2> SUFFICES ASSUME VipInv, NEW u \in Users, db[StateRow(u)] # NoRow
               PROVE  db[StateRow(u)].vip * VipRedeemPoints
                        = RedeemedPoints(ledger, u, {Month(d) : d \in Days})
    BY DEF VipDaysMatchLedger
  <2>1. VipCharged(u) /\ ledger \subseteq RowsOf(Events)
    BY DEF VipInv, TypeInv, Shared
  <2>2. \A r \in ledger : Month(r.day) \in {Month(d) : d \in Days}
    BY <2>1 DEF RowsOf, Days
  <2>3. {r \in ledger : /\ r.user = u /\ r.event = "VIP_REDEEM"
                        /\ Month(r.day) \in {Month(d) : d \in Days}}
          = RowsFor(ledger, VipEvents, u)
    BY <2>2 DEF RowsFor, VipEvents
  <2>4. RedeemedPoints(ledger, u, {Month(d) : d \in Days}) = -PointsFor(VipEvents, u)
    BY <2>3 DEF RedeemedPoints, PointsFor
  <2>5. QED
    BY <2>1, <2>4 DEF VipCharged, Vip
<1>2. QED
  BY <1>1, InitVip, VipStays, PTL DEF Spec

-----------------------------------------------------------------------------
\* Streaks.  A check-in works out the streak from what it read of the user's
\* row, outside any transaction, several statements before its COMMIT publishes
\* the streak together with the day row.  What it read is still true then: only
\* a check-in changes it, and the one that did so first has committed the row
\* of the day, which refuses the INSERT of this one.  A day that ended in
\* between would break this argument, which is made for MidCallRollover = FALSE.

\* What a version of a user's row says of the streak.
Tally(version) ==
  IF version = NoRow THEN [last |-> NoDay, run |-> 0]
  ELSE [last |-> version.lastDay, run |-> version.streak]

\* What is committed, and what the transaction that has the row has written.
Committed(u) == Tally(db[StateRow(u)])
Written(u) == Tally(new[StateRow(u)])

\* What the next check-in of the user makes of it.
NextTally(u) ==
  [last |-> day, run |-> IF Committed(u).last = day - 1 THEN Committed(u).run + 1 ELSE 1]

Checked(u) == {d \in Days : db[CheckinRow(u, d)] # NoRow}

NotYet(u) == db[CheckinRow(u, day)] = NoRow

\* The check-in of p has updated the user's row; it has inserted its day row.
Updated(p) == pc[p] \in AppendPcs /\ frame[p].op = "checkin"
Inserted(p) == pc[p] = "checkinState" \/ Updated(p)

SelectPcs == {"checkinSelect", "checkinInsert", "checkinState"}

OtherPcs == {"signupCheck", "engageSelect", "engageInsert"} \cup VipPcs

\* The locals of a call agree with what is committed, until a check-in of the
\* same user and day commits.
StreakLocals(p) ==
  LET f == frame[p] IN
  /\ pc[p] \in {"ensure", "ensureInsert"} => f.lastDay = NoDay /\ f.streak = 0
  /\ pc[p] = "today" /\ NotYet(f.user) =>
       [last |-> f.lastDay, run |-> f.streak] = Committed(f.user)
  /\ pc[p] \in SelectPcs => f.op = "checkin"
  /\ pc[p] \in OtherPcs => f.op # "checkin"
  /\ pc[p] \in SelectPcs \/ Updated(p) =>
       /\ f.day = day
       /\ NotYet(f.user) => [last |-> f.day, run |-> f.streak] = NextTally(f.user)

\* The rows of p's transaction: the day row of its check-in and no other, and
\* streaks as they are committed, but for the one its check-in has counted.
StreakRows(p) ==
  /\ \A u \in Users, d \in Days : owner[CheckinRow(u, d)] = p =>
       /\ Inserted(p) /\ u = frame[p].user /\ d = day
       /\ db[CheckinRow(u, d)] = NoRow /\ new[CheckinRow(u, d)] # NoRow
  /\ Inserted(p) => owner[CheckinRow(frame[p].user, day)] = p
  /\ Updated(p) => owner[StateRow(frame[p].user)] = p
  /\ \A u \in Users : owner[StateRow(u)] = p =>
       Written(u) = IF Updated(p) /\ u = frame[p].user THEN NextTally(u) ELSE Committed(u)

\* What is committed: the streak ends on the last day checked in on, and goes
\* back exactly as far as the days do.
StreakCounted(u) ==
  LET last == Committed(u).last
      run == Committed(u).run
  IN
  /\ \A d \in Checked(u) : d <= day /\ d <= last
  /\ Checked(u) = {} => last = NoDay /\ run = 0
  /\ Checked(u) # {} =>
       /\ last \in Checked(u) /\ run >= 1
       /\ \A d \in (last - run + 1)..last : d \in Checked(u)
       /\ last - run \notin Checked(u)

StreakInv ==
  /\ VipInv
  /\ \A p \in Procs : StreakLocals(p) /\ StreakRows(p)
  /\ \A u \in Users : StreakCounted(u)

\* The keys of the rows a check-in writes.
LEMMA CheckinRowKeys ==
  /\ \A u \in Users, d \in Days :
       /\ CheckinRow(u, d) \in Keys
       /\ \A v \in Users : CheckinRow(u, d) # StateRow(v)
       /\ \A v \in Users, c \in Days :
            /\ CheckinRow(u, d) # EngagedRow(v, c)
            /\ CheckinRow(u, d) = CheckinRow(v, c) => u = v /\ d = c
  /\ \A u, v \in Users : StateRow(u) = StateRow(v) => u = v
<1>1. \A u \in Users, d \in Days : CheckinRow(u, d) \in Keys
  BY RowTypes
<1>2. QED
  BY <1>1 DEF CheckinRow, EngagedRow, StateRow

LEMMA TallyTypes ==
  ASSUME TypeInv, NEW u \in Users
  PROVE  /\ day \in Days
         /\ Committed(u).last \in Days \cup {NoDay} /\ Committed(u).run \in Nat
         /\ Committed(u) = [last |-> Committed(u).last, run |-> Committed(u).run]
<1>1. db[StateRow(u)] \in UserStates \cup {NoRow}
  BY RowTypes DEF TypeInv, Shared, RowsInv
<1>2. QED
  BY <1>1 DEF Committed, Tally, UserStates, TypeInv, Shared, Days

\* Only the COMMIT of a check-in changes what is committed of a streak.
TalliesKept(p) ==
  \A u \in Users :
    \/ Committed(u)' = Committed(u)
    \/ owner[CheckinRow(u, day)] = p /\ db'[CheckinRow(u, day)] # NoRow

\* A step of p does not disturb what the invariant says of the others.
LEMMA OthersStreakOK ==
  ASSUME NEW p \in Procs, StreakInv, OthersAll(p), RowsApart(p), RowsStay(VersionsOf),
         day' = day, TalliesKept(p), NEW q \in Procs, q # p
  PROVE  StreakLocals(q)' /\ StreakRows(q)'
<1>1. /\ StreakLocals(q) /\ StreakRows(q) /\ TypeInv /\ LocalOK(q) /\ day \in Days
  BY TallyTypes DEF StreakInv, VipInv, TypeInv, Shared, Days
<1>2. pc'[q] = pc[q] /\ frame'[q] = frame[q]
  BY DEF OthersAll
<1>3. (Updated(q)' <=> Updated(q)) /\ (Inserted(q)' <=> Inserted(q))
  BY <1>2 DEF Updated, Inserted
<1>4. \A u \in Users : NotYet(u)' => NotYet(u)
  <2> SUFFICES ASSUME NEW u \in Users, db[CheckinRow(u, day)] # NoRow
               PROVE  db'[CheckinRow(u, day)] # NoRow
    BY DEF NotYet
  <2>1. CheckinRow(u, day) \in Keys /\ VersionsOf[CheckinRow(u, day)] = {DailyRow}
    BY <1>1, RowTypes
  <2>2. db[CheckinRow(u, day)] = DailyRow
    BY <1>1, <2>1, RowTypes DEF TypeInv, Shared, RowsInv
  <2>3. db'[CheckinRow(u, day)] = DailyRow
    BY <2>1, <2>2, RowTypes DEF RowsStay
  <2>4. QED
    BY <2>3, NoRowAssumption
<1>5. ASSUME NEW u \in Users, NotYet(u)' \/ owner[CheckinRow(u, day)] = q
      PROVE  Committed(u)' = Committed(u) /\ NextTally(u)' = NextTally(u)
  <2>1. Committed(u)' = Committed(u)
    BY <1>5 DEF TalliesKept, NotYet
  <2>2. QED
    BY <2>1 DEF NextTally
<1>6. pc[q] # "idle" => frame[q].user \in Users
  BY <1>1, Constants DEF LocalOK
<1>7. StreakLocals(q)'
  <2>1. pc[q] \in SelectPcs \/ pc[q] = "today" \/ Updated(q) => pc[q] # "idle"
    BY DEF SelectPcs, Updated, AppendPcs
  <2>2. QED
    BY <1>1, <1>2, <1>3, <1>4, <1>5, <1>6, <2>1 DEF StreakLocals
<1>8. StreakRows(q)'
  <2>1. Inserted(q) => frame[q].user \in Users
    BY <1>6 DEF Inserted, Updated, AppendPcs
  <2>2. \A u \in Users, d \in Days : owner'[CheckinRow(u, d)] = q =>
          /\ Inserted(q) /\ u = frame[q].user /\ d = day
          /\ db'[CheckinRow(u, d)] = NoRow /\ new'[CheckinRow(u, d)] # NoRow
    BY <1>1, CheckinRowKeys DEF StreakRows, RowsApart
  <2>3. Inserted(q) => owner'[CheckinRow(frame[q].user, day)] = q
    BY <1>1, <2>1, CheckinRowKeys DEF StreakRows, RowsApart
  <2>4. Updated(q) => owner'[StateRow(frame[q].user)] = q
    BY <1>1, <2>1, RowTypes DEF StreakRows, RowsApart, Inserted
  <2>5. ASSUME NEW u \in Users, owner'[StateRow(u)] = q
        PROVE  Written(u)' = (IF Updated(q) /\ u = frame[q].user THEN NextTally(u)' ELSE Committed(u)')
    <3>1. owner[StateRow(u)] = q /\ new'[StateRow(u)] = new[StateRow(u)]
            /\ db'[StateRow(u)] = db[StateRow(u)]
      BY <2>5, RowTypes DEF RowsApart
    <3>2. Written(u)' = Written(u) /\ Committed(u)' = Committed(u)
      BY <3>1 DEF Written, Committed, Tally
    <3>3. Written(u) = IF Updated(q) /\ u = frame[q].user THEN NextTally(u) ELSE Committed(u)
      BY <1>1, <3>1 DEF StreakRows
    <3>4. NextTally(u)' = NextTally(u)
      BY <3>2 DEF NextTally
    <3>5. QED
      BY <3>2, <3>3, <3>4
  <2>6. QED
    BY <1>2, <1>3, <2>2, <2>3, <2>4, <2>5 DEF StreakRows
<1>9. QED
  BY <1>7, <1>8

\* While no transaction commits, so that the committed days and streaks are as
\* they were, only p has to be looked at.
DaysKept ==
  /\ day' = day
  /\ \A u \in Users :
       /\ Committed(u)' = Committed(u)
       /\ \A d \in Days : db'[CheckinRow(u, d)] = db[CheckinRow(u, d)]

LEMMA StreakStep ==
  ASSUME NEW p \in Procs, StreakInv, VipInv', OthersAll(p), RowsApart(p), RowsStay(VersionsOf),
         DaysKept, StreakLocals(p)', StreakRows(p)'
  PROVE  StreakInv'
<1>1. \A u \in Users : StreakCounted(u)'
  <2> SUFFICES ASSUME NEW u \in Users PROVE StreakCounted(u)'
    OBVIOUS
  <2>1. Checked(u)' = Checked(u) /\ Committed(u)' = Committed(u) /\ day' = day
    BY DEF Checked, DaysKept
  <2>2. StreakCounted(u)
    BY DEF StreakInv
  <2>3. QED
    BY <2>1, <2>2 DEF StreakCounted
<1>2. TalliesKept(p)
  BY DEF TalliesKept, DaysKept
<1>3. QED
  BY <1>1, <1>2, OthersStreakOK DEF StreakInv, DaysKept

-----------------------------------------------------------------------------
\* A statement that writes no row, and has neither inserted a day row nor is
\* about to think that it has.
LEMMA ReadStreak ==
  ASSUME NEW p \in Procs, StreakInv, VipInv', UNCHANGED <<rowVars, day>>, OthersAll(p),
         Updated(p)' <=> Updated(p), Inserted(p)' <=> Inserted(p),
         Inserted(p) => frame'[p] = frame[p], StreakLocals(p)'
  PROVE  StreakInv'
<1>1. TypeInv /\ StreakRows(p)
  BY DEF StreakInv, VipInv
<1>2. RowsApart(p) /\ RowsStay(VersionsOf)
  BY <1>1, StatementsApart, ReadStep
<1>3. \A u \in Users : /\ Committed(u)' = Committed(u) /\ Written(u)' = Written(u)
                       /\ NextTally(u)' = NextTally(u)
  BY DEF NextTally, Committed, Written, Tally, rowVars
<1>4. DaysKept
  BY <1>3 DEF DaysKept, rowVars
<1>5. owner' = owner /\ new' = new /\ db' = db /\ day' = day
  BY DEF rowVars
<1>6. StreakRows(p)'
  <2>1. Updated(p) => Inserted(p)
    BY DEF Inserted
  <2>2. QED
    BY <1>1, <1>3, <1>5, <2>1 DEF StreakRows
<1>7. QED
  BY <1>2, <1>4, <1>6, StreakStep

\* The SELECTs of a call that has inserted no day row, and the appends.
LEMMA ReadsKeepStreak ==
  ASSUME NEW p \in Procs, StreakInv, VipInv', ~GiveUp(p),
         \/ EnsureFound(p) \/ EnsureMissing(p) \/ Today(p) \/ SignupCheck(p)
         \/ CheckinSelect(p) \/ EngageSelect(p) \/ VipCap(p) \/ VipPick(p) \/ VipLock(p)
  PROVE  StreakInv'
<1>1. TypeInv /\ Shared(VersionsOf, Events, Frames, Pcs) /\ StreakLocals(p)
  BY DEF StreakInv, VipInv, TypeInv
<1>2. OthersAll(p)
  BY <1>1, NeutralSteps DEF Neutral
<1>3. UNCHANGED <<rowVars, day>>
  BY DEF EnsureFound, EnsureMissing, Today, SignupCheck, CheckinSelect, EngageSelect, DailySelect,
     VipCap, VipPick, VipLock, PickLastRow, clockVars
<1>4. pc[p] \in {"ensure", "today", "signupCheck", "checkinSelect", "engageSelect", "vipCap",
                 "vipPick", "vipLock"}
  BY DEF EnsureFound, EnsureMissing, Today, SignupCheck, CheckinSelect, EngageSelect, DailySelect,
     VipCap, VipPick, VipLock
<1>5. pc[p] \in Pcs \ (AppendPcs \cup {"idle"}) /\ ~Inserted(p) /\ ~Updated(p)
  BY <1>4 DEF Inserted, Updated, Pcs, AppendPcs
<1>6. frame[p] \in CallFrames /\ frame[p].user \in Users /\ frame[p] \in Frames
  BY <1>1, <1>5, CallFacts, Constants
<1>7. /\ \A u \in Users : NotYet(u)' = NotYet(u) /\ Committed(u)' = Committed(u)
      /\ \A u \in Users : NextTally(u)' = NextTally(u)
  BY <1>3 DEF NotYet, NextTally, Committed, Tally, rowVars
<1>8. CASE EnsureFound(p)
  <2>1. PICK s : s = db[StateRow(frame[p].user)]
    OBVIOUS
  <2>2. PICK f : f = [frame[p] EXCEPT !.lastDay = s.lastDay, !.streak = s.streak]
    OBVIOUS
  <2>3. frame'[p] = f /\ pc'[p] \in {"answer", "today"}
    BY <1>1, <1>8, <2>1, <2>2 DEF EnsureFound, Goto, AfterEnsure, Shared
  <2>4. f.user = frame[p].user /\ f.lastDay = s.lastDay /\ f.streak = s.streak
    BY <1>6, <2>2 DEF CallFrames, Frames
  <2>5. [last |-> f.lastDay, run |-> f.streak] = Committed(f.user)
    BY <1>8, <2>1, <2>4 DEF EnsureFound, Committed, Tally
  <2>6. StreakLocals(p)'
    BY <1>6, <1>7, <2>3, <2>4, <2>5
    DEF StreakLocals, SelectPcs, OtherPcs, VipPcs, Updated, AppendPcs
  <2>7. ~Updated(p)' /\ ~Inserted(p)'
    BY <2>3 DEF Inserted, Updated, AppendPcs
  <2>8. QED
    BY <1>2, <1>3, <1>5, <2>6, <2>7, ReadStreak
<1>9. CASE Today(p)
  <2>1. PICK n : n = IF frame[p].lastDay = day - 1 THEN frame[p].streak + 1 ELSE 1
    OBVIOUS
  <2>2. PICK f : f = [frame[p] EXCEPT !.day = day, !.streak = n]
    OBVIOUS
  <2>3. /\ frame' = [frame EXCEPT ![p].day = day, ![p].streak = n]
        /\ pc' = [pc EXCEPT ![p] = IF frame[p].op = "checkin" THEN "checkinSelect" ELSE "engageSelect"]
        /\ pc[p] = "today"
    BY <1>9, <2>1 DEF Today, Goto
  <2>4. /\ frame'[p] = f
        /\ pc'[p] = IF frame[p].op = "checkin" THEN "checkinSelect" ELSE "engageSelect"
    BY <1>1, <2>2, <2>3 DEF Shared
  <2>5. f.user = frame[p].user /\ f.op = frame[p].op /\ f.day = day /\ f.streak = n
    BY <1>6, <2>2 DEF CallFrames, Frames
  <2>6. NotYet(f.user) => [last |-> f.day, run |-> f.streak] = NextTally(f.user)
    <3>1. SUFFICES ASSUME NotYet(frame[p].user) PROVE n = NextTally(frame[p].user).run
      BY <2>5 DEF NextTally
    <3>2. [last |-> frame[p].lastDay, run |-> frame[p].streak] = Committed(frame[p].user)
      BY <1>1, <2>3, <3>1 DEF StreakLocals
    <3>3. frame[p].lastDay = Committed(frame[p].user).last /\ frame[p].streak = Committed(frame[p].user).run
      BY <3>2
    <3>4. QED
      BY <2>1, <3>3 DEF NextTally
  <2>7. StreakLocals(p)'
    BY <1>3, <1>6, <1>7, <2>4, <2>5, <2>6
    DEF StreakLocals, SelectPcs, OtherPcs, VipPcs, Updated, AppendPcs
  <2>8. ~Updated(p)' /\ ~Inserted(p)'
    BY <2>4 DEF Inserted, Updated, AppendPcs
  <2>9. QED
    BY <1>2, <1>3, <1>5, <2>7, <2>8, ReadStreak
<1>10. CASE EnsureMissing(p) \/ SignupCheck(p) \/ CheckinSelect(p) \/ EngageSelect(p)
              \/ VipCap(p) \/ VipPick(p) \/ VipLock(p)
  <2>1. /\ frame'[p].op = frame[p].op /\ frame'[p].user = frame[p].user
        /\ frame'[p].day = frame[p].day /\ frame'[p].streak = frame[p].streak
        /\ frame'[p].lastDay = frame[p].lastDay
    <3>1. CASE VipPick(p)
      <4>1. PICK r : frame' = [frame EXCEPT ![p].row = r]
        BY <3>1 DEF VipPick, PickLastRow
      <4>2. frame'[p] = [frame[p] EXCEPT !.row = r]
        BY <1>1, <4>1 DEF Shared
      <4>3. QED
        BY <1>6, <4>2 DEF CallFrames, Frames
    <3>2. CASE ~VipPick(p)
      <4>1. frame' = frame
        BY <1>10, <3>2 DEF EnsureMissing, SignupCheck, CheckinSelect, EngageSelect, DailySelect,
           VipCap, VipLock
      <4>2. QED
        BY <4>1
    <3>3. QED
      BY <3>1, <3>2
  <2>2. \/ pc[p] = "ensure" /\ pc'[p] = "ensureInsert"
        \/ pc[p] = "signupCheck" /\ pc'[p] = "append"
        \/ pc[p] = "checkinSelect" /\ pc'[p] = "checkinInsert"
        \/ pc[p] \in OtherPcs /\ pc'[p] \in OtherPcs
    BY <1>1, <1>10 DEF EnsureMissing, SignupCheck, CheckinSelect, EngageSelect, DailySelect,
       VipCap, VipPick, VipLock, PickLastRow, Goto, Shared, OtherPcs, VipPcs
  <2>3. ~Updated(p)' /\ ~Inserted(p)'
    BY <1>1, <2>1, <2>2 DEF Inserted, Updated, AppendPcs, StreakLocals, OtherPcs, VipPcs
  <2>4. StreakLocals(p)'
    BY <1>1, <1>3, <1>6, <1>7, <2>1, <2>2, <2>3 DEF StreakLocals, SelectPcs, OtherPcs, VipPcs
  <2>5. QED
    BY <1>2, <1>3, <1>5, <2>3, <2>4, ReadStreak
<1>11. QED
  BY <1>8, <1>9, <1>10

LEMMA AppendsKeepStreak ==
  ASSUME NEW p \in Procs, StreakInv, VipInv',
         AppendRead(p) \/ AppendNoState(p) \/ AppendInsert(p, "commit")
  PROVE  StreakInv'
<1>1. TypeInv /\ Shared(VersionsOf, Events, Frames, Pcs) /\ StreakLocals(p)
  BY DEF StreakInv, VipInv, TypeInv
<1>2. /\ UNCHANGED <<rowVars, day, frame>>
      /\ pc[p] \in {"append", "insert"} /\ pc'[p] \in AppendPcs
  BY <1>1 DEF AppendRead, AppendNoState, AppendInsert, clockVars, Goto, Shared, AppendPcs
<1>3. OthersAll(p)
  <2>1. \A q \in Procs \ {p} : pc'[q] = pc[q] /\ bal'[q] = bal[q]
    BY <1>1 DEF AppendRead, AppendNoState, AppendInsert, Goto, Shared
  <2>2. \A q \in Procs \ {p} : open'[q] = open[q] /\ todo'[q] = todo[q]
    <3>1. CASE AppendInsert(p, "commit")
      BY <1>1, <3>1, InsertPays
    <3>2. CASE AppendRead(p) \/ AppendNoState(p)
      BY <3>2 DEF AppendRead, AppendNoState, ledgerVars
    <3>3. QED
      BY <3>1, <3>2
  <2>3. QED
    BY <1>2, <2>1, <2>2 DEF OthersAll
<1>4. (Updated(p)' <=> Updated(p)) /\ (Inserted(p)' <=> Inserted(p))
  BY <1>2 DEF Updated, Inserted, AppendPcs
<1>5. \A u : NotYet(u)' = NotYet(u) /\ NextTally(u)' = NextTally(u)
  BY <1>2 DEF NotYet, NextTally, Committed, Tally, rowVars
<1>6. StreakLocals(p)'
  BY <1>1, <1>2, <1>4, <1>5 DEF StreakLocals, SelectPcs, OtherPcs, VipPcs, AppendPcs
<1>7. QED
  BY <1>2, <1>3, <1>4, <1>6, ReadStreak

-----------------------------------------------------------------------------
\* What a statement leaves of the days and streaks when it writes a row inside
\* its transaction.
LEMMA WriteKeepsDays ==
  ASSUME NEW p \in Procs, NEW k \in Keys, NEW v \in VersionsOf[k], StreakInv, VipInv',
         WriteRow(p, k, v), day' = day
  PROVE  /\ RowsApart(p) /\ RowsStay(VersionsOf) /\ DaysKept
         /\ \A u : Committed(u)' = Committed(u) /\ NotYet(u)' = NotYet(u)
                     /\ NextTally(u)' = NextTally(u)
         /\ db' = db
         /\ \A j \in Keys : /\ owner'[j] = p <=> (owner[j] = p \/ j = k)
                            /\ new'[j] = IF j = k THEN v ELSE new[j]
<1>1. TypeInv /\ DOMAIN owner = Keys /\ DOMAIN new = Keys
  BY RowTypes DEF StreakInv, VipInv, TypeInv, Shared, RowsInv
<1>2. v \in UserStates \cup {DailyRow}
  BY RowTypes DEF VersionsOf
<1>3. RowsApart(p) /\ RowsStay(VersionsOf)
  BY <1>1, <1>2, StatementsApart, WriteStep
<1>4. db' = db /\ owner' = [owner EXCEPT ![k] = p] /\ new' = [new EXCEPT ![k] = v]
  BY DEF WriteRow
<1>5. \A u : Committed(u)' = Committed(u) /\ NotYet(u)' = NotYet(u) /\ NextTally(u)' = NextTally(u)
  BY <1>4 DEF Committed, Tally, NotYet, NextTally
<1>6. DaysKept
  BY <1>4, <1>5 DEF DaysKept
<1>7. \A j \in Keys : /\ owner'[j] = p <=> (owner[j] = p \/ j = k)
                      /\ new'[j] = IF j = k THEN v ELSE new[j]
  BY <1>1, <1>4
<1>8. QED
  BY <1>3, <1>4, <1>5, <1>6, <1>7

\* A row made outside a transaction says of the streak what no row says.
LEMMA EnsureKeepsStreak ==
  ASSUME NEW p \in Procs, StreakInv, VipInv', ~GiveUp(p), EnsureInsert(p, AfterEnsure(p))
  PROVE  StreakInv'
<1> DEFINE k == StateRow(frame[p].user)
<1>1. /\ TypeInv /\ Shared(VersionsOf, Events, Frames, Pcs) /\ StreakLocals(p) /\ StreakRows(p)
      /\ TypeInv' /\ VipInv
  BY DEF StreakInv, VipInv, TypeInv
<1>2. NoVip(p)
  BY <1>1, MakesNoVip
<1>3. pc[p] = "ensureInsert" /\ pc[p] \in Pcs \ (AppendPcs \cup {"idle"})
  BY DEF EnsureInsert, Pcs, AppendPcs
<1>4. frame[p].user \in Users /\ k \in Keys
  BY <1>1, <1>3, CallFacts
<1>5. /\ db[k] = NoRow /\ owner[k] = NoProc /\ owner' = owner
      /\ db' = [db EXCEPT ![k] = FreshState] /\ new' = [new EXCEPT ![k] = FreshState]
      /\ pc' = [pc EXCEPT ![p] = AfterEnsure(p)] /\ UNCHANGED <<frame, day>>
  BY DEF EnsureInsert, AutocommitRow, Goto, clockVars
<1>6. pc'[p] \in {"answer", "today"} /\ DOMAIN db = Keys /\ DOMAIN new = Keys
  BY <1>1, <1>5, RowTypes DEF AfterEnsure, Shared, RowsInv
<1>7. /\ FreshState \in UserStates /\ Tally(FreshState) = [last |-> NoDay, run |-> 0]
      /\ Committed(frame[p].user) = [last |-> NoDay, run |-> 0]
  BY <1>5, Constants, NoRowAssumption DEF Tally, FreshState, Committed
<1>8. ASSUME NEW u \in Users
      PROVE  /\ Committed(u)' = Committed(u)
             /\ \A d \in Days : db'[CheckinRow(u, d)] = db[CheckinRow(u, d)]
  <2>1. db'[StateRow(u)] = IF u = frame[p].user THEN FreshState ELSE db[StateRow(u)]
    BY <1>4, <1>5, <1>6, RowTypes, CheckinRowKeys
  <2>2. Committed(u)' = Committed(u)
    BY <1>7, <2>1 DEF Committed, Tally
  <2>3. QED
    BY <1>4, <1>5, <1>6, <2>2, CheckinRowKeys
<1>9. DaysKept
  BY <1>5, <1>8 DEF DaysKept
<1>10. RowsStay(VersionsOf)
  BY <1>4, <1>5, <1>6, <1>7, RowTypes DEF RowsStay
<1>11. StreakLocals(p)'
  <2>1. NotYet(frame[p].user)' => Committed(frame[p].user)' = [last |-> NoDay, run |-> 0]
    BY <1>4, <1>5, <1>7, <1>8
  <2>2. frame[p].lastDay = NoDay /\ frame[p].streak = 0
    BY <1>1, <1>3 DEF StreakLocals
  <2>3. QED
    BY <1>5, <1>6, <2>1, <2>2 DEF StreakLocals, SelectPcs, OtherPcs, VipPcs, Updated, AppendPcs
<1>12. StreakRows(p)'
  <2>1. ~Inserted(p)' /\ ~Updated(p)' /\ ~Inserted(p) /\ ~Updated(p)
    BY <1>3, <1>6 DEF Inserted, Updated, AppendPcs
  <2>2. ASSUME NEW u \in Users, owner[StateRow(u)] = p PROVE Written(u)' = Committed(u)'
    <3>1. StateRow(u) # k
      BY <1>5, <2>2, LedgerAssumption
    <3>2. Written(u)' = Written(u)
      BY <1>5, <1>6, <3>1, RowTypes DEF Written, Tally
    <3>3. Written(u) = Committed(u)
      BY <1>1, <2>1, <2>2 DEF StreakRows
    <3>4. QED
      BY <1>8, <3>2, <3>3
  <2>3. QED
    BY <1>1, <1>5, <2>1, <2>2 DEF StreakRows
<1>13. QED
  BY <1>2, <1>9, <1>10, <1>11, <1>12, StreakStep DEF NoVip

\* The INSERT of the day's row of a check-in: the user has none of that day
\* yet, so that the streak worked out before is the one to be written.
LEMMA CheckinInsertStreak ==
  ASSUME NEW p \in Procs, StreakInv, VipInv', ~GiveUp(p), CheckinInsert(p)
  PROVE  StreakInv'
<1> DEFINE w == frame[p].user
           k == CheckinRow(w, day)
<1>1. TypeInv /\ Shared(VersionsOf, Events, Frames, Pcs) /\ StreakLocals(p) /\ StreakRows(p)
  BY DEF StreakInv, VipInv, TypeInv
<1>2. pc[p] = "checkinInsert" /\ pc[p] \in Pcs \ (AppendPcs \cup {"idle"})
  BY DEF CheckinInsert, DailyInsert, Pcs, AppendPcs
<1>3. w \in Users /\ day \in Days /\ k \in Keys /\ DailyRow \in VersionsOf[k] /\ DailyRow # NoRow
  BY <1>1, <1>2, CallFacts, TallyTypes, RowTypes, NoRowAssumption
<1>4. frame[p].day = day /\ frame[p].op = "checkin"
  BY <1>1, <1>2 DEF StreakLocals, SelectPcs
<1>5. InsertRow(p, k, DailyRow) /\ pc' = [pc EXCEPT ![p] = "checkinState"] /\ UNCHANGED <<frame, day>>
  BY <1>4 DEF CheckinInsert, DailyInsert, Goto, clockVars
<1>6. OthersAll(p)
  BY <1>1, DailyInsertFacts
<1>7. /\ RowsApart(p) /\ RowsStay(VersionsOf) /\ DaysKept
      /\ \A u : Committed(u)' = Committed(u) /\ NotYet(u)' = NotYet(u)
                  /\ NextTally(u)' = NextTally(u)
      /\ db' = db
      /\ \A j \in Keys : /\ owner'[j] = p <=> (owner[j] = p \/ j = k)
                         /\ new'[j] = IF j = k THEN DailyRow ELSE new[j]
  BY <1>3, <1>5, WriteKeepsDays DEF InsertRow
<1>8. pc'[p] = "checkinState"
  BY <1>1, <1>5 DEF Shared
<1>9. StreakLocals(p)'
  BY <1>1, <1>2, <1>5, <1>7, <1>8 DEF StreakLocals, SelectPcs, OtherPcs, VipPcs, Updated, AppendPcs
<1>10. StreakRows(p)'
  <2>1. Inserted(p)' /\ ~Updated(p)' /\ ~Inserted(p) /\ ~Updated(p)
    BY <1>2, <1>8 DEF Inserted, Updated, AppendPcs
  <2>2. ASSUME NEW u \in Users, NEW d \in Days, owner'[CheckinRow(u, d)] = p
        PROVE  /\ u = w /\ d = day
               /\ db'[CheckinRow(u, d)] = NoRow /\ new'[CheckinRow(u, d)] # NoRow
    <3>1. CheckinRow(u, d) = k
      BY <1>1, <1>7, <2>1, <2>2, CheckinRowKeys DEF StreakRows
    <3>2. u = w /\ d = day
      BY <1>3, <3>1, CheckinRowKeys
    <3>3. QED
      BY <1>3, <1>5, <1>7, <3>1, <3>2 DEF InsertRow
  <2>3. owner'[k] = p
    BY <1>3, <1>7
  <2>4. ASSUME NEW u \in Users, owner'[StateRow(u)] = p PROVE Written(u)' = Committed(u)'
    <3>1. StateRow(u) # k /\ StateRow(u) \in Keys
      BY <1>3, RowTypes, CheckinRowKeys
    <3>2. owner[StateRow(u)] = p /\ new'[StateRow(u)] = new[StateRow(u)]
      BY <1>7, <2>4, <3>1
    <3>3. Written(u)' = Written(u)
      BY <3>2 DEF Written, Tally
    <3>4. QED
      BY <1>1, <1>7, <2>1, <3>2, <3>3 DEF StreakRows
  <2>5. QED
    BY <1>5, <2>1, <2>2, <2>3, <2>4 DEF StreakRows
<1>11. QED
  BY <1>6, <1>7, <1>9, <1>10, StreakStep

\* A statement that writes a row of another table, or the user's row without
\* changing what it says of the streak.
LEMMA PlainWriteStreak ==
  ASSUME NEW p \in Procs, NEW k \in Keys, NEW v \in VersionsOf[k], StreakInv, VipInv',
         WriteRow(p, k, v), UNCHANGED <<day, frame>>, OthersAll(p),
         \A u \in Users, d \in Days : k # CheckinRow(u, d),
         \A u \in Users : k = StateRow(u) => Tally(v) = Tally(Sees(p, k)),
         Updated(p)' <=> Updated(p), Inserted(p)' <=> Inserted(p), StreakLocals(p)'
  PROVE  StreakInv'
<1>1. TypeInv /\ StreakRows(p)
  BY DEF StreakInv, VipInv
<1>2. /\ RowsApart(p) /\ RowsStay(VersionsOf) /\ DaysKept
      /\ \A u : Committed(u)' = Committed(u) /\ NotYet(u)' = NotYet(u)
                  /\ NextTally(u)' = NextTally(u)
      /\ db' = db
      /\ \A j \in Keys : /\ owner'[j] = p <=> (owner[j] = p \/ j = k)
                         /\ new'[j] = IF j = k THEN v ELSE new[j]
  BY WriteKeepsDays
<1>3. Inserted(p) => frame[p].user \in Users
  <2>1. Inserted(p) => pc[p] # "idle"
    BY DEF Inserted, Updated, AppendPcs
  <2>2. QED
    BY <1>1, <2>1, Constants DEF TypeInv, LocalOK
<1>4. ASSUME NEW u \in Users, owner'[StateRow(u)] = p
      PROVE  Written(u)' = (IF Updated(p) /\ u = frame[p].user THEN NextTally(u) ELSE Committed(u))
  <2>1. StateRow(u) \in Keys
    BY RowTypes
  <2>2. CASE StateRow(u) # k
    <3>1. owner[StateRow(u)] = p /\ new'[StateRow(u)] = new[StateRow(u)]
      BY <1>2, <1>4, <2>1, <2>2
    <3>2. Written(u)' = Written(u)
      BY <3>1 DEF Written, Tally
    <3>3. QED
      BY <1>1, <3>1, <3>2 DEF StreakRows
  <2>3. CASE StateRow(u) = k
    <3>1. new'[StateRow(u)] = v /\ Tally(v) = Tally(Sees(p, StateRow(u)))
      BY <1>2, <2>1, <2>3
    <3>2. Written(u)' = Tally(Sees(p, StateRow(u)))
      BY <3>1 DEF Written, Tally
    <3>3. Written(u)' = IF owner[StateRow(u)] = p THEN Written(u) ELSE Committed(u)
      BY <3>2 DEF Written, Committed, Sees
    <3>4. Updated(p) /\ u = frame[p].user => owner[StateRow(u)] = p
      BY <1>1 DEF StreakRows
    <3>5. QED
      BY <1>1, <3>3, <3>4 DEF StreakRows
  <2>4. QED
    BY <2>2, <2>3
<1>5. \A u \in Users, d \in Days : /\ owner'[CheckinRow(u, d)] = p <=> owner[CheckinRow(u, d)] = p
                                   /\ new'[CheckinRow(u, d)] = new[CheckinRow(u, d)]
  BY <1>2, CheckinRowKeys
<1>6. /\ Inserted(p) => owner'[CheckinRow(frame[p].user, day)] = p
      /\ Updated(p) => owner'[StateRow(frame[p].user)] = p
  <2>1. day \in Days
    BY <1>1, TallyTypes, <1>3 DEF TypeInv, Shared, Days
  <2>2. QED
    BY <1>1, <1>2, <1>3, <1>5, <2>1, RowTypes DEF StreakRows, Inserted
<1>7. StreakRows(p)'
  BY <1>1, <1>2, <1>4, <1>5, <1>6 DEF StreakRows
<1>8. QED
  BY <1>2, <1>7, StreakStep

\* The day's row of an engagement signal, the days of a redemption and the row
\* of a new user.
LEMMA WritesKeepStreak ==
  ASSUME NEW p \in Procs, StreakInv, VipInv', ~GiveUp(p),
         EngageInsert(p) \/ VipState(p) \/ MakeState(p)
  PROVE  StreakInv'
<1>1. /\ TypeInv /\ Shared(VersionsOf, Events, Frames, Pcs) /\ StreakLocals(p)
      /\ VipInv /\ VipOK(p)
  BY DEF StreakInv, VipInv, TypeInv
<1>2. PICK next : pc' = [pc EXCEPT ![p] = next] /\ next = "append"
  BY DEF EngageInsert, DailyInsert, VipState, MakeState, Goto
<1>3. pc'[p] = "append" /\ UNCHANGED <<day, frame>>
  BY <1>1, <1>2 DEF EngageInsert, DailyInsert, VipState, MakeState, clockVars, Shared
<1>4. pc[p] \in {"engageInsert", "vipState"} => frame[p].op # "checkin"
  BY <1>1 DEF StreakLocals, OtherPcs, VipPcs
<1>5. pc[p] \in {"engageInsert", "vipState", "makeState"}
  BY DEF EngageInsert, DailyInsert, VipState, MakeState
<1>6. (Updated(p)' <=> Updated(p)) /\ (Inserted(p)' <=> Inserted(p))
  BY <1>3, <1>4, <1>5 DEF Updated, Inserted, AppendPcs
<1>7. ASSUME \A u : Committed(u)' = Committed(u) /\ NotYet(u)' = NotYet(u)
                      /\ NextTally(u)' = NextTally(u)
      PROVE  StreakLocals(p)'
  BY <1>1, <1>3, <1>4, <1>5, <1>6, <1>7
  DEF StreakLocals, SelectPcs, OtherPcs, VipPcs, Updated, AppendPcs
<1>8. CASE EngageInsert(p)
  <2> DEFINE k == EngagedRow(frame[p].user, frame[p].day)
  <2>1. pc[p] = "engageInsert" /\ pc[p] \in Pcs \ (AppendPcs \cup {"idle"})
    BY <1>8 DEF EngageInsert, DailyInsert, Pcs, AppendPcs
  <2>2. frame[p].user \in Users /\ frame[p].day \in Days
    BY <1>1, <2>1, CallFacts DEF LocalOK, DayPcs
  <2>3. k \in Keys /\ DailyRow \in VersionsOf[k]
    BY <2>2, RowTypes
  <2>4. WriteRow(p, k, DailyRow)
    BY <1>8 DEF EngageInsert, DailyInsert, InsertRow
  <2>5. OthersAll(p)
    BY <1>1, <1>8, DailyInsertFacts
  <2>6. /\ \A u \in Users, d \in Days : k # CheckinRow(u, d)
        /\ \A u \in Users : k # StateRow(u)
    BY <2>2, CheckinRowKeys DEF EngagedRow, StateRow
  <2>7. \A u : Committed(u)' = Committed(u) /\ NotYet(u)' = NotYet(u)
                 /\ NextTally(u)' = NextTally(u)
    BY <1>3, <2>3, <2>4, WriteKeepsDays
  <2>8. StreakLocals(p)'
    BY <1>7, <2>7
  <2>9. QED
    BY <1>3, <1>6, <2>3, <2>4, <2>5, <2>6, <2>8, PlainWriteStreak
<1>9. CASE VipState(p)
  <2> DEFINE k == StateRow(frame[p].user)
  <2>1. pc[p] = "vipState" /\ pc[p] \in Pcs \ (AppendPcs \cup {"idle"})
    BY <1>9 DEF VipState, Pcs, AppendPcs
  <2>2. LocalOK(p) /\ frame[p].user \in Users /\ frame[p].days \in Nat /\ k \in Keys
    BY <1>1, <2>1, CallFacts, Constants
  <2>3. Sees(p, k) \in UserStates
    <3>1. db[k] \in UserStates
      BY <2>1, <2>2 DEF LocalOK, HasState
    <3>2. new[k] \in UserStates
      BY <1>1, <2>2, <3>1, RowTypes DEF Shared, RowsInv
    <3>3. QED
      BY <3>1, <3>2 DEF Sees
  <2>4. PICK v : v = [Sees(p, k) EXCEPT !.vip = @ + frame[p].days]
    OBVIOUS
  <2>5. WriteRow(p, k, v)
    BY <1>9, <2>4 DEF VipState
  <2>6. v \in UserStates /\ v.lastDay = Sees(p, k).lastDay /\ v.streak = Sees(p, k).streak
    BY <2>2, <2>3, <2>4 DEF UserStates
  <2>7. v \in VersionsOf[k] /\ Tally(v) = Tally(Sees(p, k))
    BY <2>2, <2>3, <2>6, RowTypes, NoRowAssumption DEF Tally
  <2>8. OthersAll(p)
    BY <1>1, <1>9, NeutralSteps DEF Neutral
  <2>9. \A u : Committed(u)' = Committed(u) /\ NotYet(u)' = NotYet(u)
                 /\ NextTally(u)' = NextTally(u)
    BY <1>3, <2>2, <2>5, <2>7, WriteKeepsDays
  <2>10. StreakLocals(p)'
    BY <1>7, <2>9
  <2>11. \A u \in Users, d \in Days : k # CheckinRow(u, d)
    BY <2>2, CheckinRowKeys
  <2>12. QED
    BY <1>3, <1>6, <2>2, <2>5, <2>7, <2>8, <2>10, <2>11, PlainWriteStreak
<1>10. CASE MakeState(p)
  <2> DEFINE k == StateRow(Head(todo[p]).user)
  <2>1. pc[p] = "makeState"
    BY <1>10 DEF MakeState
  <2>2. Head(todo[p]).user \in Users /\ k \in Keys
    BY <1>1, <2>1, AppendFacts
  <2>3. WriteRow(p, k, FreshState) /\ db[k] = NoRow
    BY <1>10 DEF MakeState, InsertRow
  <2>4. Sees(p, k) = NoRow
    BY <1>1, <2>1, <2>3 DEF VipOK, Making, Sees
  <2>5. FreshState \in VersionsOf[k] /\ Tally(FreshState) = Tally(Sees(p, k))
    BY <2>2, <2>4, RowTypes, Constants, NoRowAssumption DEF Tally, FreshState
  <2>6. OthersAll(p)
    BY <1>1, <1>10, NeutralSteps DEF Neutral
  <2>7. \A u : Committed(u)' = Committed(u) /\ NotYet(u)' = NotYet(u)
                 /\ NextTally(u)' = NextTally(u)
    BY <1>3, <2>2, <2>3, <2>5, WriteKeepsDays
  <2>8. StreakLocals(p)'
    BY <1>7, <2>7
  <2>9. \A u \in Users, d \in Days : k # CheckinRow(u, d)
    BY <2>2, CheckinRowKeys
  <2>10. QED
    BY <1>3, <1>6, <2>2, <2>3, <2>5, <2>6, <2>8, <2>9, PlainWriteStreak
<1>11. QED
  BY <1>8, <1>9, <1>10

\* The UPDATE of a check-in writes the streak it has worked out.
LEMMA CheckinStateStreak ==
  ASSUME NEW p \in Procs, StreakInv, VipInv', ~GiveUp(p), CheckinState(p)
  PROVE  StreakInv'
<1> DEFINE w == frame[p].user
           k == StateRow(w)
<1>1. TypeInv /\ Shared(VersionsOf, Events, Frames, Pcs) /\ StreakLocals(p) /\ StreakRows(p)
  BY DEF StreakInv, VipInv, TypeInv
<1>2. pc[p] = "checkinState" /\ pc[p] \in Pcs \ (AppendPcs \cup {"idle"})
  BY DEF CheckinState, Pcs, AppendPcs
<1>3. LocalOK(p) /\ frame[p] \in CallFrames /\ w \in Users /\ k \in Keys /\ day \in Days
  BY <1>1, <1>2, CallFacts, TallyTypes
<1>4. Sees(p, k) \in UserStates
  <2>1. db[k] \in UserStates
    BY <1>2, <1>3 DEF LocalOK, HasState
  <2>2. new[k] \in UserStates
    BY <1>1, <1>3, <2>1, RowTypes DEF Shared, RowsInv
  <2>3. QED
    BY <2>1, <2>2 DEF Sees
<1>5. PICK v : v = [Sees(p, k) EXCEPT !.lastDay = frame[p].day, !.streak = frame[p].streak]
  OBVIOUS
<1>6. WriteRow(p, k, v) /\ pc' = [pc EXCEPT ![p] = "append"] /\ UNCHANGED <<frame, day>>
  BY <1>5 DEF CheckinState, Goto, clockVars
<1>7. frame[p].op = "checkin" /\ frame[p].day = day /\ frame[p].streak \in Nat
        /\ Inserted(p) /\ ~Updated(p)
  BY <1>1, <1>2, <1>3, Constants DEF StreakLocals, SelectPcs, Inserted, Updated, AppendPcs
<1>8. v \in UserStates /\ v.lastDay = frame[p].day /\ v.streak = frame[p].streak
  BY <1>3, <1>4, <1>5, <1>7 DEF UserStates
<1>9. Tally(v) = NextTally(w)
  <2>1. NotYet(w)
    BY <1>1, <1>3, <1>7 DEF StreakRows, NotYet
  <2>2. [last |-> frame[p].day, run |-> frame[p].streak] = NextTally(w)
    BY <1>1, <1>2, <2>1 DEF StreakLocals, SelectPcs
  <2>3. QED
    BY <1>8, <2>2, NoRowAssumption DEF Tally
<1>10. /\ RowsApart(p) /\ RowsStay(VersionsOf) /\ DaysKept
       /\ \A u : Committed(u)' = Committed(u) /\ NotYet(u)' = NotYet(u)
                   /\ NextTally(u)' = NextTally(u)
       /\ db' = db
       /\ \A j \in Keys : /\ owner'[j] = p <=> (owner[j] = p \/ j = k)
                          /\ new'[j] = IF j = k THEN v ELSE new[j]
  <2>1. v \in VersionsOf[k]
    BY <1>3, <1>8, RowTypes
  <2>2. QED
    BY <1>3, <1>6, <2>1, WriteKeepsDays
<1>11. pc'[p] = "append" /\ Updated(p)' /\ Inserted(p)'
  BY <1>1, <1>6, <1>7 DEF Shared, Updated, Inserted, AppendPcs
<1>12. StreakLocals(p)'
  BY <1>1, <1>2, <1>6, <1>10, <1>11 DEF StreakLocals, SelectPcs, OtherPcs, VipPcs
<1>13. \A u \in Users, d \in Days : /\ owner'[CheckinRow(u, d)] = p <=> owner[CheckinRow(u, d)] = p
                                    /\ new'[CheckinRow(u, d)] = new[CheckinRow(u, d)]
  BY <1>3, <1>10, CheckinRowKeys
<1>14. ASSUME NEW u \in Users, owner'[StateRow(u)] = p
       PROVE  Written(u)' = IF u = w THEN NextTally(u) ELSE Committed(u)
  <2>1. CASE u = w
    <3>1. new'[StateRow(u)] = v
      BY <1>3, <1>10, <2>1
    <3>2. QED
      BY <1>9, <2>1, <3>1 DEF Written, Tally
  <2>2. CASE u # w
    <3>1. StateRow(u) # k /\ StateRow(u) \in Keys
      BY <1>3, <2>2, RowTypes, CheckinRowKeys
    <3>2. owner[StateRow(u)] = p /\ new'[StateRow(u)] = new[StateRow(u)]
      BY <1>10, <1>14, <3>1
    <3>3. Written(u)' = Written(u)
      BY <3>2 DEF Written, Tally
    <3>4. QED
      BY <1>1, <1>7, <2>2, <3>2, <3>3 DEF StreakRows
  <2>3. QED
    BY <2>1, <2>2
<1>15. owner'[k] = p /\ owner'[CheckinRow(w, day)] = p
  BY <1>1, <1>3, <1>7, <1>10, <1>13 DEF StreakRows
<1>16. StreakRows(p)'
  BY <1>1, <1>6, <1>7, <1>10, <1>11, <1>13, <1>14, <1>15 DEF StreakRows
<1>17. OthersAll(p)
  BY <1>1, NeutralSteps DEF Neutral
<1>18. QED
  BY <1>10, <1>12, <1>16, <1>17, StreakStep

-----------------------------------------------------------------------------
\* A transaction that ends holds no rows any more.
LEMMA EndedStreakOK ==
  ASSUME NEW p \in Procs, pc'[p] = "idle", \A k \in Keys : owner'[k] # p
  PROVE  StreakLocals(p)' /\ StreakRows(p)'
<1>1. ~Inserted(p)' /\ ~Updated(p)'
  BY DEF Inserted, Updated, AppendPcs
<1>2. StreakLocals(p)'
  BY <1>1 DEF StreakLocals, SelectPcs, OtherPcs, VipPcs
<1>3. StreakRows(p)'
  BY <1>1, RowTypes DEF StreakRows
<1>4. QED
  BY <1>2, <1>3

LEMMA GiveUpStreak ==
  ASSUME NEW p \in Procs, StreakInv, VipInv', GiveUp(p)
  PROVE  StreakInv'
<1>1. TypeInv /\ Shared(VersionsOf, Events, Frames, Pcs)
  BY DEF StreakInv, VipInv, TypeInv
<1>2. RollbackRows(p) /\ UNCHANGED <<db, day>>
  BY DEF GiveUp, RollbackRows, clockVars
<1>3. pc'[p] = "idle" /\ OthersAll(p)
  BY <1>1 DEF OthersAll, GiveUp, Return, Goto, Shared
<1>4. RowsApart(p) /\ RowsStay(VersionsOf)
  BY <1>1, <1>2, StatementsApart DEF RowsStay
<1>5. DaysKept
  BY <1>2 DEF DaysKept, Committed, Tally
<1>6. StreakLocals(p)' /\ StreakRows(p)'
  BY <1>1, <1>2, <1>3, EndedRows, EndedStreakOK
<1>7. QED
  BY <1>3, <1>4, <1>5, <1>6, StreakStep

\* The day checked in on ends a longer streak, or begins one.
LEMMA OneMoreDay ==
  ASSUME StreakInv, NEW u \in Users, NotYet(u), day' = day,
         Checked(u)' = Checked(u) \cup {day}, Committed(u)' = NextTally(u)
  PROVE  StreakCounted(u)'
<1>1. PICK last, run : last = Committed(u).last /\ run = Committed(u).run
  OBVIOUS
<1>2. /\ day \in Nat /\ day >= 1 /\ day \in Days /\ run \in Nat /\ last \in Days \cup {NoDay}
      /\ Checked(u) \subseteq Days /\ Days \subseteq Nat \ {0}
  BY <1>1, TallyTypes, LedgerAssumption DEF StreakInv, VipInv, Days, Checked
<1>3. day \notin Checked(u)
  BY DEF NotYet, Checked
<1>4. /\ \A d \in Checked(u) : d <= day /\ d <= last
      /\ Checked(u) = {} => last = NoDay /\ run = 0
      /\ Checked(u) # {} =>
           /\ last \in Checked(u) /\ run >= 1
           /\ \A d \in (last - run + 1)..last : d \in Checked(u)
           /\ last - run \notin Checked(u)
  BY <1>1 DEF StreakInv, StreakCounted
<1>5. /\ Committed(u)'.last = day
      /\ Committed(u)'.run = IF last = day - 1 THEN run + 1 ELSE 1
  BY <1>1 DEF NextTally
<1>6. \A d \in Checked(u)' : d <= day
  BY <1>2, <1>4
<1>7. CASE last = day - 1
  <2>1. last # NoDay /\ last \in Int
    BY <1>2, <1>7 DEF NoDay
  <2>2. Checked(u) # {}
    BY <1>4, <2>1
  <2>3. Committed(u)'.run = run + 1 /\ run + 1 >= 1
    BY <1>2, <1>5, <1>7
  <2>4. \A d \in (day - (run + 1) + 1)..day : d \in Checked(u)'
    <3> SUFFICES ASSUME NEW d \in (day - (run + 1) + 1)..day, d # day PROVE d \in Checked(u)
      OBVIOUS
    <3>1. d \in (last - run + 1)..last
      BY <1>2, <1>7
    <3>2. QED
      BY <1>4, <2>2, <3>1
  <2>5. day - (run + 1) = last - run /\ last - run # day
    BY <1>2, <1>7
  <2>6. day - (run + 1) \notin Checked(u)'
    BY <1>4, <2>2, <2>5
  <2>7. QED
    BY <1>5, <1>6, <2>3, <2>4, <2>6 DEF StreakCounted
<1>8. CASE last # day - 1
  <2>1. Committed(u)'.run = 1
    BY <1>5, <1>8
  <2>2. day - 1 \notin Checked(u)
    <3> SUFFICES ASSUME day - 1 \in Checked(u) PROVE FALSE
      OBVIOUS
    <3>1. last \in Checked(u) /\ day - 1 <= last
      BY <1>4
    <3>2. last <= day /\ last # day /\ last \in Nat
      BY <1>2, <1>3, <1>4, <3>1
    <3>3. QED
      BY <1>2, <1>8, <3>1, <3>2
  <2>3. day - 1 \notin Checked(u)'
    BY <1>2, <2>2
  <2>4. \A d \in (day - 1 + 1)..day : d \in Checked(u)'
    BY <1>2
  <2>5. QED
    BY <1>2, <1>5, <1>6, <2>1, <2>3, <2>4 DEF StreakCounted
<1>9. QED
  BY <1>7, <1>8

\* COMMIT: the day row of a check-in and the streak that counts it are
\* published together.
LEMMA CommitStreak ==
  ASSUME NEW p \in Procs, StreakInv, VipInv', Commit(p)
  PROVE  StreakInv'
<1>1. TypeInv /\ TypeInv' /\ Shared(VersionsOf, Events, Frames, Pcs) /\ StreakRows(p) /\ LocalOK(p)
        /\ day \in Days
  BY TallyTypes DEF StreakInv, VipInv, TypeInv, Shared, Days
<1>2. CommitRows(p) /\ pc[p] = "commit" /\ day' = day
  BY DEF Commit, CommitLedger, clockVars
<1>3. pc'[p] = "idle" /\ OthersAll(p)
  BY <1>1 DEF OthersAll, Commit, CommitLedger, Return, Goto, Shared
<1>4. RowsApart(p) /\ RowsStay(VersionsOf)
  <2>1. Shared(VersionsOf, Events, Frames, Pcs) /\ "idle" \in Pcs
    BY <1>1 DEF Pcs
  <2>2. RowsStay(VersionsOf)
    BY <2>1, Constants, CommitKeeps
  <2>3. QED
    BY <1>1, <1>2, <2>2, StatementsApart
<1>5. /\ \A k \in Keys : owner'[k] # p
      /\ \A k \in Keys : db'[k] = IF owner[k] = p THEN new[k] ELSE db[k]
  BY <1>1, <1>2, EndedRows
<1>6. \A u \in Users : /\ StateRow(u) \in Keys
                       /\ Committed(u)' = IF owner[StateRow(u)] = p THEN Written(u) ELSE Committed(u)
  BY <1>5, RowTypes DEF Committed, Written, Tally
<1>7. ASSUME NEW u \in Users, Updated(p), u = frame[p].user
      PROVE  /\ NotYet(u) /\ owner[CheckinRow(u, day)] = p /\ db'[CheckinRow(u, day)] # NoRow
             /\ Checked(u)' = Checked(u) \cup {day} /\ Committed(u)' = NextTally(u)
  <2>1. owner[CheckinRow(u, day)] = p /\ owner[StateRow(u)] = p
    BY <1>1, <1>7 DEF StreakRows, Inserted
  <2>2. db[CheckinRow(u, day)] = NoRow /\ new[CheckinRow(u, day)] # NoRow
    BY <1>1, <2>1 DEF StreakRows
  <2>3. \A d \in Days : d # day => owner[CheckinRow(u, d)] # p
    BY <1>1 DEF StreakRows
  <2>4. \A d \in Days : db'[CheckinRow(u, d)] = IF d = day THEN new[CheckinRow(u, d)]
                                                ELSE db[CheckinRow(u, d)]
    BY <1>5, <2>1, <2>3, CheckinRowKeys
  <2>5. Checked(u)' = Checked(u) \cup {day}
    BY <1>1, <2>2, <2>4 DEF Checked
  <2>6. Committed(u)' = NextTally(u)
    BY <1>1, <1>6, <1>7, <2>1 DEF StreakRows
  <2>7. QED
    BY <1>1, <2>1, <2>2, <2>4, <2>5, <2>6 DEF NotYet
<1>8. ASSUME NEW u \in Users, ~(Updated(p) /\ u = frame[p].user)
      PROVE  Checked(u)' = Checked(u) /\ Committed(u)' = Committed(u)
  <2>1. \A d \in Days : owner[CheckinRow(u, d)] # p
    BY <1>1, <1>2, <1>8 DEF StreakRows, Inserted
  <2>2. \A d \in Days : db'[CheckinRow(u, d)] = db[CheckinRow(u, d)]
    BY <1>5, <2>1, CheckinRowKeys
  <2>3. Committed(u)' = Committed(u)
    BY <1>1, <1>6, <1>8 DEF StreakRows
  <2>4. QED
    BY <2>2, <2>3 DEF Checked
<1>9. \A u \in Users : StreakCounted(u)'
  <2> SUFFICES ASSUME NEW u \in Users PROVE StreakCounted(u)'
    OBVIOUS
  <2>1. CASE Updated(p) /\ u = frame[p].user
    BY <1>2, <1>7, <2>1, OneMoreDay
  <2>2. CASE ~(Updated(p) /\ u = frame[p].user)
    <3>1. StreakCounted(u) /\ Checked(u)' = Checked(u) /\ Committed(u)' = Committed(u)
      BY <1>8, <2>2 DEF StreakInv
    <3>2. QED
      BY <1>2, <3>1 DEF StreakCounted
  <2>3. QED
    BY <2>1, <2>2
<1>10. TalliesKept(p)
  BY <1>7, <1>8 DEF TalliesKept
<1>11. StreakLocals(p)' /\ StreakRows(p)'
  BY <1>3, <1>5, EndedStreakOK
<1>12. \A q \in Procs : StreakLocals(q)' /\ StreakRows(q)'
  BY <1>2, <1>3, <1>4, <1>10, <1>11, OthersStreakOK
<1>13. QED
  BY <1>9, <1>12 DEF StreakInv

-----------------------------------------------------------------------------
LEMMA InitStreak == Init => StreakInv
<1> SUFFICES ASSUME Init PROVE StreakInv
  OBVIOUS
<1>1. VipInv
  BY InitVip
<1>2. /\ \A k \in Keys : db[k] = NoRow /\ owner[k] = NoProc
      /\ \A p \in Procs : pc[p] = "idle"
  BY DEF Init, LedgerInit, RowsInit
<1>3. ASSUME NEW p \in Procs PROVE StreakLocals(p) /\ StreakRows(p)
  <2>1. ~Inserted(p) /\ ~Updated(p) /\ pc[p] = "idle"
    BY <1>2 DEF Inserted, Updated, AppendPcs
  <2>2. \A k \in Keys : owner[k] # p
    BY <1>2, LedgerAssumption
  <2>3. StreakRows(p)
    BY <2>1, <2>2, RowTypes DEF StreakRows
  <2>4. StreakLocals(p)
    BY <2>1 DEF StreakLocals, SelectPcs, OtherPcs, VipPcs
  <2>5. QED
    BY <2>3, <2>4
<1>4. ASSUME NEW u \in Users PROVE StreakCounted(u)
  <2>1. Checked(u) = {}
    BY <1>2, RowTypes DEF Checked
  <2>2. Committed(u) = [last |-> NoDay, run |-> 0]
    BY <1>2, RowTypes DEF Committed, Tally
  <2>3. QED
    BY <2>1, <2>2 DEF StreakCounted
<1>5. QED
  BY <1>1, <1>3, <1>4 DEF StreakInv

\* A call starts with locals that have read nothing.
LEMMA StartStreak ==
  ASSUME NEW p \in Procs, StreakInv, VipInv', Start(p)
  PROVE  StreakInv'
<1>1. Shared(VersionsOf, Events, Frames, Pcs)
  BY DEF StreakInv, VipInv, TypeInv
<1>2. PICK op \in Ops, u \in Users : \E n : StartCall(p, Frame(op, u, n), First[op])
  BY DEF Start
<1>3. PICK n : StartCall(p, Frame(op, u, n), First[op])
  BY <1>2
<1>4. PICK f, first : f = Frame(op, u, n) /\ first = First[op]
  OBVIOUS
<1>5. /\ first \in {"signupCheck", "vipCap", "ensure"}
      /\ first # "ensure" => f.op # "checkin"
      /\ f.lastDay = NoDay /\ f.streak = 0
  BY <1>4, RewardsAssumption DEF First, Frame
<1>6. /\ pc[p] = "idle" /\ pc' = [pc EXCEPT ![p] = first] /\ frame' = [frame EXCEPT ![p] = f]
      /\ UNCHANGED <<rowVars, day, open, todo, bal>>
  BY <1>3, <1>4 DEF StartCall, Goto, ledgerVars, clockVars
<1>7. OthersAll(p) /\ pc'[p] = first /\ frame'[p] = f
  BY <1>1, <1>6 DEF OthersAll, Shared
<1>8. ~Inserted(p) /\ ~Updated(p) /\ ~Inserted(p)' /\ ~Updated(p)'
  BY <1>5, <1>6, <1>7 DEF Inserted, Updated, AppendPcs
<1>9. StreakLocals(p)'
  BY <1>5, <1>7, <1>8 DEF StreakLocals, SelectPcs, OtherPcs, VipPcs
<1>10. QED
  BY <1>6, <1>7, <1>8, <1>9, ReadStreak

LEMMA StreakStays ==
  ASSUME MidCallRollover = FALSE
  PROVE  StreakInv /\ [Next]_vars => StreakInv'
<1> SUFFICES ASSUME StreakInv, [Next]_vars PROVE StreakInv'
  OBVIOUS
<1>1. VipInv /\ VipInv'
  BY VipStays DEF StreakInv
<1>2. ASSUME NEW p \in Procs, Start(p) PROVE StreakInv'
  BY <1>1, <1>2, StartStreak
<1>3. ASSUME NEW p \in Procs, Step(p) PROVE StreakInv'
  <2>1. CASE GiveUp(p)
    BY <1>1, <2>1, GiveUpStreak
  <2>2. CASE ~GiveUp(p)
    <3>1. ~Answer(p) /\ ~AppendDuplicate(p)
      BY <2>2 DEF Answer, AppendDuplicate
    <3>2. CASE AppendRead(p) \/ AppendNoState(p) \/ AppendInsert(p, "commit")
      BY <1>1, <3>2, AppendsKeepStreak
    <3>3. CASE EnsureFound(p) \/ EnsureMissing(p) \/ Today(p) \/ SignupCheck(p)
                 \/ CheckinSelect(p) \/ EngageSelect(p) \/ VipCap(p) \/ VipPick(p) \/ VipLock(p)
      BY <1>1, <2>2, <3>3, ReadsKeepStreak
    <3>4. CASE EngageInsert(p) \/ VipState(p) \/ MakeState(p)
      BY <1>1, <2>2, <3>4, WritesKeepStreak
    <3>5. CASE EnsureInsert(p, AfterEnsure(p))
      BY <1>1, <2>2, <3>5, EnsureKeepsStreak
    <3>6. CASE CheckinInsert(p)
      BY <1>1, <2>2, <3>6, CheckinInsertStreak
    <3>7. CASE CheckinState(p)
      BY <1>1, <2>2, <3>7, CheckinStateStreak
    <3>8. CASE Commit(p)
      BY <1>1, <3>8, CommitStreak
    <3>9. QED
      BY <1>3, <3>1, <3>2, <3>3, <3>4, <3>5, <3>6, <3>7, <3>8 DEF Step
  <2>3. QED
    BY <2>1, <2>2
<1>4. ASSUME NEW p \in Procs, Crash(p) PROVE StreakInv'
  BY <1>1, <1>4, GiveUpStreak DEF Crash
<1>5. ASSUME UNCHANGED <<rowVars, pc, frame>>,
             \/ day' = day
             \/ day' = day + 1 /\ \A p \in Procs : pc[p] = "idle"
      PROVE  StreakInv'
  <2>1. \A u : Committed(u)' = Committed(u) /\ Written(u)' = Written(u) /\ Checked(u)' = Checked(u)
    BY <1>5 DEF Committed, Written, Tally, Checked, rowVars
  <2>2. day \in Int
    BY <1>1 DEF VipInv, TypeInv, Shared
  <2>3. ASSUME NEW u \in Users PROVE StreakCounted(u)'
    <3>1. StreakCounted(u)
      BY DEF StreakInv
    <3>2. \A d \in Checked(u) : d <= day => d <= day'
      <4>1. Checked(u) \subseteq Int
        BY LedgerAssumption DEF Checked, Days
      <4>2. QED
        BY <1>5, <2>2, <4>1
    <3>3. QED
      BY <2>1, <3>1, <3>2 DEF StreakCounted
  <2>4. ASSUME NEW p \in Procs PROVE StreakLocals(p)' /\ StreakRows(p)'
    <3>1. StreakLocals(p) /\ StreakRows(p)
      BY DEF StreakInv
    <3>2. (Updated(p)' <=> Updated(p)) /\ (Inserted(p)' <=> Inserted(p))
      BY <1>5 DEF Updated, Inserted
    <3>3. CASE day' = day
      <4>1. \A u : NotYet(u)' = NotYet(u) /\ NextTally(u)' = NextTally(u)
        BY <1>5, <2>1, <3>3 DEF NotYet, NextTally, rowVars
      <4>2. StreakLocals(p)'
        BY <1>5, <2>1, <3>1, <3>2, <3>3, <4>1 DEF StreakLocals
      <4>3. StreakRows(p)'
        BY <1>5, <2>1, <3>1, <3>2, <3>3, <4>1 DEF StreakRows, rowVars
      <4>4. QED
        BY <4>2, <4>3
    <3>4. CASE pc[p] = "idle"
      <4>1. ~Inserted(p) /\ ~Updated(p)
        BY <3>4 DEF Inserted, Updated, AppendPcs
      <4>2. StreakLocals(p)'
        BY <1>5, <3>2, <3>4, <4>1 DEF StreakLocals, SelectPcs, OtherPcs, VipPcs
      <4>3. StreakRows(p)'
        BY <1>5, <2>1, <3>1, <3>2, <4>1 DEF StreakRows, rowVars
      <4>4. QED
        BY <4>2, <4>3
    <3>5. QED
      BY <1>5, <3>3, <3>4
  <2>5. QED
    BY <1>1, <2>3, <2>4 DEF StreakInv
<1>6. CASE NextDay
  BY <1>5, <1>6 DEF NextDay
<1>7. CASE UNCHANGED vars
  BY <1>5, <1>7 DEF vars, clockVars
<1>8. QED
  BY <1>2, <1>3, <1>4, <1>6, <1>7 DEF Next, Quiet

\* checkin_streak counts the consecutive days, up to the last one, the user has
\* checked in on, whichever check-ins race and wherever an instance dies, as
\* long as no UTC day ends while a handler is running.
THEOREM StreaksAreCounted == MidCallRollover = FALSE => (Spec => []StreakCountsDays)
<1> SUFFICES ASSUME MidCallRollover = FALSE PROVE Spec => []StreakCountsDays
  OBVIOUS
<1>1. StreakInv => StreakCountsDays
  <2> SUFFICES ASSUME StreakInv, NEW u \in Users, db[StateRow(u)] # NoRow
               PROVE  LET state == db[StateRow(u)]
                          done == {d \in Days : db[CheckinRow(u, d)] # NoRow}
                          run == (state.lastDay - state.streak + 1)..state.lastDay
                      IN  IF done = {} THEN state.streak = 0
                          ELSE state.lastDay = Max(done) /\ run \subseteq done
                                 /\ state.lastDay - state.streak \notin done
    BY DEF StreakCountsDays
  <2>1. /\ Committed(u).last = db[StateRow(u)].lastDay
        /\ Committed(u).run = db[StateRow(u)].streak
        /\ Checked(u) = {d \in Days : db[CheckinRow(u, d)] # NoRow}
    BY DEF Committed, Tally, Checked
  <2>2. StreakCounted(u)
    BY DEF StreakInv
  <2>3. ASSUME Checked(u) # {} PROVE Max(Checked(u)) = Committed(u).last
    <3>1. /\ Committed(u).last \in Checked(u)
          /\ \A d \in Checked(u) : d <= Committed(u).last
      BY <2>2, <2>3 DEF StreakCounted
    <3>2. Checked(u) \subseteq Int
      BY LedgerAssumption DEF Checked, Days
    <3>3. \A x, y \in Checked(u) : x <= y /\ y <= x => x = y
      BY <3>2
    <3>4. QED
      BY <3>1, <3>3 DEF Max
  <2>4. QED
    BY <2>1, <2>2, <2>3 DEF StreakCounted
<1>2. QED
  BY <1>1, InitStreak, StreakStays, PTL DEF Spec
=============================================================================
