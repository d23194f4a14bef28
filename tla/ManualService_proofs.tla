------------------------- MODULE ManualService_proofs -------------------------
(***************************************************************************)
(* The points service with all its handlers mixed.                         *)
(*                                                                         *)
(* Any number of instances implement the abstract ledger: each step of a   *)
(* part is a step of it, for the reasons the parts give.                   *)
(*                                                                         *)
(* The operators of PointsLedger that the three parts instantiate are the  *)
(* operators this module extends; that is said first.                      *)
(***************************************************************************)
EXTENDS ManualService, PointsLedger_proofs

\* What the reward handlers instantiate of the shared module is the shared module.
LEMMA RewardsRows ==
  /\ \A p, k : Rewards!Sees(p, k) = Sees(p, k) /\ (Rewards!Exists(p, k) <=> Exists(p, k))
  /\ \A p, k, v : Rewards!WriteRow(p, k, v) <=> WriteRow(p, k, v)
  /\ \A p, k, v : Rewards!InsertRow(p, k, v) <=> InsertRow(p, k, v)
  /\ \A p, k : Rewards!Refused(p, k) <=> Refused(p, k)
  /\ \A p, k : Rewards!LockRow(p, k) <=> LockRow(p, k)
<1>1. \A p, k : Rewards!Sees(p, k) = Sees(p, k) /\ (Rewards!Exists(p, k) <=> Exists(p, k))
  BY DEF
    Sees, Rewards!Sees, Exists, Rewards!Exists
<1>2. \A p, k, v : Rewards!WriteRow(p, k, v) <=> WriteRow(p, k, v)
  BY DEF
    WriteRow, Rewards!WriteRow, Free, Rewards!Free
<1>3. \A p, k, v : Rewards!InsertRow(p, k, v) <=> InsertRow(p, k, v)
  BY DEF
    InsertRow, Rewards!InsertRow, WriteRow, Rewards!WriteRow, Free, Rewards!Free
<1>4. \A p, k : Rewards!Refused(p, k) <=> Refused(p, k)
  BY DEF
    Refused, Rewards!Refused, Free, Rewards!Free
<1>5. \A p, k : Rewards!LockRow(p, k) <=> LockRow(p, k)
  BY DEF
    LockRow, Rewards!LockRow, Free, Rewards!Free
<1>6. QED
  BY <1>1, <1>2, <1>3, <1>4, <1>5

LEMMA RewardsReads ==
  /\ \A p : Rewards!Visible(p) = Visible(p)
  /\ \A rows : Rewards!Deltas(rows) = Deltas(rows)
  /\ \A p, next : Rewards!PickLastRow(p, next) <=> PickLastRow(p, next)
<1>1. \A p : Rewards!Visible(p) = Visible(p)
  BY DEF
    Visible, Rewards!Visible
<1>2. \A rows : Rewards!Deltas(rows) = Deltas(rows)
  BY DEF
    Deltas, Rewards!Deltas, MapThenSumSet, Rewards!MapThenSumSet, MapThenFoldSet,
    Rewards!MapThenFoldSet
<1>3. \A p, next : Rewards!PickLastRow(p, next) <=> PickLastRow(p, next)
  BY DEF
    PickLastRow, Rewards!PickLastRow, LastRows, Rewards!LastRows, Visible, Rewards!Visible,
    Goto, Rewards!Goto, rowVars, Rewards!rowVars, ledgerVars, Rewards!ledgerVars, clockVars,
    Rewards!clockVars
<1>4. QED
  BY <1>1, <1>2, <1>3

LEMMA RewardsCalls ==
  /\ \A p, f, first : Rewards!StartCall(p, f, first) <=> StartCall(p, f, first)
  /\ \A p : Rewards!GiveUp(p) <=> GiveUp(p)
  /\ \A p : Rewards!CommitLedger(p) <=> CommitLedger(p)
  /\ \A p : Rewards!Commit(p) <=> Commit(p)
  /\ \A p : Rewards!EnsureMissing(p) <=> EnsureMissing(p)
  /\ \A p, next : Rewards!EnsureInsert(p, next) <=> EnsureInsert(p, next)
<1>1. \A p, f, first : Rewards!StartCall(p, f, first) <=> StartCall(p, f, first)
  BY DEF
    StartCall, Rewards!StartCall, Goto, Rewards!Goto, rowVars, Rewards!rowVars, ledgerVars,
    Rewards!ledgerVars, clockVars, Rewards!clockVars
<1>2. \A p : Rewards!GiveUp(p) <=> GiveUp(p)
  BY DEF
    GiveUp, Rewards!GiveUp, RollbackRows, Rewards!RollbackRows, Unlocked, Rewards!Unlocked,
    Return, Rewards!Return, Goto, Rewards!Goto, NoFrame, Rewards!NoFrame, clockVars,
    Rewards!clockVars
<1>3. \A p : Rewards!CommitLedger(p) <=> CommitLedger(p)
  BY DEF
    CommitLedger, Rewards!CommitLedger, CommitRows, Rewards!CommitRows, Unlocked,
    Rewards!Unlocked, Sees, Rewards!Sees
<1>4. \A p : Rewards!Commit(p) <=> Commit(p)
  BY DEF
    Commit, Rewards!Commit, CommitLedger, Rewards!CommitLedger, CommitRows, Rewards!CommitRows,
    Unlocked, Rewards!Unlocked, Sees, Rewards!Sees, Return, Rewards!Return, Goto, Rewards!Goto,
    NoFrame, Rewards!NoFrame, clockVars, Rewards!clockVars
<1>5. \A p : Rewards!EnsureMissing(p) <=> EnsureMissing(p)
  BY DEF
    EnsureMissing, Rewards!EnsureMissing, StateRow, Rewards!StateRow, Goto, Rewards!Goto,
    rowVars, Rewards!rowVars, ledgerVars, Rewards!ledgerVars, clockVars, Rewards!clockVars
<1>6. \A p, next : Rewards!EnsureInsert(p, next) <=> EnsureInsert(p, next)
  BY DEF
    EnsureInsert, Rewards!EnsureInsert, AutocommitRow, Rewards!AutocommitRow, Free,
    Rewards!Free, Refused, Rewards!Refused, StateRow, Rewards!StateRow, FreshState,
    Rewards!FreshState, NoDay, Rewards!NoDay, GiveUp, Rewards!GiveUp, RollbackRows,
    Rewards!RollbackRows, Unlocked, Rewards!Unlocked, Return, Rewards!Return, Goto,
    Rewards!Goto, NoFrame, Rewards!NoFrame, ledgerVars, Rewards!ledgerVars, clockVars,
    Rewards!clockVars
<1>7. QED
  BY <1>1, <1>2, <1>3, <1>4, <1>5, <1>6

LEMMA RewardsAppends ==
  /\ \A p : Rewards!AppendRead(p) <=> AppendRead(p)
  /\ \A p, done : Rewards!AppendInsert(p, done) <=> AppendInsert(p, done)
  /\ \A p : Rewards!AppendDuplicate(p) <=> AppendDuplicate(p)
  /\ \A p : Rewards!AppendNoState(p) <=> AppendNoState(p)
  /\ \A p : Rewards!MakeState(p) <=> MakeState(p)
<1>1. \A p : Rewards!AppendRead(p) <=> AppendRead(p)
  BY DEF
    AppendRead, Rewards!AppendRead, Balances, Rewards!Balances, LastRows, Rewards!LastRows,
    Visible, Rewards!Visible, Exists, Rewards!Exists, Sees, Rewards!Sees, StateRow,
    Rewards!StateRow, Goto, Rewards!Goto, rowVars, Rewards!rowVars, ledgerVars,
    Rewards!ledgerVars, clockVars, Rewards!clockVars
<1>2. \A p, done : Rewards!AppendInsert(p, done) <=> AppendInsert(p, done)
  BY DEF
    AppendInsert, Rewards!AppendInsert, InsertMayRun, Rewards!InsertMayRun, Duplicates,
    Rewards!Duplicates, SingletonEvents, Rewards!SingletonEvents, Visible, Rewards!Visible,
    Goto, Rewards!Goto, rowVars, Rewards!rowVars
<1>3. \A p : Rewards!AppendDuplicate(p) <=> AppendDuplicate(p)
  BY DEF
    AppendDuplicate, Rewards!AppendDuplicate, InsertMayRun, Rewards!InsertMayRun, Duplicates,
    Rewards!Duplicates, SingletonEvents, Rewards!SingletonEvents, Visible, Rewards!Visible,
    GiveUp, Rewards!GiveUp, RollbackRows, Rewards!RollbackRows, Unlocked, Rewards!Unlocked,
    Return, Rewards!Return, Goto, Rewards!Goto, NoFrame, Rewards!NoFrame, clockVars,
    Rewards!clockVars
<1>4. \A p : Rewards!AppendNoState(p) <=> AppendNoState(p)
  BY DEF
    AppendNoState, Rewards!AppendNoState, Exists, Rewards!Exists, Sees, Rewards!Sees, StateRow,
    Rewards!StateRow, Goto, Rewards!Goto, rowVars, Rewards!rowVars, ledgerVars,
    Rewards!ledgerVars, clockVars, Rewards!clockVars
<1>5. \A p : Rewards!MakeState(p) <=> MakeState(p)
  BY DEF
    MakeState, Rewards!MakeState, InsertRow, Rewards!InsertRow, WriteRow, Rewards!WriteRow,
    Free, Rewards!Free, Refused, Rewards!Refused, StateRow, Rewards!StateRow, FreshState,
    Rewards!FreshState, NoDay, Rewards!NoDay, GiveUp, Rewards!GiveUp, RollbackRows,
    Rewards!RollbackRows, Unlocked, Rewards!Unlocked, Return, Rewards!Return, Goto,
    Rewards!Goto, NoFrame, Rewards!NoFrame, ledgerVars, Rewards!ledgerVars, clockVars,
    Rewards!clockVars
<1>6. QED
  BY <1>1, <1>2, <1>3, <1>4, <1>5

\* What the referrals instantiate of the shared module is the shared module.
LEMMA ReferralsRows ==
  /\ \A p, k : Referrals!Sees(p, k) = Sees(p, k) /\ (Referrals!Exists(p, k) <=> Exists(p, k))
  /\ \A p, k, v : Referrals!WriteRow(p, k, v) <=> WriteRow(p, k, v)
  /\ \A p, k, v : Referrals!InsertRow(p, k, v) <=> InsertRow(p, k, v)
  /\ \A p, k : Referrals!Refused(p, k) <=> Refused(p, k)
  /\ \A p, k : Referrals!LockRow(p, k) <=> LockRow(p, k)
<1>1. \A p, k : Referrals!Sees(p, k) = Sees(p, k) /\ (Referrals!Exists(p, k) <=> Exists(p, k))
  BY DEF
    Sees, Referrals!Sees, Exists, Referrals!Exists
<1>2. \A p, k, v : Referrals!WriteRow(p, k, v) <=> WriteRow(p, k, v)
  BY DEF
    WriteRow, Referrals!WriteRow, Free, Referrals!Free
<1>3. \A p, k, v : Referrals!InsertRow(p, k, v) <=> InsertRow(p, k, v)
  BY DEF
    InsertRow, Referrals!InsertRow, WriteRow, Referrals!WriteRow, Free, Referrals!Free
<1>4. \A p, k : Referrals!Refused(p, k) <=> Refused(p, k)
  BY DEF
    Refused, Referrals!Refused, Free, Referrals!Free
<1>5. \A p, k : Referrals!LockRow(p, k) <=> LockRow(p, k)
  BY DEF
    LockRow, Referrals!LockRow, Free, Referrals!Free
<1>6. QED
  BY <1>1, <1>2, <1>3, <1>4, <1>5

LEMMA ReferralsReads ==
  /\ \A p : Referrals!Visible(p) = Visible(p)
  /\ \A rows : Referrals!Deltas(rows) = Deltas(rows)
<1>1. \A p : Referrals!Visible(p) = Visible(p)
  BY DEF
    Visible, Referrals!Visible
<1>2. \A rows : Referrals!Deltas(rows) = Deltas(rows)
  BY DEF
    Deltas, Referrals!Deltas, MapThenSumSet, Referrals!MapThenSumSet, MapThenFoldSet,
    Referrals!MapThenFoldSet
<1>3. QED
  BY <1>1, <1>2

LEMMA ReferralsCalls ==
  /\ \A p, f, first : Referrals!StartCall(p, f, first) <=> StartCall(p, f, first)
  /\ \A p : Referrals!GiveUp(p) <=> GiveUp(p)
  /\ \A p : Referrals!CommitLedger(p) <=> CommitLedger(p)
  /\ \A p : Referrals!Commit(p) <=> Commit(p)
  /\ \A p : Referrals!EnsureMissing(p) <=> EnsureMissing(p)
  /\ \A p, next : Referrals!EnsureInsert(p, next) <=> EnsureInsert(p, next)
<1>1. \A p, f, first : Referrals!StartCall(p, f, first) <=> StartCall(p, f, first)
  BY DEF
    StartCall, Referrals!StartCall, Goto, Referrals!Goto, rowVars, Referrals!rowVars,
    ledgerVars, Referrals!ledgerVars, clockVars, Referrals!clockVars
<1>2. \A p : Referrals!GiveUp(p) <=> GiveUp(p)
  BY DEF
    GiveUp, Referrals!GiveUp, RollbackRows, Referrals!RollbackRows, Unlocked,
    Referrals!Unlocked, Return, Referrals!Return, Goto, Referrals!Goto, NoFrame,
    Referrals!NoFrame, clockVars, Referrals!clockVars
<1>3. \A p : Referrals!CommitLedger(p) <=> CommitLedger(p)
  BY DEF
    CommitLedger, Referrals!CommitLedger, CommitRows, Referrals!CommitRows, Unlocked,
    Referrals!Unlocked, Sees, Referrals!Sees
<1>4. \A p : Referrals!Commit(p) <=> Commit(p)
  BY DEF
    Commit, Referrals!Commit, CommitLedger, Referrals!CommitLedger, CommitRows,
    Referrals!CommitRows, Unlocked, Referrals!Unlocked, Sees, Referrals!Sees, Return,
    Referrals!Return, Goto, Referrals!Goto, NoFrame, Referrals!NoFrame, clockVars,
    Referrals!clockVars
<1>5. \A p : Referrals!EnsureMissing(p) <=> EnsureMissing(p)
  BY DEF
    EnsureMissing, Referrals!EnsureMissing, StateRow, Referrals!StateRow, Goto, Referrals!Goto,
    rowVars, Referrals!rowVars, ledgerVars, Referrals!ledgerVars, clockVars,
    Referrals!clockVars
<1>6. \A p, next : Referrals!EnsureInsert(p, next) <=> EnsureInsert(p, next)
  BY DEF
    EnsureInsert, Referrals!EnsureInsert, AutocommitRow, Referrals!AutocommitRow, Free,
    Referrals!Free, Refused, Referrals!Refused, StateRow, Referrals!StateRow, FreshState,
    Referrals!FreshState, NoDay, Referrals!NoDay, GiveUp, Referrals!GiveUp, RollbackRows,
    Referrals!RollbackRows, Unlocked, Referrals!Unlocked, Return, Referrals!Return, Goto,
    Referrals!Goto, NoFrame, Referrals!NoFrame, ledgerVars, Referrals!ledgerVars, clockVars,
    Referrals!clockVars
<1>7. QED
  BY <1>1, <1>2, <1>3, <1>4, <1>5, <1>6

LEMMA ReferralsAppends ==
  /\ \A p : Referrals!AppendRead(p) <=> AppendRead(p)
  /\ \A p, done : Referrals!AppendInsert(p, done) <=> AppendInsert(p, done)
  /\ \A p : Referrals!AppendDuplicate(p) <=> AppendDuplicate(p)
<1>1. \A p : Referrals!AppendRead(p) <=> AppendRead(p)
  BY DEF
    AppendRead, Referrals!AppendRead, Balances, Referrals!Balances, LastRows,
    Referrals!LastRows, Visible, Referrals!Visible, Exists, Referrals!Exists, Sees,
    Referrals!Sees, StateRow, Referrals!StateRow, Goto, Referrals!Goto, rowVars,
    Referrals!rowVars, ledgerVars, Referrals!ledgerVars, clockVars, Referrals!clockVars
<1>2. \A p, done : Referrals!AppendInsert(p, done) <=> AppendInsert(p, done)
  BY DEF
    AppendInsert, Referrals!AppendInsert, InsertMayRun, Referrals!InsertMayRun, Duplicates,
    Referrals!Duplicates, SingletonEvents, Referrals!SingletonEvents, Visible,
    Referrals!Visible, Goto, Referrals!Goto, rowVars, Referrals!rowVars
<1>3. \A p : Referrals!AppendDuplicate(p) <=> AppendDuplicate(p)
  BY DEF
    AppendDuplicate, Referrals!AppendDuplicate, InsertMayRun, Referrals!InsertMayRun,
    Duplicates, Referrals!Duplicates, SingletonEvents, Referrals!SingletonEvents, Visible,
    Referrals!Visible, GiveUp, Referrals!GiveUp, RollbackRows, Referrals!RollbackRows,
    Unlocked, Referrals!Unlocked, Return, Referrals!Return, Goto, Referrals!Goto, NoFrame,
    Referrals!NoFrame, clockVars, Referrals!clockVars
<1>4. QED
  BY <1>1, <1>2, <1>3

\* What the prediction game instantiates of the shared module is the shared module.
LEMMA PredictionsRows ==
  /\ \A p, k : Predictions!Sees(p, k) = Sees(p, k) /\ (Predictions!Exists(p, k) <=> Exists(p, k))
  /\ \A p, k, v : Predictions!WriteRow(p, k, v) <=> WriteRow(p, k, v)
  /\ \A p, k, v : Predictions!InsertRow(p, k, v) <=> InsertRow(p, k, v)
  /\ \A p, k : Predictions!Refused(p, k) <=> Refused(p, k)
  /\ \A p, k : Predictions!LockRow(p, k) <=> LockRow(p, k)
<1>1. \A p, k : Predictions!Sees(p, k) = Sees(p, k) /\ (Predictions!Exists(p, k) <=> Exists(p, k))
  BY DEF
    Sees, Predictions!Sees, Exists, Predictions!Exists
<1>2. \A p, k, v : Predictions!WriteRow(p, k, v) <=> WriteRow(p, k, v)
  BY DEF
    WriteRow, Predictions!WriteRow, Free, Predictions!Free
<1>3. \A p, k, v : Predictions!InsertRow(p, k, v) <=> InsertRow(p, k, v)
  BY DEF
    InsertRow, Predictions!InsertRow, WriteRow, Predictions!WriteRow, Free, Predictions!Free
<1>4. \A p, k : Predictions!Refused(p, k) <=> Refused(p, k)
  BY DEF
    Refused, Predictions!Refused, Free, Predictions!Free
<1>5. \A p, k : Predictions!LockRow(p, k) <=> LockRow(p, k)
  BY DEF
    LockRow, Predictions!LockRow, Free, Predictions!Free
<1>6. QED
  BY <1>1, <1>2, <1>3, <1>4, <1>5

LEMMA PredictionsReads ==
  /\ \A p : Predictions!Visible(p) = Visible(p)
  /\ \A rows : Predictions!Deltas(rows) = Deltas(rows)
  /\ \A p, next : Predictions!PickLastRow(p, next) <=> PickLastRow(p, next)
<1>1. \A p : Predictions!Visible(p) = Visible(p)
  BY DEF
    Visible, Predictions!Visible
<1>2. \A rows : Predictions!Deltas(rows) = Deltas(rows)
  BY DEF
    Deltas, Predictions!Deltas, MapThenSumSet, Predictions!MapThenSumSet, MapThenFoldSet,
    Predictions!MapThenFoldSet
<1>3. \A p, next : Predictions!PickLastRow(p, next) <=> PickLastRow(p, next)
  BY DEF
    PickLastRow, Predictions!PickLastRow, LastRows, Predictions!LastRows, Visible,
    Predictions!Visible, Goto, Predictions!Goto, rowVars, Predictions!rowVars, ledgerVars,
    Predictions!ledgerVars, clockVars, Predictions!clockVars
<1>4. QED
  BY <1>1, <1>2, <1>3

LEMMA PredictionsCalls ==
  /\ \A p, f, first : Predictions!StartCall(p, f, first) <=> StartCall(p, f, first)
  /\ \A p : Predictions!GiveUp(p) <=> GiveUp(p)
  /\ \A p : Predictions!CommitLedger(p) <=> CommitLedger(p)
  /\ \A p : Predictions!Commit(p) <=> Commit(p)
<1>1. \A p, f, first : Predictions!StartCall(p, f, first) <=> StartCall(p, f, first)
  BY DEF
    StartCall, Predictions!StartCall, Goto, Predictions!Goto, rowVars, Predictions!rowVars,
    ledgerVars, Predictions!ledgerVars, clockVars, Predictions!clockVars
<1>2. \A p : Predictions!GiveUp(p) <=> GiveUp(p)
  BY DEF
    GiveUp, Predictions!GiveUp, RollbackRows, Predictions!RollbackRows, Unlocked,
    Predictions!Unlocked, Return, Predictions!Return, Goto, Predictions!Goto, NoFrame,
    Predictions!NoFrame, clockVars, Predictions!clockVars
<1>3. \A p : Predictions!CommitLedger(p) <=> CommitLedger(p)
  BY DEF
    CommitLedger, Predictions!CommitLedger, CommitRows, Predictions!CommitRows, Unlocked,
    Predictions!Unlocked, Sees, Predictions!Sees
<1>4. \A p : Predictions!Commit(p) <=> Commit(p)
  BY DEF
    Commit, Predictions!Commit, CommitLedger, Predictions!CommitLedger, CommitRows,
    Predictions!CommitRows, Unlocked, Predictions!Unlocked, Sees, Predictions!Sees, Return,
    Predictions!Return, Goto, Predictions!Goto, NoFrame, Predictions!NoFrame, clockVars,
    Predictions!clockVars
<1>5. QED
  BY <1>1, <1>2, <1>3, <1>4

LEMMA PredictionsAppends ==
  /\ \A p : Predictions!AppendRead(p) <=> AppendRead(p)
  /\ \A p, done : Predictions!AppendInsert(p, done) <=> AppendInsert(p, done)
  /\ \A p : Predictions!AppendDuplicate(p) <=> AppendDuplicate(p)
<1>1. \A p : Predictions!AppendRead(p) <=> AppendRead(p)
  BY DEF
    AppendRead, Predictions!AppendRead, Balances, Predictions!Balances, LastRows,
    Predictions!LastRows, Visible, Predictions!Visible, Exists, Predictions!Exists, Sees,
    Predictions!Sees, StateRow, Predictions!StateRow, Goto, Predictions!Goto, rowVars,
    Predictions!rowVars, ledgerVars, Predictions!ledgerVars, clockVars, Predictions!clockVars
<1>2. \A p, done : Predictions!AppendInsert(p, done) <=> AppendInsert(p, done)
  BY DEF
    AppendInsert, Predictions!AppendInsert, InsertMayRun, Predictions!InsertMayRun, Duplicates,
    Predictions!Duplicates, SingletonEvents, Predictions!SingletonEvents, Visible,
    Predictions!Visible, Goto, Predictions!Goto, rowVars, Predictions!rowVars
<1>3. \A p : Predictions!AppendDuplicate(p) <=> AppendDuplicate(p)
  BY DEF
    AppendDuplicate, Predictions!AppendDuplicate, InsertMayRun, Predictions!InsertMayRun,
    Duplicates, Predictions!Duplicates, SingletonEvents, Predictions!SingletonEvents, Visible,
    Predictions!Visible, GiveUp, Predictions!GiveUp, RollbackRows, Predictions!RollbackRows,
    Unlocked, Predictions!Unlocked, Return, Predictions!Return, Goto, Predictions!Goto,
    NoFrame, Predictions!NoFrame, clockVars, Predictions!clockVars
<1>4. QED
  BY <1>1, <1>2, <1>3

-----------------------------------------------------------------------------
\* The abstract ledger, for any number of instances.  The next actions of all
\* the handlers append a row, commit, roll back, or leave the rows alone.

Untouched == UNCHANGED <<ledger, open>>

LEMMA SharedStepMaps ==
  ASSUME NEW p \in Procs, DOMAIN open = Procs, NEW done, NEW next,
         \/ GiveUp(p) \/ CommitLedger(p) \/ Commit(p)
         \/ EnsureMissing(p) \/ EnsureInsert(p, next)
         \/ AppendRead(p) \/ AppendInsert(p, done) \/ AppendNoState(p) \/ MakeState(p)
         \/ AppendDuplicate(p) \/ PickLastRow(p, next)
  PROVE  Index!Next \/ Untouched
<1>1. CASE GiveUp(p)
  BY <1>1, GiveUpRollsBack DEF Index!Next
<1>2. CASE CommitLedger(p) \/ Commit(p)
  BY <1>2, CommitCommits DEF Commit, Index!Next
<1>3. CASE AppendInsert(p, done)
  BY <1>3, InsertAppends DEF Index!Next
<1>4. CASE EnsureMissing(p) \/ EnsureInsert(p, next) \/ PickLastRow(p, next)
  BY <1>1, <1>4 DEF EnsureMissing, EnsureInsert, PickLastRow, Untouched, ledgerVars
<1>5. CASE AppendRead(p) \/ AppendNoState(p) \/ MakeState(p) \/ AppendDuplicate(p)
  BY <1>1, <1>5 DEF AppendRead, AppendNoState, MakeState, AppendDuplicate, Untouched, ledgerVars
<1>6. QED
  BY <1>1, <1>2, <1>3, <1>4, <1>5

LEMMA RewardsStepMaps ==
  ASSUME NEW p \in Procs, DOMAIN open = Procs, Rewards!Step(p)
  PROVE  Index!Next \/ Untouched
<1>1. CASE \/ GiveUp(p) \/ Commit(p) \/ EnsureMissing(p) \/ EnsureInsert(p, Rewards!AfterEnsure(p))
           \/ AppendRead(p) \/ AppendInsert(p, "commit") \/ AppendNoState(p) \/ MakeState(p)
           \/ AppendDuplicate(p) \/ PickLastRow(p, "vipLock")
  BY <1>1, SharedStepMaps
<1>2. CASE Rewards!SignupCheck(p) \/ Rewards!EnsureFound(p) \/ Rewards!Today(p) \/ Rewards!Answer(p)
  BY <1>1, <1>2, RewardsCalls
  DEF Rewards!SignupCheck, Rewards!EnsureFound, Rewards!Today, Rewards!Answer, Rewards!ledgerVars,
    Untouched
<1>3. CASE \/ Rewards!CheckinSelect(p) \/ Rewards!CheckinInsert(p) \/ Rewards!CheckinState(p)
           \/ Rewards!EngageSelect(p) \/ Rewards!EngageInsert(p)
  BY <1>1, <1>3, RewardsCalls
  DEF Rewards!CheckinSelect, Rewards!CheckinInsert, Rewards!CheckinState, Rewards!EngageSelect,
    Rewards!EngageInsert, Rewards!DailySelect, Rewards!DailyInsert, Rewards!ledgerVars, Untouched
<1>4. CASE Rewards!VipCap(p) \/ Rewards!VipPick(p) \/ Rewards!VipLock(p) \/ Rewards!VipState(p)
  BY <1>1, <1>4, RewardsCalls, RewardsReads
  DEF Rewards!VipCap, Rewards!VipPick, Rewards!VipLock, Rewards!VipState, Rewards!ledgerVars,
    Untouched
<1>5. QED
  BY <1>1, <1>2, <1>3, <1>4, RewardsCalls, RewardsAppends DEF Rewards!Step

LEMMA ReferralsStepMaps ==
  ASSUME NEW p \in Procs, DOMAIN open = Procs, Referrals!Step(p)
  PROVE  Index!Next \/ Untouched
<1>1. CASE \/ GiveUp(p) \/ CommitLedger(p) \/ Commit(p)
           \/ EnsureMissing(p) \/ EnsureInsert(p, Referrals!AfterEnsure(p))
           \/ AppendRead(p) \/ AppendInsert(p, "commit") \/ AppendDuplicate(p)
  BY <1>1, SharedStepMaps
<1>2. CASE Referrals!EnsureFound(p) \/ Referrals!OnboardCheck(p) \/ Referrals!OnboardCommit(p)
  BY <1>1, <1>2, ReferralsCalls
  DEF Referrals!EnsureFound, Referrals!OnboardCheck, Referrals!OnboardCommit, Referrals!ledgerVars,
    Untouched
<1>3. CASE \/ Referrals!ClaimCheck(p) \/ Referrals!ClaimLock(p) \/ Referrals!ClaimState(p)
           \/ Referrals!ClaimInsert(p)
  BY <1>1, <1>3, ReferralsCalls
  DEF Referrals!ClaimCheck, Referrals!ClaimLock, Referrals!ClaimState, Referrals!ClaimInsert,
    Referrals!ledgerVars, Untouched
<1>4. CASE \/ Referrals!Stage2Read(p) \/ Referrals!Stage2Lock(p) \/ Referrals!Stage2Cap(p)
           \/ Referrals!Stage2Update(p)
  BY <1>1, <1>4, ReferralsCalls
  DEF Referrals!Stage2Read, Referrals!Stage2Lock, Referrals!Stage2Cap, Referrals!Stage2Update,
    Referrals!ledgerVars, Untouched
<1>5. QED
  BY <1>1, <1>2, <1>3, <1>4, ReferralsCalls, ReferralsAppends DEF Referrals!Step

LEMMA MarketsStepMaps ==
  ASSUME NEW p \in Procs, DOMAIN open = Procs, MarketStep(p)
  PROVE  Index!Next \/ Untouched
<1> DEFINE done == IF frame[p].op = "settle" THEN "settleNext" ELSE "commit"
<1>1. CASE \/ GiveUp(p) \/ Commit(p) \/ AppendRead(p) \/ AppendInsert(p, done)
           \/ AppendNoState(p) \/ MakeState(p) \/ PickLastRow(p, "lastLock")
  BY <1>1, SharedStepMaps
<1>2. CASE \/ Predictions!MarketRead(p) \/ Predictions!EntrySelect(p)
           \/ Predictions!FreeSelect(p) \/ Predictions!FreeInsert(p)
           \/ Predictions!MainSelect(p) \/ Predictions!MainInsert(p)
  BY <1>1, <1>2, PredictionsCalls
  DEF Predictions!MarketRead, Predictions!EntrySelect, Predictions!FreeSelect,
    Predictions!FreeInsert, Predictions!MainSelect, Predictions!MainInsert, Predictions!Proceed,
    Predictions!ledgerVars, Untouched
<1>3. CASE Predictions!LastPick(p) \/ Predictions!LastLock(p) \/ Predictions!EntryInsert(p)
  BY <1>1, <1>3, PredictionsCalls, PredictionsReads
  DEF Predictions!LastPick, Predictions!LastLock, Predictions!EntryInsert, Predictions!ledgerVars,
    Untouched
<1>4. CASE \/ Predictions!SettleRead(p) \/ Predictions!SettleMarket(p)
           \/ Predictions!SettleEntries(p) \/ Predictions!SettleNext(p) \/ Predictions!SettleDone(p)
  BY <1>1, <1>4, PredictionsCalls
  DEF Predictions!SettleRead, Predictions!SettleMarket, Predictions!SettleEntries,
    Predictions!SettleNext, Predictions!SettleDone, Predictions!Proceed, Predictions!ledgerVars,
    Untouched
<1>5. QED
  BY <1>1, <1>2, <1>3, <1>4, PredictionsCalls, PredictionsAppends DEF MarketStep, Predictions!Step

LEMMA NextMaps ==
  ASSUME DOMAIN open = Procs, [Acts]_vars
  PROVE  Index!Next \/ Untouched
<1>1. CASE \E p \in Procs : Start(p)
  BY <1>1, RewardsCalls, ReferralsCalls, PredictionsCalls
  DEF Start, Rewards!Start, Referrals!Start, Predictions!Start, StartCall, Untouched, ledgerVars
<1>2. CASE \E p \in Procs : Step(p)
  BY <1>2, RewardsStepMaps, ReferralsStepMaps, MarketsStepMaps DEF Step
<1>3. CASE \E p \in Procs : Crash(p)
  BY <1>3, GiveUpRollsBack DEF Crash, Index!Next
<1>4. CASE NextDay \/ Quiet \/ UNCHANGED vars
  BY <1>4 DEF NextDay, Quiet, vars, Untouched, ledgerVars
<1>5. QED
  BY <1>1, <1>2, <1>3, <1>4 DEF Acts

\* All the handlers together, on any number of instances, implement the
\* abstract ledger: rows are only added, a transaction at a time, and never two
\* of the same singleton.
THEOREM ServiceImplementsLedger == Spec => ImplementsUniqueLedger
<1>1. Init => Index!Init /\ DOMAIN open = Procs
  BY DEF Init, LedgerInit, Index!Init, Index!Unique
<1>2. DOMAIN open = Procs /\ [Next]_serviceVars => [Index!Next]_<<ledger, open>>
  BY NextMaps DEF Untouched, Next, serviceVars
<1>3. DOMAIN open = Procs /\ [Next]_serviceVars => (DOMAIN open = Procs)'
  BY NextMaps DEF Untouched, Next, serviceVars, Index!Next, Index!Append, Index!Commit, Index!Rollback
<1>4. QED
  BY <1>1, <1>2, <1>3, PTL DEF Spec, ImplementsUniqueLedger, Index!Spec

\* A user is paid the sign-up bonus and the onboarding bonus at most once each,
\* however many instances race through hasLedgerEvent and whatever else they
\* serve.
THEOREM BonusesAreOnce ==
  Spec => [](Rewards!SignupBonusOnce /\ Referrals!OnboardingBonusOnce)
<1>1. Index!IndexHolds => Rewards!SignupBonusOnce /\ Referrals!OnboardingBonusOnce
  BY DEF Index!IndexHolds, Index!Unique, Index!Clash, Rewards!SignupBonusOnce,
    Referrals!OnboardingBonusOnce, SingletonEvents
<1>2. QED
  BY <1>1, ServiceImplementsLedger, IndexOfImplementation, PTL
=============================================================================
