----------------------- MODULE PredictionMarkets_proofs -----------------------
(***************************************************************************)
(* What is proved of the prediction game.  Types; that a settled entry     *)
(* keeps its result although the UPDATE of the market never looks at the   *)
(* status that was read before BEGIN: two settlements of a market are      *)
(* ordered by the lock on its row, which each holds from its first         *)
(* statement to its COMMIT; that the slots of a day count the entries of   *)
(* that day; and that the rows of the ledger are worth what the entries    *)
(* say, stakes taken and prizes paid.                                      *)
(***************************************************************************)
EXTENDS PredictionMarkets, PointsLedger_proofs

VersionsOf ==
  [k \in Keys |->
     IF k[1] = "market" THEN MarketVersions
     ELSE IF k[1] = "entry" THEN EntryVersions
     ELSE IF k[1] = "state" THEN {FreshState} ELSE SlotVersions]

CallFrames == Frames \ {NoFrame}

OpenVersions == {e \in EntryVersions \ {NoRow} : e.status = "OPEN"}

SubmitPcs == {"marketRead", "entrySelect", "freeSelect", "freeInsert", "mainSelect",
              "mainInsert", "lastPick", "lastLock", "entryInsert"}
SettlePcs == {"settleRead", "settleMarket", "settleEntries", "settleNext"}
SlotPcs == {"freeSelect", "freeInsert", "mainSelect", "mainInsert"}
LatePcs == {"settleNext", "append", "insert", "commit"}

\* p is in the transaction of a settlement.
Settling(p) == frame[p].op = "settle" /\ pc[p] \in LatePcs \cup {"settleEntries"}

\* The locals a statement finds set.
LocalOK(p) ==
  /\ pc[p] = "idle" <=> frame[p] = NoFrame
  /\ pc[p] \in SubmitPcs => frame[p].op = "submit"
  /\ pc[p] \in SettlePcs => frame[p].op = "settle"
  /\ frame[p].op = "submit" => frame[p].user \in Users /\ frame[p].entries = {}
  /\ pc[p] \in SlotPcs => frame[p].day \in Days

\* A settlement has the lock of its market, and the entries it has still to
\* settle are open: nobody else may settle them.
EntriesOK(p) ==
  /\ Settling(p) => owner[MarketRow(frame[p].market)] = p
  /\ frame[p].op = "settle" => \A u \in frame[p].entries :
       Settling(p) /\ db[EntryRow(frame[p].market, u)] \in OpenVersions

\* Nobody has an entry locked but the submission that has inserted it and the
\* settlement that has found it open.
LocksOK(p) ==
  \A m \in Markets, u \in Users : owner[EntryRow(m, u)] = p =>
    /\ pc[p] \in LatePcs /\ frame[p].market = m
    /\ \/ frame[p].op = "submit" /\ db[EntryRow(m, u)] = NoRow
       \/ frame[p].op = "settle" /\ db[EntryRow(m, u)] \in OpenVersions

IInv ==
  /\ Shared(VersionsOf, Events, Frames, Pcs)
  /\ \A p \in Procs : LocalOK(p) /\ EntriesOK(p) /\ LocksOK(p)

\* The entries with a result keep it in this step.
Final ==
  \A m \in Markets, u \in Users :
    HasEntry(m, u) /\ db[EntryRow(m, u)].status # "OPEN"
      => db'[EntryRow(m, u)] = db[EntryRow(m, u)]

\* A step of p leaves the others' locks alone, and publishes its own rows only.
OwnRows(p) ==
  /\ \A q \in Procs \ {p} : \A k \in Keys : owner'[k] = q <=> owner[k] = q
  /\ \A k \in Keys : db'[k] # db[k] => owner[k] = p

-----------------------------------------------------------------------------
\* Which versions the rows of each table have.
LEMMA RowTypes ==
  /\ DOMAIN VersionsOf = Keys
  /\ \A m \in Markets : MarketRow(m) \in Keys /\ VersionsOf[MarketRow(m)] = MarketVersions
  /\ \A m \in Markets, u \in Users :
       EntryRow(m, u) \in Keys /\ VersionsOf[EntryRow(m, u)] = EntryVersions
  /\ \A u \in Users, d \in Days :
       /\ MainRow(u, d) \in Keys /\ VersionsOf[MainRow(u, d)] = SlotVersions
       /\ FreeRow(u, d) \in Keys /\ VersionsOf[FreeRow(u, d)] = SlotVersions
<1>1. \A m \in Markets : MarketRow(m) \in Keys /\ VersionsOf[MarketRow(m)] = MarketVersions
  BY DEF VersionsOf, Keys, MarketKeys, MarketRow
<1>2. \A m \in Markets, u \in Users :
        EntryRow(m, u) \in Keys /\ VersionsOf[EntryRow(m, u)] = EntryVersions
  BY DEF VersionsOf, Keys, EntryKeys, EntryRow
<1>3. \A u \in Users, d \in Days :
        MainRow(u, d) \in Keys /\ VersionsOf[MainRow(u, d)] = SlotVersions
  BY DEF VersionsOf, Keys, MainKeys, MainRow
<1>4. \A u \in Users, d \in Days :
        FreeRow(u, d) \in Keys /\ VersionsOf[FreeRow(u, d)] = SlotVersions
  BY DEF VersionsOf, Keys, FreeKeys, FreeRow
<1>5. QED
  BY <1>1, <1>2, <1>3, <1>4 DEF VersionsOf

\* An entry's key is not one of another table, and says whose it is.
LEMMA KeysApart ==
  ASSUME NEW m \in Markets, NEW u \in Users
  PROVE  /\ \A n \in Markets : EntryRow(m, u) # MarketRow(n)
         /\ \A v \in Users, d \in Days : EntryRow(m, u) # MainRow(v, d)
                                           /\ EntryRow(m, u) # FreeRow(v, d)
         /\ \A n \in Markets, v \in Users : EntryRow(m, u) = EntryRow(n, v) => m = n /\ u = v
BY DEF EntryRow, MarketRow, MainRow, FreeRow

\* The locals of a call are of their types.
LEMMA FrameTypes ==
  /\ NoFrame \in Frames /\ NoFrame.op = "none"
  /\ \A f \in CallFrames :
       /\ f \in Frames /\ f # NoFrame
       /\ f.op \in {"submit", "settle"} /\ f.market \in Markets /\ f.option \in Options
       /\ f.stake \in Nat /\ f.entries \subseteq Users /\ f.row \in Rows \cup {NoRow}
BY PredictionAssumption DEF Frames, NoFrame, CallFrames

\* TypeOK is what the invariant says of each variable.
LEMMA IInvImplies == IInv => TypeOK
<1> SUFFICES ASSUME IInv PROVE TypeOK
  OBVIOUS
<1>1. \A k \in Keys : VersionsOf[k] \subseteq Versions
  BY DEF VersionsOf, Versions
<1>2. NoRow \in Versions
  BY DEF Versions
<1>3. db \in [Keys -> Versions] /\ new \in [Keys -> Versions]
  BY <1>1, <1>2, RowTypes DEF IInv, Shared, RowsInv
<1>4. owner \in [Keys -> Procs \cup {NoProc}]
  BY RowTypes DEF IInv, Shared, RowsInv
<1>5. RowsOf(Events) = Rows /\ AppendsOf(Events) = Appends
  BY DEF RowsOf, Rows, AppendsOf, Appends, Days
<1>6. QED
  BY <1>3, <1>4, <1>5 DEF IInv, Shared, TypeOK, Days

-----------------------------------------------------------------------------
\* What the statements of p do to the rows of the others.

\* A SELECT touches nothing.
LEMMA ReadOwnRows ==
  ASSUME NEW p \in Procs, UNCHANGED rowVars
  PROVE  OwnRows(p)
BY DEF OwnRows, rowVars

\* An INSERT or UPDATE locks a row nobody else has, and publishes nothing.
LEMMA WriteOwnRows ==
  ASSUME NEW p \in Procs, NEW k \in Keys, NEW v, IInv, WriteRow(p, k, v)
  PROVE  OwnRows(p)
<1>1. owner \in [Keys -> Procs \cup {NoProc}]
  BY RowTypes DEF IInv, Shared, RowsInv
<1>2. QED
  BY <1>1, LedgerAssumption DEF OwnRows, WriteRow, Free

\* COMMIT and ROLLBACK let go of every lock of p.
LEMMA EndOwnRows ==
  ASSUME NEW p \in Procs, IInv, CommitRows(p) \/ RollbackRows(p)
  PROVE  OwnRows(p) /\ \A k \in Keys : owner'[k] # p
<1>1. /\ owner \in [Keys -> Procs \cup {NoProc}]
      /\ DOMAIN db = Keys
  BY RowTypes DEF IInv, Shared, RowsInv
<1>2. owner' = [k \in Keys |-> IF owner[k] = p THEN NoProc ELSE owner[k]]
  BY <1>1 DEF CommitRows, RollbackRows, Unlocked
<1>3. \A k \in Keys : db'[k] # db[k] => owner[k] = p
  BY <1>1 DEF CommitRows, RollbackRows, Sees
<1>4. QED
  BY <1>2, <1>3, LedgerAssumption DEF OwnRows

\* A step that keeps to its own rows keeps what the invariant says of the
\* others.  That an entry they have still to settle is not published by p is
\* where the lock of the market's row is needed.
LEMMA OthersKeep ==
  ASSUME NEW p \in Procs, IInv, OthersKept(p), OwnRows(p),
         Shared(VersionsOf, Events, Frames, Pcs)',
         LocalOK(p)', EntriesOK(p)', LocksOK(p)'
  PROVE  IInv' /\ Final
<1>1. ASSUME NEW m \in Markets, NEW u \in Users, owner[EntryRow(m, u)] = p
      PROVE  db[EntryRow(m, u)] = NoRow \/ (Settling(p) /\ frame[p].market = m
                                              /\ db[EntryRow(m, u)] \in OpenVersions)
  BY <1>1 DEF IInv, LocksOK, Settling
<1>2. Final
  <2> SUFFICES ASSUME NEW m \in Markets, NEW u \in Users, HasEntry(m, u),
                      db[EntryRow(m, u)].status # "OPEN"
               PROVE  db'[EntryRow(m, u)] = db[EntryRow(m, u)]
    BY DEF Final
  <2>1. owner[EntryRow(m, u)] # p
    BY <1>1 DEF HasEntry, OpenVersions
  <2>2. QED
    BY <2>1, RowTypes DEF OwnRows
<1>3. ASSUME NEW q \in Procs, q # p
      PROVE  (LocalOK(q) /\ EntriesOK(q) /\ LocksOK(q))'
  <2>1. pc'[q] = pc[q] /\ frame'[q] = frame[q]
    BY <1>3 DEF OthersKept
  <2>2. LocalOK(q) /\ EntriesOK(q) /\ LocksOK(q)
    BY DEF IInv
  <2>3. frame[q].op = "settle" => frame[q].market \in Markets /\ frame[q].entries \subseteq Users
    <3>1. frame[q] \in Frames
      BY DEF IInv, Shared
    <3>2. QED
      BY <3>1, FrameTypes DEF CallFrames
  <2>4. EntriesOK(q)'
    <3>1. Settling(q)' <=> Settling(q)
      BY <2>1 DEF Settling
    <3>2. Settling(q) => owner'[MarketRow(frame[q].market)] = q
      <4>1. Settling(q) => MarketRow(frame[q].market) \in Keys
        BY <2>3, RowTypes DEF Settling
      <4>2. QED
        BY <1>3, <2>2, <4>1 DEF EntriesOK, OwnRows
    <3>3. ASSUME frame[q].op = "settle", NEW u \in frame[q].entries
          PROVE  db'[EntryRow(frame[q].market, u)] = db[EntryRow(frame[q].market, u)]
      <4> DEFINE k == EntryRow(frame[q].market, u)
      <4>1. Settling(q) /\ db[k] \in OpenVersions /\ owner[MarketRow(frame[q].market)] = q
        BY <2>2, <3>3 DEF EntriesOK
      <4>2. frame[q].market \in Markets /\ u \in Users /\ k \in Keys
        BY <2>3, <3>3, RowTypes
      <4>3. owner[k] = p => db[k] = NoRow
        <5>1. ASSUME Settling(p), frame[p].market = frame[q].market PROVE FALSE
          BY <1>3, <4>1, <5>1 DEF IInv, EntriesOK
        <5>2. QED
          BY <1>1, <4>2, <5>1
      <4>4. QED
        BY <4>1, <4>2, <4>3 DEF OwnRows, OpenVersions
    <3>4. QED
      BY <2>1, <2>2, <3>1, <3>2, <3>3 DEF EntriesOK
  <2>5. LocksOK(q)'
    <3>1. ASSUME NEW m \in Markets, NEW u \in Users, owner'[EntryRow(m, u)] = q
          PROVE  owner[EntryRow(m, u)] = q /\ db'[EntryRow(m, u)] = db[EntryRow(m, u)]
      BY <1>3, <3>1, RowTypes DEF OwnRows
    <3>2. QED
      BY <2>1, <2>2, <3>1 DEF LocksOK
  <2>6. QED
    BY <2>1, <2>2, <2>4, <2>5 DEF LocalOK
<1>4. QED
  BY <1>2, <1>3 DEF IInv

-----------------------------------------------------------------------------
\* A handler goes on with the statement next and the locals f.
LEMMA StepShared ==
  ASSUME NEW p \in Procs, NEW next \in Pcs, NEW f \in Frames, IInv,
         RowsInv(VersionsOf)',
         pc' = [pc EXCEPT ![p] = next], frame' = [frame EXCEPT ![p] = f],
         todo' \in [Procs -> Seq(AppendsOf(Events))],
         next \in {"append", "insert", "makeState"} => todo'[p] # <<>>,
         \A q \in Procs \ {p} : todo'[q] = todo[q],
         bal' \in [Procs -> Int], held' \in [Procs -> SUBSET RowsOf(Events)],
         UNCHANGED <<ledger, open, clockVars, calls>>
  PROVE  /\ Shared(VersionsOf, Events, Frames, Pcs)' /\ OthersKept(p)
         /\ pc'[p] = next /\ frame'[p] = f
BY DEF IInv, Shared, OthersKept, clockVars

\* A refusal, a rollback or a crash.
LEMMA GiveUpStep ==
  ASSUME NEW p \in Procs, IInv, GiveUp(p)
  PROVE  IInv' /\ Final
<1>1. "idle" \in Pcs /\ NoFrame \in Frames /\ NoFrame.op = "none"
  BY FrameTypes DEF Pcs
<1>2. Shared(VersionsOf, Events, Frames, Pcs)' /\ OthersKept(p)
        /\ pc'[p] = "idle" /\ frame'[p] = NoFrame
  BY <1>1, GiveUpKeeps DEF IInv
<1>3. OwnRows(p) /\ \A k \in Keys : owner'[k] # p
  BY EndOwnRows DEF GiveUp
<1>4. (LocalOK(p) /\ EntriesOK(p) /\ LocksOK(p))'
  BY <1>1, <1>2, <1>3, RowTypes
  DEF LocalOK, EntriesOK, LocksOK, Settling, SubmitPcs, SettlePcs, SlotPcs
<1>5. QED
  BY <1>2, <1>3, <1>4, OthersKeep

\* The COMMIT of a submission or of a settlement.
LEMMA CommitStep ==
  ASSUME NEW p \in Procs, IInv, Commit(p)
  PROVE  IInv' /\ Final
<1>1. "idle" \in Pcs /\ NoFrame \in Frames /\ NoFrame.op = "none"
  BY FrameTypes DEF Pcs
<1>2. Shared(VersionsOf, Events, Frames, Pcs)' /\ OthersKept(p)
        /\ pc'[p] = "idle" /\ frame'[p] = NoFrame
  BY <1>1, CommitKeeps DEF IInv
<1>3. OwnRows(p) /\ \A k \in Keys : owner'[k] # p
  BY EndOwnRows DEF Commit, CommitLedger
<1>4. (LocalOK(p) /\ EntriesOK(p) /\ LocksOK(p))'
  BY <1>1, <1>2, <1>3, RowTypes
  DEF LocalOK, EntriesOK, LocksOK, Settling, SubmitPcs, SettlePcs, SlotPcs
<1>5. QED
  BY <1>2, <1>3, <1>4, OthersKeep

\* A call starts.
LEMMA StartStep ==
  ASSUME NEW p \in Procs, IInv, Start(p)
  PROVE  IInv' /\ Final
<1>1. PICK f, first :
        /\ StartCall(p, f, first)
        /\ f \in CallFrames /\ f.entries = {}
        /\ \/ f.op = "submit" /\ f.user \in Users /\ first = "marketRead"
           \/ f.op = "settle" /\ first = "settleRead"
  <2>1. PICK m \in Markets, option \in Options :
          \/ /\ "submit" \in Ops
             /\ \E u \in Users, stake \in Stakes(m) :
                  StartCall(p, Frame("submit", u, m, option, stake), "marketRead")
          \/ /\ "settle" \in Ops
             /\ StartCall(p, Frame("settle", NoRow, m, option, 0), "settleRead")
    BY DEF Start
  <2>2. CASE /\ "submit" \in Ops
             /\ \E u \in Users, stake \in Stakes(m) :
                  StartCall(p, Frame("submit", u, m, option, stake), "marketRead")
    <3>1. PICK u \in Users, stake \in Stakes(m) :
            StartCall(p, Frame("submit", u, m, option, stake), "marketRead")
      BY <2>2
    <3>2. stake \in Nat
      BY PredictionAssumption DEF Stakes, Kinds
    <3>3. PICK f : f = Frame("submit", u, m, option, stake)
      OBVIOUS
    <3>4. f \in CallFrames /\ f.entries = {} /\ f.op = "submit" /\ f.user \in Users
      BY <2>2, <3>2, <3>3 DEF Frame, CallFrames, Frames, NoFrame
    <3>5. QED
      BY <3>1, <3>3, <3>4
  <2>3. CASE /\ "settle" \in Ops
             /\ StartCall(p, Frame("settle", NoRow, m, option, 0), "settleRead")
    <3>1. PICK f : f = Frame("settle", NoRow, m, option, 0)
      OBVIOUS
    <3>2. f \in CallFrames /\ f.entries = {} /\ f.op = "settle"
      BY <2>3, <3>1 DEF Frame, CallFrames, Frames, NoFrame
    <3>3. QED
      BY <2>3, <3>1, <3>2
  <2>4. QED
    BY <2>1, <2>2, <2>3
<1>2. f \in Frames /\ f # NoFrame /\ first \in Pcs
        /\ first \notin {"append", "insert", "makeState"}
  BY <1>1, FrameTypes DEF Pcs
<1>3. /\ Shared(VersionsOf, Events, Frames, Pcs)' /\ OthersKept(p)
      /\ pc'[p] = first /\ frame'[p] = f
  BY <1>1, <1>2, StartKeeps DEF IInv
<1>4. rowVars' = rowVars /\ pc[p] = "idle"
  BY <1>1 DEF StartCall
<1>5. LocksOK(p)'
  <2>1. \A m \in Markets, u \in Users : owner[EntryRow(m, u)] # p
    BY <1>4 DEF IInv, LocksOK, LatePcs
  <2>2. QED
    BY <1>4, <2>1 DEF LocksOK, rowVars
<1>6. LocalOK(p)' /\ EntriesOK(p)'
  BY <1>1, <1>2, <1>3
  DEF LocalOK, EntriesOK, Settling, SubmitPcs, SettlePcs, SlotPcs, LatePcs
<1>7. QED
  BY <1>3, <1>4, <1>5, <1>6, OthersKeep, ReadOwnRows

-----------------------------------------------------------------------------
\* submitManualPredictionEntry

\* What a submission knows before it has inserted its entry.
LEMMA SubmitFacts ==
  ASSUME NEW p \in Procs, IInv, pc[p] \in SubmitPcs
  PROVE  /\ Shared(VersionsOf, Events, Frames, Pcs)
         /\ frame[p] \in CallFrames /\ frame[p].op = "submit"
         /\ frame[p].user \in Users /\ frame[p].entries = {}
         /\ frame[p].market \in Markets
         /\ \A m \in Markets, u \in Users : owner[EntryRow(m, u)] # p
<1>1. Shared(VersionsOf, Events, Frames, Pcs) /\ LocalOK(p) /\ LocksOK(p)
  BY DEF IInv
<1>2. frame[p] \in CallFrames /\ frame[p].op = "submit"
  BY <1>1 DEF Shared, LocalOK, SubmitPcs, CallFrames
<1>3. \A m \in Markets, u \in Users : owner[EntryRow(m, u)] # p
  BY <1>1 DEF LocksOK, SubmitPcs, LatePcs
<1>4. QED
  BY <1>1, <1>2, <1>3, FrameTypes DEF LocalOK

\* It goes on with its next statement and has no entry locked.
LEMMA SubmitMoves ==
  ASSUME NEW p \in Procs, NEW next \in SubmitPcs, NEW f \in CallFrames, IInv,
         f.op = "submit", f.user \in Users, f.entries = {},
         next \in SlotPcs => f.day \in Days,
         Shared(VersionsOf, Events, Frames, Pcs)', OthersKept(p), OwnRows(p),
         pc'[p] = next, frame'[p] = f,
         \A m \in Markets, u \in Users : owner'[EntryRow(m, u)] # p
  PROVE  IInv' /\ Final
<1>1. f # NoFrame
  BY FrameTypes
<1>2. (LocalOK(p) /\ EntriesOK(p) /\ LocksOK(p))'
  BY <1>1 DEF LocalOK, EntriesOK, LocksOK, Settling, SubmitPcs, SettlePcs
<1>3. QED
  BY <1>2, OthersKeep

\* The statements that only read, and the lock of the last ledger row.
LEMMA SubmitReads ==
  ASSUME NEW p \in Procs, IInv, ~GiveUp(p),
         \/ MarketRead(p) \/ EntrySelect(p) \/ FreeSelect(p) \/ LastPick(p) \/ LastLock(p)
         \/ MainSelect(p) /\ UNCHANGED rowVars
  PROVE  IInv' /\ Final
<1>1. pc[p] \in SubmitPcs
  BY DEF MarketRead, EntrySelect, FreeSelect, LastPick, LastLock, MainSelect, SubmitPcs
<1>2. /\ Shared(VersionsOf, Events, Frames, Pcs)
      /\ frame[p] \in CallFrames /\ frame[p].op = "submit"
      /\ frame[p].user \in Users /\ frame[p].entries = {} /\ frame[p].market \in Markets
      /\ \A m \in Markets, u \in Users : owner[EntryRow(m, u)] # p
  BY <1>1, SubmitFacts
<1>3. SubmitPcs \subseteq Pcs /\ SubmitPcs \cap {"append", "insert", "makeState"} = {}
  BY DEF SubmitPcs, Pcs
<1>4. PICK next \in SubmitPcs, f \in CallFrames :
        /\ pc' = [pc EXCEPT ![p] = next] /\ frame' = [frame EXCEPT ![p] = f]
        /\ f.op = "submit" /\ f.user \in Users /\ f.entries = {}
        /\ next \in SlotPcs => f.day \in Days
  <2>1. CASE EntrySelect(p)
    <3>1. PICK f : f = [frame[p] EXCEPT !.day = day]
      OBVIOUS
    <3>2. f \in CallFrames /\ f.op = "submit" /\ f.user \in Users /\ f.entries = {}
            /\ f.day \in Days
      BY <1>2, <3>1 DEF CallFrames, Frames, NoFrame, Shared, Days
    <3>3. frame' = [frame EXCEPT ![p] = f]
      BY <1>2, <2>1, <3>1 DEF EntrySelect, Shared
    <3>4. Kind[frame[p].market] \in Kinds
      BY <1>2, PredictionAssumption
    <3>5. \E next \in SubmitPcs : pc' = [pc EXCEPT ![p] = next]
      BY <2>1, <3>4 DEF EntrySelect, Goto, SubmitPcs, Kinds
    <3>6. QED
      BY <3>2, <3>3, <3>5
  <2>2. CASE LastPick(p)
    <3>1. PICK row \in Rows \cup {NoRow} : frame' = [frame EXCEPT ![p].row = row]
      BY <1>2, <2>2 DEF LastPick, PickLastRow, LastRows, Visible, Shared, RowsOf, Rows, Days
    <3>2. PICK f : f = [frame[p] EXCEPT !.row = row]
      OBVIOUS
    <3>3. f \in CallFrames /\ f.op = "submit" /\ f.user \in Users /\ f.entries = {}
      BY <1>2, <3>2 DEF CallFrames, Frames, NoFrame
    <3>4. frame' = [frame EXCEPT ![p] = f] /\ pc' = [pc EXCEPT ![p] = "lastLock"]
      BY <1>2, <2>2, <3>1, <3>2 DEF LastPick, PickLastRow, Goto, Shared
    <3>5. QED
      BY <3>3, <3>4 DEF SubmitPcs, SlotPcs
  <2>3. CASE ~EntrySelect(p) /\ ~LastPick(p)
    <3>1. frame' = frame
      BY <2>3 DEF MarketRead, FreeSelect, LastLock, MainSelect, Proceed
    <3>2. frame' = [frame EXCEPT ![p] = frame[p]]
      BY <1>2, <3>1 DEF Shared
    <3>3. frame[p] \in CallFrames
      BY <1>2
    <3>4. CASE MarketRead(p) \/ LastLock(p)
      <4>1. \E next \in SubmitPcs \ SlotPcs : pc' = [pc EXCEPT ![p] = next]
        BY <3>4 DEF MarketRead, LastLock, Proceed, Goto, SubmitPcs, SlotPcs
      <4>2. QED
        BY <1>2, <3>2, <4>1
    <3>5. CASE FreeSelect(p) \/ (MainSelect(p) /\ UNCHANGED rowVars)
      <4>1. pc[p] \in SlotPcs
        BY <3>5 DEF FreeSelect, MainSelect, SlotPcs
      <4>2. frame[p].day \in Days
        BY <4>1 DEF IInv, LocalOK
      <4>3. \E next \in SubmitPcs : pc' = [pc EXCEPT ![p] = next]
        BY <3>5 DEF FreeSelect, MainSelect, Proceed, Goto, SubmitPcs
      <4>4. QED
        BY <1>2, <3>2, <4>2, <4>3
    <3>6. QED
      BY <2>3, <3>4, <3>5
  <2>4. QED
    BY <2>1, <2>2, <2>3
<1>5. UNCHANGED rowVars
  BY DEF MarketRead, EntrySelect, FreeSelect, LastPick, LastLock, PickLastRow, Proceed
<1>6. UNCHANGED <<ledger, open, todo, clockVars, calls>>
  BY DEF MarketRead, EntrySelect, FreeSelect, LastPick, LastLock, MainSelect, PickLastRow,
         Proceed, WriteRow, ledgerVars
<1>7. held' \in [Procs -> SUBSET RowsOf(Events)]
  <2>1. CASE LastLock(p)
    <3>1. frame[p].row \in RowsOf(Events) \cup {NoRow}
      BY <1>2, FrameTypes DEF Rows, RowsOf, Days
    <3>2. PICK rows : rows = {frame[p].row} \ {NoRow}
      OBVIOUS
    <3>3. rows \in SUBSET RowsOf(Events)
      BY <3>1, <3>2
    <3>4. held' = [held EXCEPT ![p] = rows]
      BY <2>1, <3>2 DEF LastLock, HoldLastRow
    <3>5. QED
      BY <1>2, <3>3, <3>4 DEF Shared
  <2>2. CASE ~LastLock(p)
    BY <1>2, <2>2 DEF MarketRead, EntrySelect, FreeSelect, LastPick, MainSelect, PickLastRow,
                      Proceed, WriteRow, ledgerVars, Shared
  <2>3. QED
    BY <2>1, <2>2
<1>8. bal' \in [Procs -> Int]
  <2>1. CASE LastPick(p)
    BY <1>2, <2>1 DEF LastPick, PickLastRow, LastRows, Visible, Shared, RowsOf
  <2>2. CASE ~LastPick(p)
    BY <1>2, <2>2 DEF MarketRead, EntrySelect, FreeSelect, LastLock, MainSelect, Proceed, Shared
  <2>3. QED
    BY <2>1, <2>2
<1>9. RowsInv(VersionsOf)'
  BY <1>2, <1>5, ReadKeepsRows DEF Shared
<1>10. /\ Shared(VersionsOf, Events, Frames, Pcs)' /\ OthersKept(p)
       /\ pc'[p] = next /\ frame'[p] = f
  <2>1. todo' \in [Procs -> Seq(AppendsOf(Events))] /\ \A q \in Procs \ {p} : todo'[q] = todo[q]
    BY <1>2, <1>6 DEF Shared
  <2>2. next \in Pcs /\ f \in Frames /\ next \notin {"append", "insert", "makeState"}
    BY <1>3, <1>4, FrameTypes
  <2>3. QED
    BY <1>4, <1>6, <1>7, <1>8, <1>9, <2>1, <2>2, StepShared
<1>11. \A m \in Markets, u \in Users : owner'[EntryRow(m, u)] # p
  BY <1>2, <1>5 DEF rowVars
<1>12. QED
  BY <1>4, <1>5, <1>10, <1>11, ReadOwnRows, SubmitMoves

\* The slot of the day.
LEMMA SlotStep ==
  ASSUME NEW p \in Procs, IInv, ~GiveUp(p),
         FreeInsert(p) \/ MainInsert(p) \/ (MainSelect(p) /\ ~UNCHANGED rowVars)
  PROVE  IInv' /\ Final
<1>1. pc[p] \in SubmitPcs /\ pc[p] \in SlotPcs
  BY DEF FreeInsert, MainInsert, MainSelect, SubmitPcs, SlotPcs
<1>2. /\ Shared(VersionsOf, Events, Frames, Pcs)
      /\ frame[p] \in CallFrames /\ frame[p].op = "submit"
      /\ frame[p].user \in Users /\ frame[p].entries = {} /\ frame[p].market \in Markets
      /\ \A m \in Markets, u \in Users : owner[EntryRow(m, u)] # p
  BY <1>1, SubmitFacts
<1>3. frame[p].day \in Days
  BY <1>1 DEF IInv, LocalOK
<1>4. PICK k \in {FreeRow(frame[p].user, frame[p].day), MainRow(frame[p].user, frame[p].day)},
           v \in SlotVersions :
        WriteRow(p, k, v)
  <2>1. CASE FreeInsert(p)
    <3>1. [used |-> 1] \in SlotVersions
      BY DEF SlotVersions
    <3>2. QED
      BY <2>1, <3>1 DEF FreeInsert, InsertRow
  <2>2. CASE MainInsert(p)
    <3>1. [used |-> 1] \in SlotVersions
      BY DEF SlotVersions
    <3>2. QED
      BY <2>2, <3>1 DEF MainInsert, InsertRow
  <2>3. CASE MainSelect(p) /\ ~UNCHANGED rowVars
    <3> DEFINE k == MainRow(frame[p].user, frame[p].day)
    <3>1. db[k] # NoRow /\ WriteRow(p, k, [used |-> db[k].used + 1])
      BY <2>3 DEF MainSelect, Proceed
    <3>2. k \in DOMAIN VersionsOf /\ VersionsOf[k] = SlotVersions
      BY <1>2, <1>3, RowTypes
    <3>3. db[k] \in SlotVersions
      BY <1>2, <3>1, <3>2 DEF Shared, RowsInv
    <3>4. [used |-> db[k].used + 1] \in SlotVersions
      BY <3>3 DEF SlotVersions
    <3>5. QED
      BY <3>1, <3>4
  <2>4. QED
    BY <2>1, <2>2, <2>3
<1>5. k \in Keys /\ VersionsOf[k] = SlotVersions
        /\ \A m \in Markets, u \in Users : EntryRow(m, u) # k
  BY <1>2, <1>3, <1>4, RowTypes, KeysApart
<1>6. pc' = [pc EXCEPT ![p] = "lastPick"] /\ frame' = frame
        /\ UNCHANGED <<ledgerVars, todo, bal, clockVars, calls>>
  BY DEF FreeInsert, MainInsert, MainSelect, Goto, Proceed
<1>7. RowsInv(VersionsOf)'
  BY <1>2, <1>4, <1>5, RowTypes, WriteKeepsRows DEF Shared
<1>8. {"lastPick"} \subseteq Pcs \cap SubmitPcs /\ "lastPick" \notin SlotPcs
  BY DEF Pcs, SubmitPcs, SlotPcs
<1>9. /\ Shared(VersionsOf, Events, Frames, Pcs)' /\ OthersKept(p)
      /\ pc'[p] = "lastPick" /\ frame'[p] = frame[p]
  <2>1. frame' = [frame EXCEPT ![p] = frame[p]] /\ frame[p] \in Frames
    BY <1>2, <1>6 DEF Shared
  <2>2. /\ todo' \in [Procs -> Seq(AppendsOf(Events))]
        /\ \A q \in Procs \ {p} : todo'[q] = todo[q]
        /\ bal' \in [Procs -> Int] /\ held' \in [Procs -> SUBSET RowsOf(Events)]
        /\ UNCHANGED <<ledger, open, clockVars, calls>>
    BY <1>2, <1>6 DEF Shared, ledgerVars
  <2>3. QED
    BY <1>6, <1>7, <1>8, <2>1, <2>2, StepShared
<1>10. \A m \in Markets, u \in Users : owner'[EntryRow(m, u)] # p
  BY <1>2, <1>4, <1>5 DEF WriteRow, Shared, RowsInv
<1>11. OwnRows(p)
  BY <1>4, <1>5, WriteOwnRows
<1>12. QED
  BY <1>2, <1>8, <1>9, <1>10, <1>11, SubmitMoves

\* The entry: from here on the submission has it locked.
LEMMA EntryStep ==
  ASSUME NEW p \in Procs, IInv, ~GiveUp(p), EntryInsert(p)
  PROVE  IInv' /\ Final
<1> DEFINE k == EntryRow(frame[p].market, frame[p].user)
<1>1. pc[p] \in SubmitPcs
  BY DEF EntryInsert, SubmitPcs
<1>2. /\ Shared(VersionsOf, Events, Frames, Pcs)
      /\ frame[p] \in CallFrames /\ frame[p].op = "submit"
      /\ frame[p].user \in Users /\ frame[p].entries = {} /\ frame[p].market \in Markets
      /\ \A m \in Markets, u \in Users : owner[EntryRow(m, u)] # p
  BY <1>1, SubmitFacts
<1>3. frame[p].option \in Options /\ frame[p].stake \in Nat /\ frame[p] # NoFrame
  BY <1>2, FrameTypes
<1>4. PICK v : v = [status |-> "OPEN", option |-> frame[p].option, stake |-> frame[p].stake,
                    day |-> day]
  OBVIOUS
<1>5. v \in EntryVersions /\ k \in Keys /\ VersionsOf[k] = EntryVersions
  BY <1>2, <1>3, <1>4, RowTypes DEF EntryVersions, Shared, Days
<1>6. WriteRow(p, k, v) /\ db[k] = NoRow
  BY <1>4 DEF EntryInsert, InsertRow
<1>7. RowsInv(VersionsOf)'
  BY <1>2, <1>5, <1>6, RowTypes, WriteKeepsRows DEF Shared
<1>8. PICK list : list = <<Append1(frame[p].user, "PREDICTION_STAKE", -frame[p].stake, FALSE)>>
  OBVIOUS
<1>9. list \in Seq(AppendsOf(Events)) /\ list # <<>>
  BY <1>2, <1>3, <1>8 DEF Append1, AppendsOf, Events
<1>10. PICK next \in {"commit", "append"} :
         /\ pc' = [pc EXCEPT ![p] = next]
         /\ \/ next = "commit" /\ todo' = todo
            \/ next = "append" /\ todo' = [todo EXCEPT ![p] = list]
  BY <1>8 DEF EntryInsert, Goto
<1>11. UNCHANGED <<ledgerVars, frame, bal, clockVars, calls>>
  BY DEF EntryInsert
<1>12. next \in Pcs
  BY DEF Pcs
<1>13. /\ Shared(VersionsOf, Events, Frames, Pcs)' /\ OthersKept(p)
       /\ pc'[p] = next /\ frame'[p] = frame[p]
  <2>1. frame' = [frame EXCEPT ![p] = frame[p]] /\ frame[p] \in Frames
    BY <1>2, <1>11 DEF Shared
  <2>2. /\ todo' \in [Procs -> Seq(AppendsOf(Events))]
        /\ next \in {"append", "insert", "makeState"} => todo'[p] # <<>>
        /\ \A q \in Procs \ {p} : todo'[q] = todo[q]
    BY <1>2, <1>9, <1>10 DEF Shared
  <2>3. /\ bal' \in [Procs -> Int] /\ held' \in [Procs -> SUBSET RowsOf(Events)]
        /\ UNCHANGED <<ledger, open, clockVars, calls>>
    BY <1>2, <1>11 DEF Shared, ledgerVars
  <2>4. QED
    BY <1>7, <1>10, <1>12, <2>1, <2>2, <2>3, StepShared
<1>14. LocksOK(p)'
  <2> SUFFICES ASSUME NEW m \in Markets, NEW u \in Users, owner'[EntryRow(m, u)] = p
               PROVE  m = frame[p].market /\ db'[EntryRow(m, u)] = NoRow
    BY <1>2, <1>13 DEF LocksOK, LatePcs
  <2>1. EntryRow(m, u) = k
    BY <1>2, <1>5, <1>6, RowTypes DEF WriteRow, Shared, RowsInv
  <2>2. QED
    BY <1>2, <1>6, <2>1, KeysApart DEF WriteRow
<1>15. LocalOK(p)' /\ EntriesOK(p)'
  BY <1>2, <1>3, <1>13 DEF LocalOK, EntriesOK, Settling, SubmitPcs, SettlePcs, SlotPcs
<1>16. QED
  BY <1>5, <1>6, <1>13, <1>14, <1>15, WriteOwnRows, OthersKeep

-----------------------------------------------------------------------------
\* resolveAndSettleManualPredictionMarket

\* What a settlement knows.
LEMMA SettleFacts ==
  ASSUME NEW p \in Procs, IInv, pc[p] \in SettlePcs
  PROVE  /\ Shared(VersionsOf, Events, Frames, Pcs)
         /\ LocalOK(p) /\ EntriesOK(p) /\ LocksOK(p)
         /\ frame[p] \in CallFrames /\ frame[p].op = "settle"
         /\ frame[p].market \in Markets /\ frame[p].option \in Options
         /\ frame[p].entries \subseteq Users
         /\ pc[p] # "settleNext" =>
              \A m \in Markets, u \in Users : owner[EntryRow(m, u)] # p
         /\ pc[p] \in {"settleRead", "settleMarket"} => frame[p].entries = {}
<1>1. Shared(VersionsOf, Events, Frames, Pcs) /\ LocalOK(p) /\ EntriesOK(p) /\ LocksOK(p)
  BY DEF IInv
<1>2. frame[p] \in CallFrames /\ frame[p].op = "settle"
  BY <1>1 DEF Shared, LocalOK, SettlePcs, CallFrames
<1>3. pc[p] # "settleNext" => \A m \in Markets, u \in Users : owner[EntryRow(m, u)] # p
  BY <1>1 DEF LocksOK, SettlePcs, LatePcs
<1>4. pc[p] \in {"settleRead", "settleMarket"} => frame[p].entries = {}
  BY <1>1, <1>2 DEF EntriesOK, Settling, LatePcs
<1>5. QED
  BY <1>1, <1>2, <1>3, <1>4, FrameTypes

\* The status is read before BEGIN, and nothing depends on it later.
LEMMA SettleReadStep ==
  ASSUME NEW p \in Procs, IInv, ~GiveUp(p), SettleRead(p)
  PROVE  IInv' /\ Final
<1>1. pc[p] = "settleRead" /\ pc[p] \in SettlePcs
  BY DEF SettleRead, SettlePcs
<1>2. /\ Shared(VersionsOf, Events, Frames, Pcs) /\ frame[p] \in CallFrames
      /\ frame[p].op = "settle" /\ frame[p].entries = {}
      /\ \A m \in Markets, u \in Users : owner[EntryRow(m, u)] # p
  BY <1>1, SettleFacts
<1>3. /\ pc' = [pc EXCEPT ![p] = "settleMarket"]
      /\ UNCHANGED <<rowVars, ledgerVars, frame, todo, bal, clockVars, calls>>
  BY DEF SettleRead, Proceed, Goto
<1>4. RowsInv(VersionsOf)' /\ "settleMarket" \in Pcs
  BY <1>2, <1>3, ReadKeepsRows DEF Shared, Pcs
<1>5. /\ Shared(VersionsOf, Events, Frames, Pcs)' /\ OthersKept(p)
      /\ pc'[p] = "settleMarket" /\ frame'[p] = frame[p]
  BY <1>2, <1>3, <1>4 DEF Shared, OthersKept, ledgerVars, clockVars
<1>6. LocalOK(p)' /\ EntriesOK(p)' /\ LocksOK(p)'
  BY <1>2, <1>3, <1>5, FrameTypes
  DEF LocalOK, EntriesOK, LocksOK, Settling, SubmitPcs, SettlePcs, SlotPcs, LatePcs, rowVars
<1>7. QED
  BY <1>3, <1>5, <1>6, ReadOwnRows, OthersKeep

\* The UPDATE of the market's row takes the lock that orders settlements.
LEMMA SettleMarketStep ==
  ASSUME NEW p \in Procs, IInv, SettleMarket(p)
  PROVE  IInv' /\ Final
<1> DEFINE k == MarketRow(frame[p].market)
<1>1. pc[p] = "settleMarket" /\ pc[p] \in SettlePcs
  BY DEF SettleMarket, SettlePcs
<1>2. /\ Shared(VersionsOf, Events, Frames, Pcs) /\ frame[p] \in CallFrames
      /\ frame[p].op = "settle" /\ frame[p].entries = {}
      /\ frame[p].market \in Markets /\ frame[p].option \in Options
      /\ \A m \in Markets, u \in Users : owner[EntryRow(m, u)] # p
  BY <1>1, SettleFacts
<1>3. PICK v : v = [status |-> "RESOLVED", correct |-> frame[p].option]
  OBVIOUS
<1>4. v \in MarketVersions /\ k \in Keys /\ VersionsOf[k] = MarketVersions
  BY <1>2, <1>3, RowTypes DEF MarketVersions
<1>5. /\ WriteRow(p, k, v) /\ pc' = [pc EXCEPT ![p] = "settleEntries"]
      /\ UNCHANGED <<ledgerVars, frame, todo, bal, clockVars, calls>>
  BY <1>3 DEF SettleMarket, Goto
<1>6. RowsInv(VersionsOf)' /\ "settleEntries" \in Pcs
  BY <1>2, <1>4, <1>5, RowTypes, WriteKeepsRows DEF Shared, Pcs
<1>7. /\ Shared(VersionsOf, Events, Frames, Pcs)' /\ OthersKept(p)
      /\ pc'[p] = "settleEntries" /\ frame'[p] = frame[p]
  BY <1>2, <1>5, <1>6 DEF Shared, OthersKept, ledgerVars, clockVars
<1>8. owner' = [owner EXCEPT ![k] = p] /\ owner \in [Keys -> Procs \cup {NoProc}]
  BY <1>2, <1>5, RowTypes DEF WriteRow, Shared, RowsInv
<1>9. owner'[k] = p /\ \A m \in Markets, u \in Users : owner'[EntryRow(m, u)] # p
  BY <1>2, <1>4, <1>8, KeysApart
<1>10. LocalOK(p)' /\ EntriesOK(p)' /\ LocksOK(p)'
  BY <1>2, <1>7, <1>9, FrameTypes
  DEF LocalOK, EntriesOK, LocksOK, Settling, SubmitPcs, SettlePcs, SlotPcs
<1>11. QED
  BY <1>4, <1>5, <1>7, <1>10, WriteOwnRows, OthersKeep

\* The entries to settle are the ones found open under that lock.
LEMMA SettleEntriesStep ==
  ASSUME NEW p \in Procs, IInv, SettleEntries(p)
  PROVE  IInv' /\ Final
<1>1. pc[p] = "settleEntries" /\ pc[p] \in SettlePcs
  BY DEF SettleEntries, SettlePcs
<1>2. /\ Shared(VersionsOf, Events, Frames, Pcs) /\ frame[p] \in CallFrames
      /\ frame[p].op = "settle" /\ frame[p].market \in Markets /\ EntriesOK(p)
      /\ \A m \in Markets, u \in Users : owner[EntryRow(m, u)] # p
  BY <1>1, SettleFacts
<1>3. PICK us : us = OpenEntries(p, frame[p].market)
  OBVIOUS
<1>4. us \subseteq Users /\ \A u \in us : db[EntryRow(frame[p].market, u)] \in OpenVersions
  <2> SUFFICES ASSUME NEW u \in us
               PROVE  u \in Users /\ db[EntryRow(frame[p].market, u)] \in OpenVersions
    OBVIOUS
  <2> DEFINE e == db[EntryRow(frame[p].market, u)]
  <2>1. u \in Users /\ e # NoRow /\ e.status = "OPEN"
    BY <1>2, <1>3 DEF OpenEntries, Sees
  <2>2. e \in EntryVersions \cup {NoRow}
    BY <1>2, <2>1, RowTypes DEF Shared, RowsInv
  <2>3. QED
    BY <2>1, <2>2 DEF OpenVersions
<1>5. PICK f : f = [frame[p] EXCEPT !.entries = us]
  OBVIOUS
<1>6. /\ f \in CallFrames /\ f.op = "settle" /\ f.market = frame[p].market
      /\ f.entries = us /\ f # NoFrame /\ f \in Frames
  BY <1>2, <1>4, <1>5 DEF CallFrames, Frames, NoFrame
<1>7. /\ pc' = [pc EXCEPT ![p] = "settleNext"] /\ frame' = [frame EXCEPT ![p] = f]
      /\ UNCHANGED <<rowVars, ledgerVars, todo, bal, clockVars, calls>>
  BY <1>2, <1>3, <1>5 DEF SettleEntries, Goto, Shared
<1>8. RowsInv(VersionsOf)' /\ "settleNext" \in Pcs
  BY <1>2, <1>7, ReadKeepsRows DEF Shared, Pcs
<1>9. /\ Shared(VersionsOf, Events, Frames, Pcs)' /\ OthersKept(p)
      /\ pc'[p] = "settleNext" /\ frame'[p] = f
  BY <1>2, <1>6, <1>7, <1>8 DEF Shared, OthersKept, ledgerVars, clockVars
<1>10. owner[MarketRow(frame[p].market)] = p
  BY <1>1, <1>2 DEF EntriesOK, Settling
<1>11. LocalOK(p)' /\ LocksOK(p)'
  BY <1>2, <1>6, <1>7, <1>9 DEF LocalOK, LocksOK, SubmitPcs, SettlePcs, SlotPcs, rowVars
<1>12. EntriesOK(p)'
  BY <1>4, <1>6, <1>7, <1>9, <1>10 DEF EntriesOK, Settling, LatePcs, rowVars
<1>13. QED
  BY <1>7, <1>9, <1>11, <1>12, ReadOwnRows, OthersKeep

\* What is booked for an entry that won.
LEMMA PayoutTypes ==
  ASSUME NEW m \in Markets, NEW u \in Users, NEW stake \in Nat
  PROVE  /\ Append1(u, WinEvent(m), Payout(m, stake), FALSE) \in AppendsOf(Events)
         /\ <<Append1(u, WinEvent(m), Payout(m, stake), FALSE)>> # <<>>
<1>1. Kind[m] \in {"STANDARD", "MAIN", "FREE_DAILY"}
  BY PredictionAssumption DEF Kinds
<1>2. WinEvent(m) \in Events
  BY <1>1 DEF WinEvent, Events
<1>3. Payout(m, stake) \in Int
  BY <1>1, PredictionAssumption DEF Payout
<1>4. QED
  BY <1>2, <1>3 DEF Append1, AppendsOf

\* One entry gets its result: it was open, and stays so in the committed state
\* until the settlement commits.
LEMMA SettleNextStep ==
  ASSUME NEW p \in Procs, IInv, SettleNext(p)
  PROVE  IInv' /\ Final
<1>1. pc[p] = "settleNext" /\ pc[p] \in SettlePcs
  BY DEF SettleNext, SettlePcs
<1>2. /\ Shared(VersionsOf, Events, Frames, Pcs) /\ frame[p] \in CallFrames
      /\ frame[p].op = "settle" /\ frame[p].market \in Markets
      /\ frame[p].entries \subseteq Users /\ EntriesOK(p) /\ LocksOK(p)
  BY <1>1, SettleFacts
<1> DEFINE m == frame[p].market
<1>3. PICK u \in frame[p].entries :
        LET k == EntryRow(m, u)
            e == Sees(p, k)
            won == Won(e, frame[p].option)
        IN
        /\ WriteRow(p, k, [e EXCEPT !.status = IF won THEN "WON" ELSE "LOST"])
        /\ frame' = [frame EXCEPT ![p].entries = @ \ {u}]
        /\ IF won /\ IsPaid(m, e.stake)
             THEN /\ todo' = [todo EXCEPT ![p] =
                       <<Append1(u, WinEvent(m), Payout(m, e.stake), FALSE)>>]
                  /\ Goto(p, "append")
             ELSE UNCHANGED <<todo, pc>>
  BY DEF SettleNext
<1> DEFINE k == EntryRow(m, u)
<1>4. UNCHANGED <<ledgerVars, bal, clockVars, calls>>
  BY DEF SettleNext
<1>5. /\ u \in Users /\ k \in Keys /\ VersionsOf[k] = EntryVersions
      /\ db[k] \in OpenVersions /\ owner[MarketRow(m)] = p
  BY <1>1, <1>2, RowTypes DEF EntriesOK, Settling, LatePcs
<1>6. PICK e : e = Sees(p, k)
  OBVIOUS
<1>7. e \in EntryVersions
  BY <1>2, <1>5, <1>6, RowTypes DEF Shared, RowsInv, Sees, OpenVersions
<1>8. PICK v \in EntryVersions : WriteRow(p, k, v)
  <2>1. PICK v : v = [e EXCEPT !.status = IF Won(e, frame[p].option) THEN "WON" ELSE "LOST"]
    OBVIOUS
  <2>2. v \in EntryVersions
    BY <1>7, <2>1 DEF EntryVersions
  <2>3. QED
    BY <1>3, <1>6, <2>1, <2>2
<1>9. RowsInv(VersionsOf)'
  BY <1>2, <1>5, <1>8, RowTypes, WriteKeepsRows DEF Shared
<1>10. PICK f : f = [frame[p] EXCEPT !.entries = @ \ {u}]
  OBVIOUS
<1>11. /\ f \in CallFrames /\ f.op = "settle" /\ f.market = m /\ f \in Frames
       /\ f.entries = frame[p].entries \ {u} /\ f # NoFrame
  BY <1>2, <1>10 DEF CallFrames, Frames, NoFrame
<1>12. frame' = [frame EXCEPT ![p] = f]
  BY <1>2, <1>3, <1>10 DEF Shared
<1>13. PICK list \in Seq(AppendsOf(Events)) \ {<<>>}, next \in {"settleNext", "append"} :
         /\ pc' = [pc EXCEPT ![p] = next]
         /\ \/ next = "settleNext" /\ todo' = todo
            \/ next = "append" /\ todo' = [todo EXCEPT ![p] = list]
  <2>1. PICK a : a = Append1(u, WinEvent(m), Payout(m, e.stake), FALSE)
    OBVIOUS
  <2>2. a \in AppendsOf(Events)
    BY <1>2, <1>5, <1>7, <2>1, PayoutTypes DEF EntryVersions
  <2>3. <<a>> \in Seq(AppendsOf(Events)) \ {<<>>}
    BY <2>2
  <2>4. \/ pc' = pc /\ todo' = todo
        \/ pc' = [pc EXCEPT ![p] = "append"] /\ todo' = [todo EXCEPT ![p] = <<a>>]
    BY <1>3, <1>6, <2>1 DEF Goto
  <2>5. pc = [pc EXCEPT ![p] = "settleNext"]
    BY <1>1, <1>2 DEF Shared
  <2>6. QED
    BY <2>3, <2>4, <2>5
<1>14. next \in Pcs
  BY DEF Pcs
<1>15. /\ Shared(VersionsOf, Events, Frames, Pcs)' /\ OthersKept(p)
       /\ pc'[p] = next /\ frame'[p] = f
  <2>1. /\ todo' \in [Procs -> Seq(AppendsOf(Events))]
        /\ next \in {"append", "insert", "makeState"} => todo'[p] # <<>>
        /\ \A q \in Procs \ {p} : todo'[q] = todo[q]
    BY <1>2, <1>13 DEF Shared
  <2>2. /\ bal' \in [Procs -> Int] /\ held' \in [Procs -> SUBSET RowsOf(Events)]
        /\ UNCHANGED <<ledger, open, clockVars, calls>>
    BY <1>2, <1>4 DEF Shared, ledgerVars
  <2>3. QED
    BY <1>9, <1>11, <1>12, <1>13, <1>14, <2>1, <2>2, StepShared
<1>16. /\ db' = db /\ owner' = [owner EXCEPT ![k] = p]
       /\ owner \in [Keys -> Procs \cup {NoProc}]
  BY <1>2, <1>8, RowTypes DEF WriteRow, Shared, RowsInv
<1>17. LocksOK(p)'
  <2> SUFFICES ASSUME NEW n \in Markets, NEW w \in Users, owner'[EntryRow(n, w)] = p
               PROVE  n = m /\ db'[EntryRow(n, w)] \in OpenVersions
    BY <1>11, <1>15 DEF LocksOK, LatePcs
  <2>1. CASE EntryRow(n, w) = k
    BY <1>2, <1>5, <1>16, <2>1, KeysApart
  <2>2. CASE EntryRow(n, w) # k
    <3>1. owner[EntryRow(n, w)] = p
      BY <1>16, <2>2, RowTypes
    <3>2. QED
      BY <1>2, <1>16, <3>1 DEF LocksOK
  <2>3. QED
    BY <2>1, <2>2
<1>18. EntriesOK(p)'
  <2>1. owner'[MarketRow(m)] = p
    BY <1>2, <1>5, <1>16, RowTypes
  <2>2. \A w \in f.entries : db'[EntryRow(m, w)] \in OpenVersions
    BY <1>2, <1>11, <1>16 DEF EntriesOK
  <2>3. QED
    BY <1>11, <1>15, <2>1, <2>2 DEF EntriesOK, Settling, LatePcs
<1>19. LocalOK(p)'
  BY <1>11, <1>15 DEF LocalOK, SubmitPcs, SettlePcs, SlotPcs
<1>20. QED
  BY <1>5, <1>8, <1>15, <1>17, <1>18, <1>19, WriteOwnRows, OthersKeep

\* No entry is left: COMMIT is next.
LEMMA SettleDoneStep ==
  ASSUME NEW p \in Procs, IInv, SettleDone(p)
  PROVE  IInv' /\ Final
<1>1. pc[p] = "settleNext" /\ pc[p] \in SettlePcs /\ frame[p].entries = {}
  BY DEF SettleDone, SettlePcs
<1>2. /\ Shared(VersionsOf, Events, Frames, Pcs) /\ frame[p] \in CallFrames
      /\ frame[p].op = "settle" /\ LocalOK(p) /\ EntriesOK(p) /\ LocksOK(p)
  BY <1>1, SettleFacts
<1>3. /\ pc' = [pc EXCEPT ![p] = "commit"]
      /\ UNCHANGED <<rowVars, ledgerVars, frame, todo, bal, clockVars, calls>>
  BY DEF SettleDone, Proceed, Goto
<1>4. RowsInv(VersionsOf)' /\ "commit" \in Pcs
  BY <1>2, <1>3, ReadKeepsRows DEF Shared, Pcs
<1>5. /\ Shared(VersionsOf, Events, Frames, Pcs)' /\ OthersKept(p)
      /\ pc'[p] = "commit" /\ frame'[p] = frame[p]
  BY <1>2, <1>3, <1>4 DEF Shared, OthersKept, ledgerVars, clockVars
<1>6. LocalOK(p)' /\ EntriesOK(p)' /\ LocksOK(p)'
  BY <1>1, <1>2, <1>3, <1>5, FrameTypes
  DEF LocalOK, EntriesOK, LocksOK, Settling, SubmitPcs, SettlePcs, SlotPcs, LatePcs, rowVars
<1>7. QED
  BY <1>3, <1>5, <1>6, ReadOwnRows, OthersKeep

-----------------------------------------------------------------------------
\* appendPointsLedger: no lock is taken or let go.
LEMMA AppendStep ==
  ASSUME NEW p \in Procs, IInv,
         AppendRead(p) \/ AppendInsert(p, IF frame[p].op = "settle" THEN "settleNext" ELSE "commit")
  PROVE  IInv' /\ Final
<1>1. PICK done \in {"settleNext", "commit"} :
        /\ done = "settleNext" <=> frame[p].op = "settle"
        /\ AppendRead(p) \/ AppendInsert(p, done)
  <2>1. CASE frame[p].op = "settle"
    BY <2>1
  <2>2. CASE frame[p].op # "settle"
    BY <2>2
  <2>3. QED
    BY <2>1, <2>2
<1>2. /\ Shared(VersionsOf, Events, Frames, Pcs) /\ LocalOK(p) /\ EntriesOK(p) /\ LocksOK(p)
      /\ pc[p] \in {"append", "insert"}
  BY <1>1 DEF IInv, AppendRead, AppendInsert
<1>3. {"append", "insert", "settleNext", "commit"} \subseteq Pcs
        /\ done \notin {"append", "insert", "makeState"}
  BY DEF Pcs
<1>4. /\ Shared(VersionsOf, Events, Frames, Pcs)' /\ OthersKept(p)
      /\ pc'[p] \in {"append", "insert", done} /\ frame'[p] = frame[p]
  <2>1. CASE AppendRead(p)
    BY <1>2, <1>3, <2>1, AppendReadKeeps
  <2>2. CASE AppendInsert(p, done)
    <3>1. done \in Pcs /\ "append" \in Pcs
      BY <1>3
    <3>2. Shared(VersionsOf, Events, Frames, Pcs)' /\ OthersKept(p)
            /\ pc'[p] \in {done, "append"} /\ frame'[p] = frame[p]
      BY <1>2, <1>3, <2>2, <3>1, AppendInsertKeeps
    <3>3. QED
      BY <3>2
  <2>3. QED
    BY <1>1, <2>1, <2>2
<1>5. UNCHANGED rowVars
  BY <1>1 DEF AppendRead, AppendInsert
<1>6. frame[p] # NoFrame
  BY <1>2 DEF LocalOK
<1>7. LocalOK(p)'
  BY <1>1, <1>2, <1>4, <1>6 DEF LocalOK, SubmitPcs, SettlePcs, SlotPcs
<1>8. EntriesOK(p)'
  BY <1>1, <1>2, <1>4, <1>5 DEF EntriesOK, Settling, LatePcs, rowVars
<1>9. LocksOK(p)'
  BY <1>1, <1>2, <1>4, <1>5 DEF LocksOK, LatePcs, rowVars
<1>10. QED
  BY <1>4, <1>5, <1>7, <1>8, <1>9, ReadOwnRows, OthersKeep

\* A step in which no handler takes part.
LEMMA IdleStep ==
  ASSUME IInv, NextDay \/ UNCHANGED vars
  PROVE  IInv' /\ Final
<1>1. Shared(VersionsOf, Events, Frames, Pcs)'
  BY NextDayKeeps, StutterKeeps DEF IInv
<1>2. UNCHANGED <<rowVars, pc, frame>>
  BY DEF NextDay, vars
<1>3. ASSUME NEW p \in Procs PROVE (LocalOK(p) /\ EntriesOK(p) /\ LocksOK(p))'
  BY <1>2 DEF IInv, LocalOK, EntriesOK, LocksOK, Settling, rowVars
<1>4. Final
  BY <1>2 DEF Final, rowVars
<1>5. QED
  BY <1>1, <1>3, <1>4 DEF IInv

\* No step of the system breaks the invariant, or a result.
LEMMA StepKeeps == IInv /\ [Next]_vars => IInv' /\ Final
<1> SUFFICES ASSUME IInv, [Next]_vars PROVE IInv' /\ Final
  OBVIOUS
<1>1. ASSUME NEW p \in Procs, Start(p) PROVE IInv' /\ Final
  BY <1>1, StartStep
<1>2. ASSUME NEW p \in Procs, Step(p) PROVE IInv' /\ Final
  <2>1. CASE GiveUp(p)
    BY <2>1, GiveUpStep
  <2>2. CASE /\ ~GiveUp(p)
             /\ \/ MarketRead(p) \/ EntrySelect(p) \/ FreeSelect(p) \/ FreeInsert(p)
                \/ MainSelect(p) \/ MainInsert(p) \/ LastPick(p) \/ LastLock(p) \/ EntryInsert(p)
    BY <2>2, SubmitReads, SlotStep, EntryStep
  <2>3. CASE /\ ~GiveUp(p)
             /\ \/ SettleRead(p) \/ SettleMarket(p) \/ SettleEntries(p) \/ SettleNext(p)
                \/ SettleDone(p)
    BY <2>3, SettleReadStep, SettleMarketStep, SettleEntriesStep, SettleNextStep, SettleDoneStep
  <2>4. CASE \/ AppendRead(p) \/ Commit(p)
             \/ AppendInsert(p, IF frame[p].op = "settle" THEN "settleNext" ELSE "commit")
    BY <2>4, AppendStep, CommitStep
  <2>5. QED
    BY <1>2, <2>1, <2>2, <2>3, <2>4 DEF Step
<1>3. ASSUME NEW p \in Procs, Crash(p) PROVE IInv' /\ Final
  BY <1>3, GiveUpStep DEF Crash
<1>4. CASE NextDay \/ UNCHANGED vars
  BY <1>4, IdleStep
<1>5. QED
  BY <1>1, <1>2, <1>3, <1>4 DEF Next, Quiet

\* What the database holds before the first call.
LEMMA InitHolds == Init => IInv
<1> SUFFICES ASSUME Init PROVE IInv
  OBVIOUS
<1>1. PICK status \in [Markets -> StartStatuses] :
        LedgerInit(
          [k \in Keys |->
             IF k \in MarketKeys THEN [status |-> status[k[2]], correct |-> NoRow]
             ELSE IF k \in StateKeys THEN FreshState ELSE NoRow],
          {StartRow(u) : u \in Users})
  BY DEF Init
<1>2. DOMAIN db = Keys /\ new = db /\ owner = [k \in Keys |-> NoProc]
  BY <1>1 DEF LedgerInit, RowsInit
<1>3. \A k \in Keys : db[k] \in VersionsOf[k] \cup {NoRow}
  <2> SUFFICES ASSUME NEW k \in Keys PROVE db[k] \in VersionsOf[k] \cup {NoRow}
    OBVIOUS
  <2>1. db[k] = IF k \in MarketKeys THEN [status |-> status[k[2]], correct |-> NoRow]
                ELSE IF k \in StateKeys THEN FreshState ELSE NoRow
    BY <1>1 DEF LedgerInit, RowsInit
  <2>2. CASE k \in MarketKeys
    <3>1. k[2] \in Markets /\ VersionsOf[k] = MarketVersions
      BY <2>2 DEF MarketKeys, MarketRow, VersionsOf
    <3>2. status[k[2]] \in {"OPEN", "LOCKED", "CANCELLED", "RESOLVED"}
      BY <3>1, PredictionAssumption
    <3>3. QED
      BY <2>1, <2>2, <3>1, <3>2 DEF MarketVersions
  <2>3. CASE k \notin MarketKeys /\ k \in StateKeys
    <3>1. VersionsOf[k] = {FreshState}
      BY <2>3 DEF StateKeys, StateRow, VersionsOf
    <3>2. QED
      BY <2>1, <2>3, <3>1
  <2>4. QED
    BY <2>1, <2>2, <2>3
<1>4. RowsInv(VersionsOf)
  BY <1>1, <1>2, <1>3, RowTypes DEF RowsInv, LedgerInit, RowsInit
<1>5. ledger \subseteq RowsOf(Events)
  <2>1. 1 \in 1..MaxDay
    BY LedgerAssumption
  <2>2. \A u \in Users : StartRow(u) \in RowsOf(Events)
    BY <2>1, PredictionAssumption DEF StartRow, RowsOf, Events
  <2>3. QED
    BY <1>1, <2>2 DEF LedgerInit
<1>6. /\ pc = [p \in Procs |-> "idle"] /\ frame = [p \in Procs |-> NoFrame]
      /\ open = [p \in Procs |-> {}] /\ held = [p \in Procs |-> {}]
      /\ todo = [p \in Procs |-> <<>>] /\ bal = [p \in Procs |-> 0]
      /\ inserted = 0 /\ ms = 0 /\ day = 1 /\ calls = 0
  BY <1>1 DEF LedgerInit
<1>7. Shared(VersionsOf, Events, Frames, Pcs)
  <2>1. "idle" \in Pcs /\ 1 \in 1..MaxDay
    BY LedgerAssumption DEF Pcs
  <2>2. QED
    BY <1>4, <1>5, <1>6, <2>1, FrameTypes DEF Shared
<1>8. ASSUME NEW p \in Procs PROVE LocalOK(p) /\ EntriesOK(p) /\ LocksOK(p)
  <2>1. \A m \in Markets, u \in Users : owner[EntryRow(m, u)] # p
    BY <1>2, LedgerAssumption, RowTypes
  <2>2. QED
    BY <1>6, <2>1, FrameTypes
    DEF LocalOK, EntriesOK, LocksOK, Settling, SubmitPcs, SettlePcs, SlotPcs
<1>9. QED
  BY <1>7, <1>8 DEF IInv

-----------------------------------------------------------------------------
\* Every variable has the type of the column or local it stands for, whichever
\* submissions and settlements race and whichever instances die.
THEOREM TypesHold == Spec => []TypeOK
<1>1. IInv => TypeOK
  BY IInvImplies
<1>2. QED
  BY <1>1, InitHolds, StepKeeps, PTL DEF Spec

\* An entry that was settled keeps its result, for any number of administrators
\* who settle its market at the same time and of submissions beside them.
THEOREM ResultsStayFinal == Spec => ResultsAreFinal
<1>1. IInv /\ [Next]_vars => [Final]_vars
  BY StepKeeps
<1>2. Final = \A m \in Markets, u \in Users :
                HasEntry(m, u) /\ db[EntryRow(m, u)].status # "OPEN"
                  => db'[EntryRow(m, u)] = db[EntryRow(m, u)]
  BY DEF Final
<1>3. QED
  BY <1>1, <1>2, InitHolds, StepKeeps, PTL DEF Spec, ResultsAreFinal, Final

-----------------------------------------------------------------------------
(***************************************************************************)
(* The daily slots.  A submission has its slot's row locked from the       *)
(* statement that reserves it to its COMMIT, which publishes the slot and  *)
(* the entry together: so the counters move with the entries, and the      *)
(* counter a submission has raised is the committed one plus one.          *)
(***************************************************************************)
UsedIn(row) == IF row = NoRow THEN 0 ELSE row.used

\* p has passed the slot of its submission, and has inserted its entry.
HasSlot(p) ==
  frame[p].op = "submit"
    /\ pc[p] \in {"lastPick", "lastLock", "entryInsert", "append", "insert", "commit"}
EntryMade(p) == frame[p].op = "submit" /\ pc[p] \in {"append", "insert", "commit"}

\* The kind and the day a submission goes on with.
ForSlot(p, kind) == HasSlot(p) /\ Kind[frame[p].market] = kind

PcOK(p) ==
  /\ pc[p] \in {"freeSelect", "freeInsert"} => Kind[frame[p].market] = "FREE_DAILY"
  /\ pc[p] \in {"mainSelect", "mainInsert"} => Kind[frame[p].market] = "MAIN"
  /\ frame[p].op = "submit" /\ pc[p] \notin {"marketRead", "entrySelect"} => frame[p].day = day

MainOK(p) ==
  /\ ForSlot(p, "MAIN") => owner[MainRow(frame[p].user, frame[p].day)] = p
  /\ \A u \in Users, d \in Days : owner[MainRow(u, d)] = p =>
       /\ ForSlot(p, "MAIN") /\ frame[p].user = u /\ frame[p].day = d
       /\ new[MainRow(u, d)] = [used |-> UsedIn(db[MainRow(u, d)]) + 1]
       /\ UsedIn(db[MainRow(u, d)]) < MainMaxPerDay

FreeOK(p) ==
  /\ ForSlot(p, "FREE_DAILY") => owner[FreeRow(frame[p].user, frame[p].day)] = p
  /\ \A u \in Users, d \in Days : owner[FreeRow(u, d)] = p =>
       /\ ForSlot(p, "FREE_DAILY") /\ frame[p].user = u /\ frame[p].day = d
       /\ db[FreeRow(u, d)] = NoRow /\ new[FreeRow(u, d)] # NoRow

\* The entry a submission inserts is of the day of its slot; a settlement
\* leaves the day of the entries it has written alone.
MadeOK(p) ==
  /\ EntryMade(p) => owner[EntryRow(frame[p].market, frame[p].user)] = p
  /\ \A m \in Markets, u \in Users : owner[EntryRow(m, u)] = p =>
       /\ new[EntryRow(m, u)] \in EntryVersions
       /\ frame[p].op = "submit" =>
            u = frame[p].user /\ new[EntryRow(m, u)].day = frame[p].day
       /\ frame[p].op = "settle" => new[EntryRow(m, u)].day = db[EntryRow(m, u)].day

SlotOK(p) == PcOK(p) /\ MainOK(p) /\ FreeOK(p) /\ MadeOK(p)

\* The counters of a user's day are right, and within the limits.
CountsOK(u, d) ==
  /\ IsFiniteSet(Entered(u, "MAIN", d)) /\ IsFiniteSet(Entered(u, "FREE_DAILY", d))
  /\ Cardinality(Entered(u, "MAIN", d)) = UsedIn(db[MainRow(u, d)])
  /\ UsedIn(db[MainRow(u, d)]) <= MainMaxPerDay
  /\ Cardinality(Entered(u, "FREE_DAILY", d)) = IF db[FreeRow(u, d)] = NoRow THEN 0 ELSE 1

SlotInv ==
  /\ IInv
  /\ \A p \in Procs : SlotOK(p)
  /\ \A u \in Users, d \in Days : CountsOK(u, d)

\* p leaves what the others have locked as they wrote it, and the day alone.
OthersRest(p) ==
  /\ OthersKept(p) /\ OwnRows(p)
  /\ \A k \in Keys : owner[k] \in Procs \ {p} => new'[k] = new[k]
  /\ day' = day

-----------------------------------------------------------------------------
\* The keys of the slots say whose they are, and are no other table's.
LEMMA SlotKeysApart ==
  ASSUME NEW u \in Users, NEW d
  PROVE  /\ \A v \in Users, e \in Days : MainRow(u, d) # FreeRow(v, e) /\ FreeRow(u, d) # MainRow(v, e)
         /\ \A v \in Users, e \in Days : MainRow(u, d) = MainRow(v, e) => u = v /\ d = e
         /\ \A v \in Users, e \in Days : FreeRow(u, d) = FreeRow(v, e) => u = v /\ d = e
         /\ \A m \in Markets, v \in Users :
              MainRow(u, d) # EntryRow(m, v) /\ FreeRow(u, d) # EntryRow(m, v)
         /\ \A m \in Markets : MainRow(u, d) # MarketRow(m) /\ FreeRow(u, d) # MarketRow(m)
BY DEF EntryRow, MarketRow, MainRow, FreeRow

\* Every statement leaves the others' rows alone.
LEMMA RowStepRests ==
  ASSUME NEW p \in Procs, IInv, OthersKept(p), day' = day,
         \/ UNCHANGED rowVars
         \/ \E k \in Keys : \E v : WriteRow(p, k, v)
         \/ CommitRows(p)
         \/ RollbackRows(p)
  PROVE  OthersRest(p)
<1>1. OwnRows(p)
  BY ReadOwnRows, WriteOwnRows, EndOwnRows
<1>2. owner \in [Keys -> Procs \cup {NoProc}] /\ DOMAIN new = Keys
  BY RowTypes DEF IInv, Shared, RowsInv
<1>3. ASSUME NEW k \in Keys, owner[k] \in Procs \ {p} PROVE new'[k] = new[k]
  <2>1. CASE UNCHANGED rowVars \/ CommitRows(p)
    BY <2>1 DEF rowVars, CommitRows
  <2>2. CASE \E l \in Keys : \E v : WriteRow(p, l, v)
    BY <1>2, <1>3, <2>2, LedgerAssumption DEF WriteRow, Free
  <2>3. CASE RollbackRows(p)
    BY <1>2, <1>3, <2>3 DEF RollbackRows
  <2>4. QED
    BY <2>1, <2>2, <2>3
<1>4. QED
  BY <1>1, <1>3 DEF OthersRest

\* What the invariant says of another process holds after a step of p.
LEMMA OthersSlots ==
  ASSUME NEW p \in Procs, NEW q \in Procs \ {p}, SlotInv, OthersRest(p)
  PROVE  SlotOK(q)'
<1>1. pc'[q] = pc[q] /\ frame'[q] = frame[q] /\ day' = day
  BY DEF OthersRest, OthersKept
<1>2. SlotOK(q)
  BY DEF SlotInv
<1>3. PcOK(q)'
  BY <1>1, <1>2 DEF SlotOK, PcOK
<1>4. \A kind : ForSlot(q, kind)' <=> ForSlot(q, kind)
  BY <1>1 DEF ForSlot, HasSlot
<1>5. EntryMade(q)' <=> EntryMade(q)
  BY <1>1 DEF EntryMade
<1>6. ASSUME NEW k \in Keys
      PROVE  /\ owner'[k] = q <=> owner[k] = q
             /\ owner[k] = q => new'[k] = new[k] /\ db'[k] = db[k]
  BY DEF OthersRest, OwnRows
<1>7. frame[q].op = "submit" => frame[q].user \in Users /\ frame[q].market \in Markets
  <2>1. LocalOK(q) /\ frame[q] \in Frames
    BY DEF SlotInv, IInv, Shared
  <2>2. QED
    BY <2>1, FrameTypes DEF LocalOK, CallFrames
<1>8. HasSlot(q) => frame[q].day \in Days
  <2>1. day \in Days
    BY DEF SlotInv, IInv, Shared, Days
  <2>2. QED
    BY <1>2, <2>1 DEF SlotOK, PcOK, HasSlot
<1>9. MainOK(q)'
  <2>1. ForSlot(q, "MAIN") => MainRow(frame[q].user, frame[q].day) \in Keys
    BY <1>7, <1>8, RowTypes DEF ForSlot, HasSlot
  <2>2. \A u \in Users, d \in Days : MainRow(u, d) \in Keys
    BY RowTypes
  <2>3. QED
    BY <1>1, <1>2, <1>4, <1>6, <2>1, <2>2 DEF SlotOK, MainOK
<1>10. FreeOK(q)'
  <2>1. ForSlot(q, "FREE_DAILY") => FreeRow(frame[q].user, frame[q].day) \in Keys
    BY <1>7, <1>8, RowTypes DEF ForSlot, HasSlot
  <2>2. \A u \in Users, d \in Days : FreeRow(u, d) \in Keys
    BY RowTypes
  <2>3. QED
    BY <1>1, <1>2, <1>4, <1>6, <2>1, <2>2 DEF SlotOK, FreeOK
<1>11. MadeOK(q)'
  <2>1. EntryMade(q) => EntryRow(frame[q].market, frame[q].user) \in Keys
    BY <1>7, RowTypes DEF EntryMade
  <2>2. \A m \in Markets, u \in Users : EntryRow(m, u) \in Keys
    BY RowTypes
  <2>3. QED
    BY <1>1, <1>2, <1>5, <1>6, <2>1, <2>2 DEF SlotOK, MadeOK
<1>12. QED
  BY <1>3, <1>9, <1>10, <1>11 DEF SlotOK

\* Counters and entries that are not written stay as they are.
LEMMA CountsStay ==
  ASSUME db' = db, \A u \in Users, d \in Days : CountsOK(u, d)
  PROVE  \A u \in Users, d \in Days : CountsOK(u, d)'
<1>1. ASSUME NEW u \in Users, NEW d \in Days PROVE CountsOK(u, d)'
  <2>1. \A kind : Entered(u, kind, d)' = Entered(u, kind, d)
    BY DEF Entered, HasEntry
  <2>2. CountsOK(u, d)
    OBVIOUS
  <2>3. QED
    BY <2>1, <2>2 DEF CountsOK
<1>2. QED
  BY <1>1

\* A step of p that publishes nothing keeps the invariant if it keeps p's part.
LEMMA QuietSlots ==
  ASSUME NEW p \in Procs, SlotInv, IInv', OthersRest(p), db' = db, SlotOK(p)'
  PROVE  SlotInv'
<1>1. \A q \in Procs : SlotOK(q)'
  BY OthersSlots
<1>2. \A u \in Users, d \in Days : CountsOK(u, d)'
  BY CountsStay DEF SlotInv
<1>3. QED
  BY <1>1, <1>2 DEF SlotInv

\* What SlotOK asks of a process that has no row locked and no slot yet.
LEMMA NoSlot ==
  ASSUME NEW p \in Procs, IInv, PcOK(p), ~HasSlot(p),
         \A u \in Users, d \in Days : owner[MainRow(u, d)] # p /\ owner[FreeRow(u, d)] # p,
         \A m \in Markets, u \in Users : owner[EntryRow(m, u)] # p
  PROVE  SlotOK(p)
<1>1. ~EntryMade(p)
  BY DEF EntryMade, HasSlot
<1>2. QED
  BY <1>1 DEF SlotOK, MainOK, FreeOK, MadeOK, ForSlot

\* A rollback, and a COMMIT, leave nothing to say of p.
LEMMA EndSlots ==
  ASSUME NEW p \in Procs, IInv', pc'[p] = "idle", frame'[p] = NoFrame,
         \A k \in Keys : owner'[k] # p
  PROVE  SlotOK(p)'
<1>1. NoFrame.op = "none"
  BY FrameTypes
<1>2. ~HasSlot(p)' /\ ~EntryMade(p)' /\ PcOK(p)'
  BY <1>1 DEF HasSlot, EntryMade, PcOK
<1>3. QED
  BY <1>2, RowTypes DEF SlotOK, MainOK, FreeOK, MadeOK, ForSlot

LEMMA GiveUpSlots ==
  ASSUME NEW p \in Procs, SlotInv, GiveUp(p)
  PROVE  SlotInv'
<1>1. IInv /\ IInv'
  BY GiveUpStep DEF SlotInv
<1>2. "idle" \in Pcs /\ NoFrame \in Frames
  BY FrameTypes DEF Pcs
<1>3. OthersKept(p) /\ pc'[p] = "idle" /\ frame'[p] = NoFrame
  BY <1>1, <1>2, GiveUpKeeps DEF IInv
<1>4. db' = db /\ day' = day /\ RollbackRows(p)
  BY DEF GiveUp, RollbackRows, clockVars
<1>5. OthersRest(p)
  BY <1>1, <1>3, <1>4, RowStepRests
<1>6. SlotOK(p)'
  BY <1>1, <1>3, <1>4, EndOwnRows, EndSlots
<1>7. QED
  BY <1>1, <1>4, <1>5, <1>6, QuietSlots

LEMMA StartSlots ==
  ASSUME NEW p \in Procs, SlotInv, Start(p)
  PROVE  SlotInv'
<1>1. IInv /\ IInv'
  BY StartStep DEF SlotInv
<1>2. PICK f, first :
        /\ StartCall(p, f, first) /\ first \in {"marketRead", "settleRead"}
        /\ first = "settleRead" => f.op = "settle"
  <2>1. \A u, m, option : Frame("settle", u, m, option, 0).op = "settle"
    BY DEF Frame
  <2>2. PICK m \in Markets, option \in Options :
          \/ \E u \in Users, stake \in Stakes(m) :
               StartCall(p, Frame("submit", u, m, option, stake), "marketRead")
          \/ StartCall(p, Frame("settle", NoRow, m, option, 0), "settleRead")
    BY DEF Start
  <2>3. CASE StartCall(p, Frame("settle", NoRow, m, option, 0), "settleRead")
    BY <2>1, <2>3
  <2>4. CASE \E u \in Users, stake \in Stakes(m) :
               StartCall(p, Frame("submit", u, m, option, stake), "marketRead")
    BY <2>4
  <2>5. QED
    BY <2>2, <2>3, <2>4
<1>3. /\ pc[p] = "idle" /\ pc' = [pc EXCEPT ![p] = first] /\ frame' = [frame EXCEPT ![p] = f]
      /\ UNCHANGED rowVars /\ day' = day /\ db' = db
  <2>1. UNCHANGED <<rowVars, clockVars>>
    BY <1>2 DEF StartCall
  <2>2. QED
    BY <1>2, <2>1 DEF StartCall, Goto, rowVars, clockVars
<1>4. pc \in [Procs -> Pcs] /\ frame \in [Procs -> Frames]
  BY <1>1 DEF IInv, Shared
<1>5. OthersKept(p) /\ pc'[p] = first /\ frame'[p] = f
  BY <1>3, <1>4 DEF OthersKept
<1>6. OthersRest(p)
  BY <1>1, <1>3, <1>5, RowStepRests
<1>7. SlotOK(p)'
  <2>1. SlotOK(p) /\ ~HasSlot(p)
    BY <1>3 DEF SlotInv, HasSlot
  <2>2. /\ \A u \in Users, d \in Days : owner[MainRow(u, d)] # p /\ owner[FreeRow(u, d)] # p
        /\ \A m \in Markets, u \in Users : owner[EntryRow(m, u)] # p
    <3>1. SlotOK(p) /\ LocksOK(p) /\ ~ForSlot(p, "MAIN") /\ ~ForSlot(p, "FREE_DAILY")
      BY <1>1, <2>1 DEF IInv, ForSlot
    <3>2. pc[p] \notin LatePcs
      BY <1>3 DEF LatePcs
    <3>3. QED
      BY <3>1, <3>2 DEF SlotOK, MainOK, FreeOK, LocksOK
  <2>3. ~HasSlot(p)' /\ ~EntryMade(p)' /\ PcOK(p)'
    <3>1. CASE first = "marketRead"
      BY <1>5, <3>1 DEF HasSlot, EntryMade, PcOK
    <3>2. CASE first = "settleRead"
      BY <1>2, <1>5, <3>2 DEF HasSlot, EntryMade, PcOK
    <3>3. QED
      BY <1>2, <3>1, <3>2
  <2>4. owner' = owner
    BY <1>3 DEF rowVars
  <2>5. QED
    BY <2>2, <2>3, <2>4 DEF SlotOK, MainOK, FreeOK, MadeOK, ForSlot
<1>8. QED
  BY <1>1, <1>3, <1>6, <1>7, QuietSlots

-----------------------------------------------------------------------------
\* The statement and the locals of p change, nobody else's do.
LEMMA CallMoved ==
  ASSUME NEW p \in Procs, IInv, NEW next, NEW f,
         pc' = [pc EXCEPT ![p] = next], frame' = [frame EXCEPT ![p] = f]
  PROVE  OthersKept(p) /\ pc'[p] = next /\ frame'[p] = f
BY DEF OthersKept, IInv, Shared

\* Before its slot is reserved, a submission has no row locked.
LEMMA BareFacts ==
  ASSUME NEW p \in Procs, SlotInv, pc[p] \in {"marketRead", "entrySelect"} \cup SlotPcs
  PROVE  /\ \A u \in Users, d \in Days : owner[MainRow(u, d)] # p /\ owner[FreeRow(u, d)] # p
         /\ \A m \in Markets, u \in Users : owner[EntryRow(m, u)] # p
         /\ frame[p].op = "submit" /\ frame[p].user \in Users /\ frame[p].market \in Markets
         /\ Kind[frame[p].market] \in Kinds
         /\ frame[p] \in Frames
         /\ owner \in [Keys -> Procs \cup {NoProc}]
<1>1. pc[p] \in SubmitPcs /\ IInv /\ ~HasSlot(p)
  BY DEF SubmitPcs, SlotPcs, SlotInv, HasSlot
<1>2. /\ \A m \in Markets, u \in Users : owner[EntryRow(m, u)] # p
      /\ frame[p].op = "submit" /\ frame[p].user \in Users /\ frame[p].market \in Markets
      /\ frame[p] \in Frames
  BY <1>1, SubmitFacts DEF CallFrames
<1>3. \A u \in Users, d \in Days : owner[MainRow(u, d)] # p /\ owner[FreeRow(u, d)] # p
  <2>1. SlotOK(p)
    BY DEF SlotInv
  <2>2. QED
    BY <1>1, <2>1 DEF SlotOK, MainOK, FreeOK, ForSlot
<1>4. owner \in [Keys -> Procs \cup {NoProc}]
  BY <1>1, RowTypes DEF IInv, Shared, RowsInv
<1>5. QED
  BY <1>2, <1>3, <1>4, PredictionAssumption

\* A step after which p still has no row locked and no slot.
LEMMA BareStep ==
  ASSUME NEW p \in Procs, SlotInv, IInv',
         pc[p] \in {"marketRead", "entrySelect"} \cup SlotPcs,
         UNCHANGED rowVars, day' = day, OthersKept(p), PcOK(p)',
         HasSlot(p)' => Kind[frame'[p].market] = "STANDARD" /\ pc'[p] = "lastPick"
  PROVE  SlotInv'
<1>1. OthersRest(p) /\ db' = db /\ owner' = owner
  BY RowStepRests DEF SlotInv, rowVars
<1>2. /\ \A u \in Users, d \in Days : owner[MainRow(u, d)] # p /\ owner[FreeRow(u, d)] # p
      /\ \A m \in Markets, u \in Users : owner[EntryRow(m, u)] # p
  BY BareFacts
<1>3. ~ForSlot(p, "MAIN")' /\ ~ForSlot(p, "FREE_DAILY")' /\ ~EntryMade(p)'
  BY DEF ForSlot, EntryMade, HasSlot
<1>4. SlotOK(p)'
  BY <1>1, <1>2, <1>3 DEF SlotOK, MainOK, FreeOK, MadeOK
<1>5. QED
  BY <1>1, <1>4, QuietSlots

\* The SELECTs before the slot is reserved.
LEMMA ReadsSlots ==
  ASSUME NEW p \in Procs, SlotInv, IInv', ~GiveUp(p),
         \/ MarketRead(p) \/ EntrySelect(p) \/ FreeSelect(p)
         \/ MainSelect(p) /\ pc'[p] # "lastPick"
  PROVE  SlotInv'
<1>1. pc[p] \in {"marketRead", "entrySelect"} \cup SlotPcs
  BY DEF MarketRead, EntrySelect, FreeSelect, MainSelect, SlotPcs
<1>2. /\ frame[p].op = "submit" /\ frame[p].market \in Markets
      /\ Kind[frame[p].market] \in Kinds /\ frame[p] \in Frames
  BY <1>1, BareFacts
<1>3. PcOK(p) /\ IInv /\ pc \in [Procs -> Pcs] /\ frame \in [Procs -> Frames]
  BY DEF SlotInv, SlotOK, IInv, Shared
<1>4. CASE EntrySelect(p)
  <2>1. PICK next, f :
          /\ pc' = [pc EXCEPT ![p] = next] /\ frame' = [frame EXCEPT ![p] = f]
          /\ f = [frame[p] EXCEPT !.day = day]
          /\ next = CASE Kind[frame[p].market] = "FREE_DAILY" -> "freeSelect"
                      [] Kind[frame[p].market] = "MAIN" -> "mainSelect"
                      [] Kind[frame[p].market] = "STANDARD" -> "lastPick"
          /\ UNCHANGED <<rowVars, clockVars>>
    BY <1>3, <1>4 DEF EntrySelect, Goto
  <2>2. frame[p] # NoFrame
    BY <1>2, FrameTypes
  <2>3. f.day = day /\ f.op = "submit" /\ f.market = frame[p].market
    BY <1>2, <2>1, <2>2 DEF Frames
  <2>4. OthersKept(p) /\ pc'[p] = next /\ frame'[p] = f
    BY <1>3, <2>1, CallMoved
  <2>5. day' = day
    BY <2>1 DEF clockVars
  <2>6. \/ next = "freeSelect" /\ Kind[f.market] = "FREE_DAILY"
        \/ next = "mainSelect" /\ Kind[f.market] = "MAIN"
        \/ next = "lastPick" /\ Kind[f.market] = "STANDARD"
    BY <1>2, <2>1, <2>3 DEF Kinds
  <2>7. PcOK(p)'
    BY <2>3, <2>4, <2>5, <2>6 DEF PcOK
  <2>8. HasSlot(p)' => Kind[frame'[p].market] = "STANDARD" /\ pc'[p] = "lastPick"
    BY <2>4, <2>6 DEF HasSlot
  <2>9. QED
    BY <1>1, <2>1, <2>4, <2>5, <2>7, <2>8, BareStep
<1>5. CASE ~EntrySelect(p)
  <2>1. /\ pc[p] \in {"marketRead", "freeSelect", "mainSelect"}
        /\ \/ pc[p] = "marketRead" /\ pc' = [pc EXCEPT ![p] = "entrySelect"]
           \/ pc[p] = "freeSelect" /\ pc' = [pc EXCEPT ![p] = "freeInsert"]
           \/ pc[p] = "mainSelect" /\ pc' = [pc EXCEPT ![p] = "mainInsert"]
        /\ UNCHANGED <<rowVars, frame, clockVars>>
    <3>1. CASE MarketRead(p)
      BY <3>1 DEF MarketRead, Proceed, Goto
    <3>2. CASE FreeSelect(p)
      BY <3>2 DEF FreeSelect, Proceed, Goto
    <3>3. CASE MainSelect(p) /\ pc'[p] # "lastPick"
      BY <1>3, <3>3 DEF MainSelect, Proceed, Goto
    <3>4. QED
      BY <1>5, <3>1, <3>2, <3>3
  <2>2. PICK next \in {"entrySelect", "freeInsert", "mainInsert"} :
          /\ pc' = [pc EXCEPT ![p] = next]
          /\ \/ pc[p] = "marketRead" /\ next = "entrySelect"
             \/ pc[p] = "freeSelect" /\ next = "freeInsert"
             \/ pc[p] = "mainSelect" /\ next = "mainInsert"
    BY <2>1
  <2>3. frame' = [frame EXCEPT ![p] = frame[p]] /\ day' = day /\ UNCHANGED rowVars
    BY <1>3, <2>1 DEF clockVars
  <2>4. OthersKept(p) /\ pc'[p] = next /\ frame'[p] = frame[p]
    BY <1>3, <2>2, <2>3, CallMoved
  <2>5. PcOK(p)'
    BY <1>3, <2>2, <2>3, <2>4 DEF PcOK
  <2>6. ~HasSlot(p)'
    BY <2>2, <2>4 DEF HasSlot
  <2>7. QED
    BY <1>1, <2>3, <2>4, <2>5, <2>6, BareStep
<1>6. QED
  BY <1>4, <1>5

\* The slot of a MAIN market: p becomes the owner of the counter, and has
\* raised it by one.
LEMMA MainSlots ==
  ASSUME NEW p \in Procs, SlotInv, IInv', ~GiveUp(p),
         MainInsert(p) \/ (MainSelect(p) /\ pc'[p] = "lastPick")
  PROVE  SlotInv'
<1> DEFINE f == frame[p]
           k == MainRow(frame[p].user, frame[p].day)
<1>1. pc[p] \in {"mainSelect", "mainInsert"} /\ pc[p] \in SlotPcs
  BY DEF MainInsert, MainSelect, SlotPcs
<1>2. /\ \A u \in Users, d \in Days : owner[MainRow(u, d)] # p /\ owner[FreeRow(u, d)] # p
      /\ \A m \in Markets, u \in Users : owner[EntryRow(m, u)] # p
      /\ f.op = "submit" /\ f.user \in Users /\ f.market \in Markets
      /\ owner \in [Keys -> Procs \cup {NoProc}]
  BY <1>1, BareFacts
<1>3. /\ PcOK(p) /\ IInv /\ pc \in [Procs -> Pcs] /\ frame \in [Procs -> Frames]
      /\ RowsInv(VersionsOf) /\ day \in Days
  BY DEF SlotInv, SlotOK, IInv, Shared, Days
<1>4. Kind[f.market] = "MAIN" /\ f.day = day
  BY <1>1, <1>2, <1>3 DEF PcOK
<1>5. k \in Keys /\ VersionsOf[k] = SlotVersions /\ k \in DOMAIN VersionsOf
  BY <1>2, <1>3, <1>4, RowTypes
<1>6. /\ WriteRow(p, k, [used |-> UsedIn(db[k]) + 1])
      /\ UsedIn(db[k]) < MainMaxPerDay
  <2>1. CASE MainInsert(p)
    <3>1. db[k] = NoRow /\ WriteRow(p, k, [used |-> 1])
      BY <2>1 DEF MainInsert, InsertRow
    <3>2. UsedIn(db[k]) = 0
      BY <3>1 DEF UsedIn
    <3>3. QED
      BY <3>1, <3>2, PredictionAssumption
  <2>2. CASE MainSelect(p) /\ pc'[p] = "lastPick"
    <3>1. db[k] # NoRow /\ ~SlotsUsedUp(db[k].used) /\ WriteRow(p, k, [used |-> db[k].used + 1])
      BY <1>3, <2>2 DEF MainSelect, Proceed, Goto
    <3>2. db[k] \in SlotVersions
      BY <1>3, <1>5, <3>1 DEF RowsInv
    <3>3. db[k].used \in Nat /\ UsedIn(db[k]) = db[k].used
      BY <3>1, <3>2 DEF SlotVersions, UsedIn
    <3>4. QED
      BY <3>1, <3>3, PredictionAssumption DEF SlotsUsedUp
  <2>3. QED
    BY <2>1, <2>2
<1>7. pc' = [pc EXCEPT ![p] = "lastPick"] /\ frame' = frame /\ day' = day
  <2>1. CASE MainInsert(p)
    BY <2>1 DEF MainInsert, Goto, clockVars
  <2>2. CASE MainSelect(p) /\ pc'[p] = "lastPick"
    BY <1>3, <2>2 DEF MainSelect, Proceed, Goto, clockVars
  <2>3. QED
    BY <2>1, <2>2
<1>8. OthersKept(p) /\ pc'[p] = "lastPick" /\ frame'[p] = f
  BY <1>3, <1>7 DEF OthersKept
<1>9. OthersRest(p)
  BY <1>3, <1>5, <1>6, <1>7, <1>8, RowStepRests
<1>10. /\ db' = db /\ owner' = [owner EXCEPT ![k] = p]
       /\ new' = [new EXCEPT ![k] = [used |-> UsedIn(db[k]) + 1]]
  BY <1>6 DEF WriteRow
<1>11. owner'[k] = p /\ new'[k] = [used |-> UsedIn(db[k]) + 1]
  BY <1>2, <1>3, <1>5, <1>10, RowTypes DEF RowsInv
<1>12. \A l \in Keys : l # k => (owner'[l] = p <=> owner[l] = p)
  BY <1>2, <1>10
<1>13. HasSlot(p)' /\ ForSlot(p, "MAIN")' /\ ~ForSlot(p, "FREE_DAILY")' /\ ~EntryMade(p)'
  BY <1>2, <1>4, <1>8 DEF HasSlot, ForSlot, EntryMade
<1>14. PcOK(p)'
  BY <1>4, <1>7, <1>8 DEF PcOK
<1>15. MainOK(p)'
  <2>1. ASSUME NEW u \in Users, NEW d \in Days, owner'[MainRow(u, d)] = p
        PROVE  u = f.user /\ d = f.day
    <3>1. MainRow(u, d) = k
      BY <1>2, <1>12, <2>1, RowTypes
    <3>2. QED
      BY <1>2, <3>1, SlotKeysApart, <1>3, <1>4
  <2>2. QED
    BY <1>6, <1>8, <1>10, <1>11, <1>13, <2>1 DEF MainOK
<1>16. FreeOK(p)'
  <2>1. \A u \in Users, d \in Days : FreeRow(u, d) \in Keys /\ FreeRow(u, d) # k
    BY <1>2, <1>3, <1>4, RowTypes, SlotKeysApart
  <2>2. QED
    BY <1>2, <1>12, <1>13, <2>1 DEF FreeOK
<1>17. MadeOK(p)'
  <2>1. \A m \in Markets, u \in Users : EntryRow(m, u) \in Keys /\ EntryRow(m, u) # k
    BY <1>2, RowTypes, SlotKeysApart
  <2>2. QED
    BY <1>2, <1>12, <1>13, <2>1 DEF MadeOK
<1>18. QED
  BY <1>9, <1>10, <1>14, <1>15, <1>16, <1>17, QuietSlots DEF SlotOK

\* The slot of a FREE_DAILY market.
LEMMA FreeSlots ==
  ASSUME NEW p \in Procs, SlotInv, IInv', ~GiveUp(p), FreeInsert(p)
  PROVE  SlotInv'
<1> DEFINE f == frame[p]
           k == FreeRow(frame[p].user, frame[p].day)
<1>1. pc[p] = "freeInsert" /\ pc[p] \in SlotPcs
  BY DEF FreeInsert, SlotPcs
<1>2. /\ \A u \in Users, d \in Days : owner[MainRow(u, d)] # p /\ owner[FreeRow(u, d)] # p
      /\ \A m \in Markets, u \in Users : owner[EntryRow(m, u)] # p
      /\ f.op = "submit" /\ f.user \in Users /\ f.market \in Markets
      /\ owner \in [Keys -> Procs \cup {NoProc}]
  BY <1>1, BareFacts
<1>3. /\ PcOK(p) /\ IInv /\ pc \in [Procs -> Pcs] /\ frame \in [Procs -> Frames]
      /\ RowsInv(VersionsOf) /\ day \in Days
  BY DEF SlotInv, SlotOK, IInv, Shared, Days
<1>4. Kind[f.market] = "FREE_DAILY" /\ f.day = day
  BY <1>1, <1>2, <1>3 DEF PcOK
<1>5. k \in Keys /\ VersionsOf[k] = SlotVersions /\ k \in DOMAIN VersionsOf
  BY <1>2, <1>3, <1>4, RowTypes
<1>6. db[k] = NoRow /\ WriteRow(p, k, [used |-> 1])
  BY DEF FreeInsert, InsertRow
<1>7. pc' = [pc EXCEPT ![p] = "lastPick"] /\ frame' = frame /\ day' = day
  BY DEF FreeInsert, Goto, clockVars
<1>8. OthersKept(p) /\ pc'[p] = "lastPick" /\ frame'[p] = f
  BY <1>3, <1>7 DEF OthersKept
<1>9. OthersRest(p)
  BY <1>3, <1>5, <1>6, <1>7, <1>8, RowStepRests
<1>10. /\ db' = db /\ owner' = [owner EXCEPT ![k] = p] /\ new' = [new EXCEPT ![k] = [used |-> 1]]
  BY <1>6 DEF WriteRow
<1>11. owner'[k] = p /\ new'[k] # NoRow
  <2>1. [used |-> 1] \in SlotVersions
    BY DEF SlotVersions
  <2>2. owner'[k] = p /\ new'[k] = [used |-> 1]
    BY <1>2, <1>3, <1>5, <1>10, RowTypes DEF RowsInv
  <2>3. QED
    BY <2>1, <2>2, NoRowAssumption
<1>12. \A l \in Keys : l # k => (owner'[l] = p <=> owner[l] = p)
  BY <1>2, <1>10
<1>13. HasSlot(p)' /\ ForSlot(p, "FREE_DAILY")' /\ ~ForSlot(p, "MAIN")' /\ ~EntryMade(p)'
  BY <1>2, <1>4, <1>8 DEF HasSlot, ForSlot, EntryMade
<1>14. PcOK(p)'
  BY <1>4, <1>7, <1>8 DEF PcOK
<1>15. FreeOK(p)'
  <2>1. ASSUME NEW u \in Users, NEW d \in Days, owner'[FreeRow(u, d)] = p
        PROVE  u = f.user /\ d = f.day
    <3>1. FreeRow(u, d) = k
      BY <1>2, <1>12, <2>1, RowTypes
    <3>2. QED
      BY <1>2, <1>3, <1>4, <3>1, SlotKeysApart
  <2>2. QED
    BY <1>6, <1>8, <1>10, <1>11, <1>13, <2>1 DEF FreeOK
<1>16. MainOK(p)'
  <2>1. \A u \in Users, d \in Days : MainRow(u, d) \in Keys /\ MainRow(u, d) # k
    BY <1>2, <1>3, <1>4, RowTypes, SlotKeysApart
  <2>2. QED
    BY <1>2, <1>12, <1>13, <2>1 DEF MainOK
<1>17. MadeOK(p)'
  <2>1. \A m \in Markets, u \in Users : EntryRow(m, u) \in Keys /\ EntryRow(m, u) # k
    BY <1>2, RowTypes, SlotKeysApart
  <2>2. QED
    BY <1>2, <1>12, <1>13, <2>1 DEF MadeOK
<1>18. QED
  BY <1>9, <1>10, <1>14, <1>15, <1>16, <1>17, QuietSlots DEF SlotOK

-----------------------------------------------------------------------------
\* A statement that writes no row and keeps p where it was with its slot.
LEMMA StaysSlots ==
  ASSUME NEW p \in Procs, SlotInv, IInv',
         UNCHANGED rowVars, day' = day, OthersKept(p),
         frame'[p].op = frame[p].op, frame'[p].market = frame[p].market,
         frame'[p].user = frame[p].user, frame'[p].day = frame[p].day,
         pc[p] \notin {"marketRead", "entrySelect"} \cup SlotPcs,
         pc'[p] \notin {"marketRead", "entrySelect"} \cup SlotPcs,
         HasSlot(p)' <=> HasSlot(p), EntryMade(p)' <=> EntryMade(p)
  PROVE  SlotInv'
<1>1. SlotOK(p) /\ db' = db /\ new' = new /\ owner' = owner
  BY DEF SlotInv, rowVars
<1>2. \A kind : ForSlot(p, kind)' <=> ForSlot(p, kind)
  BY DEF ForSlot
<1>3. PcOK(p)'
  BY <1>1 DEF SlotOK, PcOK, SlotPcs
<1>4. MainOK(p)' /\ FreeOK(p)'
  BY <1>1, <1>2 DEF SlotOK, MainOK, FreeOK
<1>5. MadeOK(p)'
  BY <1>1 DEF SlotOK, MadeOK
<1>6. OthersRest(p)
  BY RowStepRests DEF SlotInv
<1>7. QED
  BY <1>1, <1>3, <1>4, <1>5, <1>6, QuietSlots DEF SlotOK

\* The balance is read, and the last row of the ledger locked.
LEMMA LastSlots ==
  ASSUME NEW p \in Procs, SlotInv, IInv', ~GiveUp(p), LastPick(p) \/ LastLock(p)
  PROVE  SlotInv'
<1>1. pc[p] \in {"lastPick", "lastLock"} /\ pc[p] \in SubmitPcs
  BY DEF LastPick, LastLock, SubmitPcs
<1>2. IInv /\ frame[p].op = "submit" /\ frame[p] \in Frames /\ frame[p] # NoFrame
      /\ pc \in [Procs -> Pcs] /\ frame \in [Procs -> Frames]
  BY <1>1, SubmitFacts DEF SlotInv, CallFrames, IInv, Shared
<1>3. PICK next \in {"lastLock", "entryInsert"} : \E row :
        /\ pc' = [pc EXCEPT ![p] = next]
        /\ frame' = [frame EXCEPT ![p] = [frame[p] EXCEPT !.row = row]]
  <2>1. CASE LastPick(p)
    <3>1. PICK row : frame' = [frame EXCEPT ![p].row = row]
      BY <2>1 DEF LastPick, PickLastRow
    <3>2. frame' = [frame EXCEPT ![p] = [frame[p] EXCEPT !.row = row]]
      BY <1>2, <3>1
    <3>3. QED
      BY <2>1, <3>2 DEF LastPick, PickLastRow, Goto
  <2>2. CASE LastLock(p)
    <3>1. frame' = [frame EXCEPT ![p] = [frame[p] EXCEPT !.row = frame[p].row]]
      BY <1>2, <2>2 DEF LastLock, Frames
    <3>2. QED
      BY <2>2, <3>1 DEF LastLock, Goto
  <2>3. QED
    BY <2>1, <2>2
<1>3a. PICK row :
        /\ pc' = [pc EXCEPT ![p] = next]
        /\ frame' = [frame EXCEPT ![p] = [frame[p] EXCEPT !.row = row]]
  BY <1>3
<1>4. UNCHANGED rowVars /\ day' = day
  <2>1. UNCHANGED <<rowVars, clockVars>>
    BY DEF LastPick, LastLock, PickLastRow
  <2>2. QED
    BY <2>1 DEF clockVars
<1>5. PICK f : f = [frame[p] EXCEPT !.row = row]
  OBVIOUS
<1>6. f.op = "submit" /\ f.market = frame[p].market /\ f.user = frame[p].user
        /\ f.day = frame[p].day
  BY <1>2, <1>5 DEF Frames
<1>7. OthersKept(p) /\ pc'[p] = next /\ frame'[p] = f
  BY <1>2, <1>3a, <1>5, CallMoved
<1>8. HasSlot(p)' /\ HasSlot(p) /\ ~EntryMade(p)' /\ ~EntryMade(p)
  BY <1>1, <1>2, <1>3a, <1>6, <1>7 DEF HasSlot, EntryMade
<1>9. next \notin {"marketRead", "entrySelect"} \cup SlotPcs
        /\ pc[p] \notin {"marketRead", "entrySelect"} \cup SlotPcs
  BY <1>1, <1>3a DEF SlotPcs
<1>10. QED
  BY <1>2, <1>4, <1>6, <1>7, <1>8, <1>9, StaysSlots

\* The entry: it is of the day of the slot, since no day ends within a call.
LEMMA EntrySlots ==
  ASSUME NEW p \in Procs, SlotInv, IInv', ~GiveUp(p), EntryInsert(p)
  PROVE  SlotInv'
<1> DEFINE f == frame[p]
           k == EntryRow(frame[p].market, frame[p].user)
<1>1. pc[p] = "entryInsert" /\ pc[p] \in SubmitPcs
  BY DEF EntryInsert, SubmitPcs
<1>2. /\ IInv /\ f.op = "submit" /\ f \in CallFrames /\ f.user \in Users /\ f.market \in Markets
      /\ \A m \in Markets, u \in Users : owner[EntryRow(m, u)] # p
      /\ f.option \in Options /\ f.stake \in Nat
  BY <1>1, SubmitFacts, FrameTypes DEF SlotInv
<1>3. /\ SlotOK(p) /\ pc \in [Procs -> Pcs] /\ frame \in [Procs -> Frames]
      /\ RowsInv(VersionsOf) /\ day \in Days /\ owner \in [Keys -> Procs \cup {NoProc}]
      /\ new \in [Keys -> Versions]
  BY <1>2, RowTypes, IInvImplies DEF SlotInv, IInv, Shared, Days, RowsInv, TypeOK
<1>4. f.day = day
  BY <1>1, <1>2, <1>3 DEF SlotOK, PcOK
<1>5. PICK v : v = [status |-> "OPEN", option |-> f.option, stake |-> f.stake, day |-> day]
  OBVIOUS
<1>6. v \in EntryVersions /\ v.day = f.day
  BY <1>2, <1>3, <1>4, <1>5 DEF EntryVersions
<1>7. k \in Keys /\ db[k] = NoRow /\ WriteRow(p, k, v)
  BY <1>2, <1>5, RowTypes DEF EntryInsert, InsertRow
<1>8. PICK next \in {"commit", "append"} : pc' = [pc EXCEPT ![p] = next]
  BY DEF EntryInsert, Goto
<1>9. frame' = frame /\ day' = day
  BY DEF EntryInsert, clockVars
<1>10. OthersKept(p) /\ pc'[p] = next /\ frame'[p] = f
  BY <1>3, <1>8, <1>9 DEF OthersKept
<1>11. OthersRest(p)
  BY <1>2, <1>7, <1>9, <1>10, RowStepRests
<1>12. db' = db /\ owner' = [owner EXCEPT ![k] = p] /\ new' = [new EXCEPT ![k] = v]
  BY <1>7 DEF WriteRow
<1>13. owner'[k] = p /\ new'[k] = v
  BY <1>3, <1>7, <1>12
<1>14. \A l \in Keys : l # k => (owner'[l] = p <=> owner[l] = p) /\ new'[l] = new[l]
  BY <1>3, <1>12
<1>15. HasSlot(p)' /\ HasSlot(p) /\ EntryMade(p)'
  BY <1>1, <1>2, <1>10 DEF HasSlot, EntryMade
<1>16. \A kind : ForSlot(p, kind)' <=> ForSlot(p, kind)
  BY <1>10, <1>15 DEF ForSlot
<1>17. PcOK(p)'
  BY <1>4, <1>8, <1>9, <1>10 DEF PcOK
<1>18. \A u \in Users, d \in Days :
         /\ MainRow(u, d) \in Keys /\ MainRow(u, d) # k
         /\ FreeRow(u, d) \in Keys /\ FreeRow(u, d) # k
  BY <1>2, RowTypes, SlotKeysApart
<1>19. MainOK(p)' /\ FreeOK(p)'
  <2>1. MainOK(p) /\ FreeOK(p)
    BY <1>3 DEF SlotOK
  <2>2. MainOK(p)'
    BY <1>2, <1>3, <1>4, <1>10, <1>12, <1>14, <1>16, <1>18, <2>1 DEF MainOK
  <2>3. FreeOK(p)'
    BY <1>2, <1>3, <1>4, <1>10, <1>12, <1>14, <1>16, <1>18, <2>1 DEF FreeOK
  <2>4. QED
    BY <2>2, <2>3
<1>20. MadeOK(p)'
  <2>1. ASSUME NEW m \in Markets, NEW u \in Users, owner'[EntryRow(m, u)] = p
        PROVE  EntryRow(m, u) = k /\ u = f.user
    <3>1. EntryRow(m, u) = k
      BY <1>2, <1>14, <2>1, RowTypes
    <3>2. QED
      BY <1>2, <3>1, KeysApart
  <2>2. QED
    BY <1>2, <1>6, <1>10, <1>13, <2>1 DEF MadeOK
<1>21. QED
  BY <1>11, <1>12, <1>17, <1>19, <1>20, QuietSlots DEF SlotOK

-----------------------------------------------------------------------------
\* A settlement has no slot, and what it writes are entries.
LEMMA SettleSlots ==
  ASSUME NEW p \in Procs, SlotInv, IInv', ~GiveUp(p),
         SettleRead(p) \/ SettleEntries(p) \/ SettleDone(p)
  PROVE  SlotInv'
<1>1. pc[p] \in {"settleRead", "settleEntries", "settleNext"} /\ pc[p] \in SettlePcs
  BY DEF SettleRead, SettleEntries, SettleDone, SettlePcs
<1>2. IInv /\ frame[p].op = "settle" /\ frame[p] \in Frames /\ frame[p] # NoFrame
      /\ pc \in [Procs -> Pcs] /\ frame \in [Procs -> Frames]
  BY <1>1, SettleFacts DEF SlotInv, CallFrames, IInv, Shared
<1>3. PICK next \in {"settleMarket", "settleNext", "commit"} : \E entries :
        /\ pc' = [pc EXCEPT ![p] = next]
        /\ frame' = [frame EXCEPT ![p] = [frame[p] EXCEPT !.entries = entries]]
  <2>1. CASE SettleEntries(p)
    BY <1>2, <2>1 DEF SettleEntries, Goto
  <2>2. CASE SettleRead(p) \/ SettleDone(p)
    <3>1. frame' = frame /\ \E next \in {"settleMarket", "commit"} : pc' = [pc EXCEPT ![p] = next]
      BY <2>2 DEF SettleRead, SettleDone, Proceed, Goto
    <3>2. frame[p] = [frame[p] EXCEPT !.entries = frame[p].entries]
      BY <1>2 DEF Frames
    <3>3. frame' = [frame EXCEPT ![p] = [frame[p] EXCEPT !.entries = frame[p].entries]]
      BY <1>2, <3>1, <3>2
    <3>4. QED
      BY <3>1, <3>3
  <2>3. QED
    BY <2>1, <2>2
<1>3a. PICK entries :
        /\ pc' = [pc EXCEPT ![p] = next]
        /\ frame' = [frame EXCEPT ![p] = [frame[p] EXCEPT !.entries = entries]]
  BY <1>3
<1>4. UNCHANGED rowVars /\ day' = day
  <2>1. UNCHANGED <<rowVars, clockVars>>
    BY DEF SettleRead, SettleEntries, SettleDone, Proceed
  <2>2. QED
    BY <2>1 DEF clockVars
<1>5. PICK f : f = [frame[p] EXCEPT !.entries = entries]
  OBVIOUS
<1>6. f.op = "settle" /\ f.market = frame[p].market /\ f.user = frame[p].user
        /\ f.day = frame[p].day
  BY <1>2, <1>5 DEF Frames
<1>7. OthersKept(p) /\ pc'[p] = next /\ frame'[p] = f
  BY <1>2, <1>3a, <1>5, CallMoved
<1>8. ~HasSlot(p)' /\ ~HasSlot(p) /\ ~EntryMade(p)' /\ ~EntryMade(p)
  BY <1>2, <1>6, <1>7 DEF HasSlot, EntryMade
<1>9. next \notin {"marketRead", "entrySelect"} \cup SlotPcs
        /\ pc[p] \notin {"marketRead", "entrySelect"} \cup SlotPcs
  BY <1>1, <1>3a DEF SlotPcs
<1>10. QED
  BY <1>2, <1>4, <1>6, <1>7, <1>8, <1>9, StaysSlots

\* A row that is no slot is written by a settlement.
LEMMA SettleWrites ==
  ASSUME NEW p \in Procs, SlotInv, IInv', NEW k \in Keys, NEW v, WriteRow(p, k, v),
         \A u \in Users, d \in Days : k # MainRow(u, d) /\ k # FreeRow(u, d),
         frame[p].op = "settle", frame'[p].op = "settle",
         pc'[p] \in {"settleEntries", "settleNext", "append"},
         OthersKept(p), day' = day, MadeOK(p)'
  PROVE  SlotInv'
<1>1. SlotOK(p) /\ IInv /\ owner \in [Keys -> Procs \cup {NoProc}]
  BY RowTypes DEF SlotInv, IInv, Shared, RowsInv
<1>2. OthersRest(p)
  BY <1>1, RowStepRests
<1>3. db' = db /\ owner' = [owner EXCEPT ![k] = p]
  BY DEF WriteRow
<1>4. ~HasSlot(p) /\ ~HasSlot(p)'
  BY DEF HasSlot
<1>5. \A u \in Users, d \in Days : owner[MainRow(u, d)] # p /\ owner[FreeRow(u, d)] # p
  BY <1>1, <1>4 DEF SlotOK, MainOK, FreeOK, ForSlot
<1>6. \A u \in Users, d \in Days : owner'[MainRow(u, d)] # p /\ owner'[FreeRow(u, d)] # p
  BY <1>1, <1>3, <1>5, RowTypes
<1>7. PcOK(p)'
  BY DEF PcOK
<1>8. MainOK(p)' /\ FreeOK(p)'
  BY <1>4, <1>6 DEF MainOK, FreeOK, ForSlot
<1>9. QED
  BY <1>2, <1>3, <1>7, <1>8, QuietSlots DEF SlotOK

LEMMA SettleMarketSlots ==
  ASSUME NEW p \in Procs, SlotInv, IInv', SettleMarket(p)
  PROVE  SlotInv'
<1>1. pc[p] \in SettlePcs
  BY DEF SettleMarket, SettlePcs
<1>2. /\ IInv /\ frame[p].op = "settle" /\ frame[p].market \in Markets
      /\ pc \in [Procs -> Pcs] /\ frame \in [Procs -> Frames]
  BY <1>1, SettleFacts DEF SlotInv, IInv, Shared
<1>3. /\ pc' = [pc EXCEPT ![p] = "settleEntries"] /\ frame' = frame /\ day' = day
      /\ \E v : WriteRow(p, MarketRow(frame[p].market), v)
  BY DEF SettleMarket, Goto, clockVars
<1>4. OthersKept(p) /\ pc'[p] = "settleEntries" /\ frame'[p] = frame[p]
  BY <1>2, <1>3 DEF OthersKept
<1>5. MadeOK(p)'
  <2>1. \A m \in Markets, u \in Users : owner'[EntryRow(m, u)] # p
    BY <1>4 DEF IInv, LocksOK, LatePcs
  <2>2. ~EntryMade(p)'
    BY <1>4 DEF EntryMade
  <2>3. QED
    BY <2>1, <2>2 DEF MadeOK
<1>6. PICK k : k = MarketRow(frame[p].market)
  OBVIOUS
<1>7. k \in Keys /\ \A u \in Users, d \in Days : k # MainRow(u, d) /\ k # FreeRow(u, d)
  BY <1>2, <1>6, RowTypes, SlotKeysApart
<1>8. QED
  BY <1>2, <1>3, <1>4, <1>5, <1>6, <1>7, SettleWrites

\* An entry gets its result and keeps its day.
LEMMA SettleNextSlots ==
  ASSUME NEW p \in Procs, SlotInv, IInv', SettleNext(p)
  PROVE  SlotInv'
<1>1. pc[p] = "settleNext" /\ pc[p] \in SettlePcs
  BY DEF SettleNext, SettlePcs
<1>2. /\ IInv /\ frame[p].op = "settle" /\ frame[p].market \in Markets /\ EntriesOK(p)
      /\ frame[p].entries \subseteq Users /\ frame[p] \in Frames /\ frame[p] # NoFrame
      /\ pc \in [Procs -> Pcs] /\ frame \in [Procs -> Frames]
      /\ RowsInv(VersionsOf) /\ SlotOK(p) /\ owner \in [Keys -> Procs \cup {NoProc}]
      /\ DOMAIN new = Keys
  BY <1>1, SettleFacts, RowTypes DEF SlotInv, IInv, Shared, CallFrames, RowsInv
<1> DEFINE m == frame[p].market
<1>3. PICK u \in frame[p].entries, status \in {"WON", "LOST"} :
        /\ WriteRow(p, EntryRow(m, u), [Sees(p, EntryRow(m, u)) EXCEPT !.status = status])
        /\ frame' = [frame EXCEPT ![p].entries = @ \ {u}]
        /\ pc' = pc \/ pc' = [pc EXCEPT ![p] = "append"]
  BY DEF SettleNext, Goto
<1>4. day' = day
  BY DEF SettleNext, clockVars
<1>5. PICK k : k = EntryRow(m, u)
  OBVIOUS
<1>6. /\ u \in Users /\ k \in Keys /\ db[k] \in OpenVersions
      /\ \A w \in Users, d \in Days : k # MainRow(w, d) /\ k # FreeRow(w, d)
  BY <1>2, <1>3, <1>5, RowTypes, KeysApart DEF EntriesOK
<1>7. PICK e : e = Sees(p, k)
  OBVIOUS
<1>8. e \in EntryVersions /\ e.day = db[k].day
  <2>1. CASE owner[k] = p
    BY <1>2, <1>5, <1>6, <1>7, <2>1 DEF SlotOK, MadeOK, Sees
  <2>2. CASE owner[k] # p
    BY <1>6, <1>7, <2>2 DEF Sees, OpenVersions
  <2>3. QED
    BY <2>1, <2>2
<1>9. PICK v : v = [e EXCEPT !.status = status]
  OBVIOUS
<1>10. v \in EntryVersions /\ v.day = db[k].day /\ WriteRow(p, k, v)
  BY <1>3, <1>5, <1>7, <1>8, <1>9 DEF EntryVersions
<1>11. PICK next \in {"settleNext", "append"} : pc' = [pc EXCEPT ![p] = next]
  <2>1. pc = [pc EXCEPT ![p] = "settleNext"]
    BY <1>1, <1>2
  <2>2. QED
    BY <1>3, <2>1
<1>12. PICK f : f = [frame[p] EXCEPT !.entries = @ \ {u}]
  OBVIOUS
<1>13. f.op = "settle" /\ frame' = [frame EXCEPT ![p] = f]
  BY <1>2, <1>3, <1>12 DEF Frames
<1>14. OthersKept(p) /\ pc'[p] = next /\ frame'[p] = f
  BY <1>2, <1>11, <1>13, CallMoved
<1>15. db' = db /\ owner' = [owner EXCEPT ![k] = p] /\ new' = [new EXCEPT ![k] = v]
  BY <1>10 DEF WriteRow
<1>16. MadeOK(p)'
  <2>1. ~EntryMade(p)'
    BY <1>13, <1>14 DEF EntryMade
  <2>2. ASSUME NEW n \in Markets, NEW w \in Users, owner'[EntryRow(n, w)] = p
        PROVE  new'[EntryRow(n, w)] \in EntryVersions
                 /\ new'[EntryRow(n, w)].day = db'[EntryRow(n, w)].day
    <3>1. CASE EntryRow(n, w) = k
      BY <1>2, <1>6, <1>10, <1>15, <3>1
    <3>2. CASE EntryRow(n, w) # k
      <4>1. owner[EntryRow(n, w)] = p /\ new'[EntryRow(n, w)] = new[EntryRow(n, w)]
        BY <1>2, <1>15, <2>2, <3>2, RowTypes
      <4>2. QED
        BY <1>2, <1>15, <4>1 DEF SlotOK, MadeOK
    <3>3. QED
      BY <3>1, <3>2
  <2>3. QED
    BY <1>13, <1>14, <2>1, <2>2 DEF MadeOK
<1>17. QED
  BY <1>2, <1>4, <1>6, <1>10, <1>11, <1>13, <1>14, <1>16, SettleWrites

\* appendPointsLedger.
LEMMA AppendSlots ==
  ASSUME NEW p \in Procs, SlotInv, IInv',
         AppendRead(p) \/ AppendInsert(p, IF frame[p].op = "settle" THEN "settleNext" ELSE "commit")
  PROVE  SlotInv'
<1>1. /\ UNCHANGED <<rowVars, frame>> /\ day' = day
      /\ pc[p] \in {"append", "insert"}
  <2>1. CASE AppendRead(p)
    BY <2>1 DEF AppendRead, clockVars
  <2>2. CASE ~AppendRead(p)
    BY <2>2 DEF AppendInsert
  <2>3. QED
    BY <2>1, <2>2
<1>2. PICK next \in {"append", "insert", "settleNext", "commit"} :
        /\ pc' = [pc EXCEPT ![p] = next]
        /\ next = "settleNext" => frame[p].op = "settle"
        /\ next = "commit" => frame[p].op # "settle"
  <2>1. CASE AppendRead(p)
    BY <2>1 DEF AppendRead, Goto
  <2>2. CASE ~AppendRead(p)
    BY <2>2 DEF AppendInsert, Goto
  <2>3. QED
    BY <2>1, <2>2
<1>3. IInv /\ pc \in [Procs -> Pcs] /\ frame \in [Procs -> Frames]
  BY DEF SlotInv, IInv, Shared
<1>4. OthersKept(p) /\ pc'[p] = next /\ frame'[p] = frame[p]
  BY <1>1, <1>2, <1>3 DEF OthersKept
<1>5. (HasSlot(p)' <=> HasSlot(p)) /\ (EntryMade(p)' <=> EntryMade(p))
  BY <1>1, <1>2, <1>4 DEF HasSlot, EntryMade
<1>6. next \notin {"marketRead", "entrySelect"} \cup SlotPcs
        /\ pc[p] \notin {"marketRead", "entrySelect"} \cup SlotPcs
  BY <1>1, <1>2 DEF SlotPcs
<1>7. QED
  BY <1>1, <1>4, <1>5, <1>6, StaysSlots

-----------------------------------------------------------------------------
\* What the COMMIT of a submission publishes, table by table.
LEMMA SubmitPublishes ==
  ASSUME NEW p \in Procs, SlotInv, Commit(p), frame[p].op = "submit"
  PROVE  /\ frame[p].user \in Users /\ frame[p].market \in Markets /\ frame[p].day \in Days
         /\ db[EntryRow(frame[p].market, frame[p].user)] = NoRow
         /\ \A m \in Markets, u \in Users :
              IF m = frame[p].market /\ u = frame[p].user
                THEN db'[EntryRow(m, u)] \in EntryVersions
                       /\ db'[EntryRow(m, u)].day = frame[p].day
                ELSE db'[EntryRow(m, u)] = db[EntryRow(m, u)]
         /\ \A u \in Users, d \in Days :
              IF Kind[frame[p].market] = "MAIN" /\ u = frame[p].user /\ d = frame[p].day
                THEN UsedIn(db'[MainRow(u, d)]) = UsedIn(db[MainRow(u, d)]) + 1
                       /\ UsedIn(db[MainRow(u, d)]) < MainMaxPerDay
                ELSE db'[MainRow(u, d)] = db[MainRow(u, d)]
         /\ \A u \in Users, d \in Days :
              IF Kind[frame[p].market] = "FREE_DAILY" /\ u = frame[p].user /\ d = frame[p].day
                THEN db'[FreeRow(u, d)] # NoRow /\ db[FreeRow(u, d)] = NoRow
                ELSE db'[FreeRow(u, d)] = db[FreeRow(u, d)]
<1> DEFINE f == frame[p]
<1>1. /\ IInv /\ SlotOK(p) /\ LocksOK(p) /\ LocalOK(p) /\ pc[p] = "commit" /\ CommitRows(p)
      /\ f \in Frames /\ DOMAIN db = Keys /\ day \in Days
  BY RowTypes DEF SlotInv, IInv, Shared, RowsInv, Commit, CommitLedger, Days
<1>2. f.user \in Users /\ f.market \in Markets /\ f.day = day
  BY <1>1, FrameTypes DEF LocalOK, CallFrames, SlotOK, PcOK
<1>3. EntryMade(p) /\ HasSlot(p)
  BY <1>1 DEF EntryMade, HasSlot
<1>4. \A k \in Keys : db'[k] = IF owner[k] = p THEN new[k] ELSE db[k]
  BY <1>1 DEF CommitRows, Sees
<1>5. ASSUME NEW m \in Markets, NEW u \in Users
      PROVE  /\ owner[EntryRow(m, u)] = p <=> m = f.market /\ u = f.user
             /\ owner[EntryRow(m, u)] = p =>
                  /\ db[EntryRow(m, u)] = NoRow
                  /\ new[EntryRow(m, u)] \in EntryVersions /\ new[EntryRow(m, u)].day = f.day
  BY <1>1, <1>2, <1>3 DEF SlotOK, MadeOK, LocksOK
<1>6. ASSUME NEW u \in Users, NEW d \in Days
      PROVE  /\ owner[MainRow(u, d)] = p <=> Kind[f.market] = "MAIN" /\ u = f.user /\ d = f.day
             /\ owner[MainRow(u, d)] = p =>
                  /\ new[MainRow(u, d)] = [used |-> UsedIn(db[MainRow(u, d)]) + 1]
                  /\ UsedIn(db[MainRow(u, d)]) < MainMaxPerDay
  BY <1>1, <1>2, <1>3 DEF SlotOK, MainOK, ForSlot
<1>7. ASSUME NEW u \in Users, NEW d \in Days
      PROVE  /\ owner[FreeRow(u, d)] = p <=> Kind[f.market] = "FREE_DAILY" /\ u = f.user /\ d = f.day
             /\ owner[FreeRow(u, d)] = p => db[FreeRow(u, d)] = NoRow /\ new[FreeRow(u, d)] # NoRow
  BY <1>1, <1>2, <1>3 DEF SlotOK, FreeOK, ForSlot
<1>8. ASSUME NEW u \in Users, NEW d \in Days, owner[MainRow(u, d)] = p
      PROVE  UsedIn(new[MainRow(u, d)]) = UsedIn(db[MainRow(u, d)]) + 1
  <2>1. MainRow(u, d) \in Keys /\ VersionsOf[MainRow(u, d)] = SlotVersions
    BY RowTypes
  <2>2. db[MainRow(u, d)] \in SlotVersions \cup {NoRow}
    BY <1>1, <2>1, RowTypes DEF IInv, Shared, RowsInv
  <2>3. UsedIn(db[MainRow(u, d)]) \in Nat
    BY <2>2 DEF UsedIn, SlotVersions
  <2>4. [used |-> UsedIn(db[MainRow(u, d)]) + 1] \in SlotVersions
    BY <2>3 DEF SlotVersions
  <2>5. new[MainRow(u, d)] # NoRow /\ new[MainRow(u, d)].used = UsedIn(db[MainRow(u, d)]) + 1
    BY <1>6, <1>8, <2>4, NoRowAssumption
  <2>6. QED
    BY <2>5 DEF UsedIn
<1>9. \A m \in Markets, u \in Users :
        db'[EntryRow(m, u)] = IF owner[EntryRow(m, u)] = p THEN new[EntryRow(m, u)]
                              ELSE db[EntryRow(m, u)]
  BY <1>4, RowTypes
<1>10. \A u \in Users, d \in Days :
         /\ db'[MainRow(u, d)] = IF owner[MainRow(u, d)] = p THEN new[MainRow(u, d)]
                                 ELSE db[MainRow(u, d)]
         /\ db'[FreeRow(u, d)] = IF owner[FreeRow(u, d)] = p THEN new[FreeRow(u, d)]
                                 ELSE db[FreeRow(u, d)]
  BY <1>4, RowTypes
<1>11. ASSUME NEW u \in Users, NEW d \in Days
       PROVE  IF Kind[f.market] = "MAIN" /\ u = f.user /\ d = f.day
                THEN UsedIn(db'[MainRow(u, d)]) = UsedIn(db[MainRow(u, d)]) + 1
                       /\ UsedIn(db[MainRow(u, d)]) < MainMaxPerDay
                ELSE db'[MainRow(u, d)] = db[MainRow(u, d)]
  BY <1>6, <1>8, <1>10
<1>12. ASSUME NEW u \in Users, NEW d \in Days
       PROVE  IF Kind[f.market] = "FREE_DAILY" /\ u = f.user /\ d = f.day
                THEN db'[FreeRow(u, d)] # NoRow /\ db[FreeRow(u, d)] = NoRow
                ELSE db'[FreeRow(u, d)] = db[FreeRow(u, d)]
  BY <1>7, <1>10
<1>13. ASSUME NEW m \in Markets, NEW u \in Users
       PROVE  IF m = f.market /\ u = f.user
                THEN db'[EntryRow(m, u)] \in EntryVersions /\ db'[EntryRow(m, u)].day = f.day
                ELSE db'[EntryRow(m, u)] = db[EntryRow(m, u)]
  BY <1>5, <1>9
<1>14. QED
  BY <1>1, <1>2, <1>5, <1>11, <1>12, <1>13

\* The entry joins the entries of its kind and day, and no others.
LEMMA EnteredBySubmit ==
  ASSUME NEW p \in Procs, SlotInv, Commit(p), frame[p].op = "submit",
         NEW u \in Users, NEW d \in Days, NEW kind
  PROVE  /\ frame[p].market \notin Entered(u, kind, d) \/ u # frame[p].user
         /\ Entered(u, kind, d)' =
              IF kind = Kind[frame[p].market] /\ u = frame[p].user /\ d = frame[p].day
                THEN Entered(u, kind, d) \cup {frame[p].market}
                ELSE Entered(u, kind, d)
<1> DEFINE f == frame[p]
<1>1. /\ f.user \in Users /\ f.market \in Markets /\ f.day \in Days
      /\ db[EntryRow(f.market, f.user)] = NoRow
      /\ \A m \in Markets :
           IF m = f.market /\ u = f.user
             THEN db'[EntryRow(m, u)] \in EntryVersions /\ db'[EntryRow(m, u)].day = f.day
             ELSE db'[EntryRow(m, u)] = db[EntryRow(m, u)]
  BY SubmitPublishes
<1>2. f.market \notin Entered(u, kind, d) \/ u # f.user
  BY <1>1 DEF Entered, HasEntry
<1>3. \A m : m \in Entered(u, kind, d)' <=>
        m \in Entered(u, kind, d)
          \/ (m = f.market /\ kind = Kind[f.market] /\ u = f.user /\ d = f.day)
  <2>1. ASSUME NEW m \in Markets
        PROVE  m \in Entered(u, kind, d)' <=>
                 m \in Entered(u, kind, d)
                   \/ (m = f.market /\ kind = Kind[f.market] /\ u = f.user /\ d = f.day)
    <3>1. CASE m = f.market /\ u = f.user
      <4>1. db'[EntryRow(m, u)] # NoRow /\ db'[EntryRow(m, u)].day = f.day
        BY <1>1, <3>1, NoRowAssumption
      <4>2. m \notin Entered(u, kind, d)
        BY <1>2, <3>1
      <4>3. QED
        BY <3>1, <4>1, <4>2 DEF Entered, HasEntry
    <3>2. CASE ~(m = f.market /\ u = f.user)
      <4>1. db'[EntryRow(m, u)] = db[EntryRow(m, u)]
        BY <1>1, <3>2
      <4>2. QED
        BY <3>2, <4>1 DEF Entered, HasEntry
    <3>3. QED
      BY <3>1, <3>2
  <2>2. \A m : m \in Entered(u, kind, d)' \/ m \in Entered(u, kind, d) => m \in Markets
    BY DEF Entered
  <2>3. QED
    BY <1>1, <2>1, <2>2
<1>4. CASE kind = Kind[f.market] /\ u = f.user /\ d = f.day
  <2>1. \A m : m \in Entered(u, kind, d)' <=> m \in Entered(u, kind, d) \cup {f.market}
    BY <1>3, <1>4
  <2>2. Entered(u, kind, d)' = Entered(u, kind, d) \cup {f.market}
    BY <2>1
  <2>3. QED
    BY <1>2, <1>4, <2>2
<1>5. CASE ~(kind = Kind[f.market] /\ u = f.user /\ d = f.day)
  <2>1. \A m : m \in Entered(u, kind, d)' <=> m \in Entered(u, kind, d)
    BY <1>3, <1>5
  <2>2. Entered(u, kind, d)' = Entered(u, kind, d)
    BY <2>1
  <2>3. QED
    BY <1>2, <1>5, <2>2
<1>6. QED
  BY <1>4, <1>5

\* A counter and the number of its entries go up together.
LEMMA SubmitCounts ==
  ASSUME NEW p \in Procs, SlotInv, Commit(p), frame[p].op = "submit",
         NEW u \in Users, NEW d \in Days
  PROVE  CountsOK(u, d)'
<1> DEFINE f == frame[p]
           mine(kind) == kind = Kind[f.market] /\ u = f.user /\ d = f.day
           main == Entered(u, "MAIN", d)
           free == Entered(u, "FREE_DAILY", d)
<1>1. CountsOK(u, d)
  BY DEF SlotInv
<1>2. main' = IF mine("MAIN") THEN main \cup {f.market} ELSE main
  BY EnteredBySubmit
<1>3. free' = IF mine("FREE_DAILY") THEN free \cup {f.market} ELSE free
  BY EnteredBySubmit
<1>4. mine("MAIN") \/ mine("FREE_DAILY") => f.market \notin main /\ f.market \notin free
  BY EnteredBySubmit
<1>5. IF mine("MAIN")
        THEN UsedIn(db'[MainRow(u, d)]) = UsedIn(db[MainRow(u, d)]) + 1
               /\ UsedIn(db[MainRow(u, d)]) < MainMaxPerDay
        ELSE db'[MainRow(u, d)] = db[MainRow(u, d)]
  BY SubmitPublishes
<1>6. IF mine("FREE_DAILY")
        THEN db'[FreeRow(u, d)] # NoRow /\ db[FreeRow(u, d)] = NoRow
        ELSE db'[FreeRow(u, d)] = db[FreeRow(u, d)]
  BY SubmitPublishes
<1>7. /\ IsFiniteSet(main) /\ Cardinality(main) \in Nat
      /\ Cardinality(main) = UsedIn(db[MainRow(u, d)])
      /\ UsedIn(db[MainRow(u, d)]) <= MainMaxPerDay
      /\ IsFiniteSet(free) /\ Cardinality(free) \in Nat
      /\ Cardinality(free) = IF db[FreeRow(u, d)] = NoRow THEN 0 ELSE 1
  BY <1>1, FS_CardinalityType DEF CountsOK
<1>8. /\ IsFiniteSet(main') /\ Cardinality(main') = UsedIn(db'[MainRow(u, d)])
      /\ UsedIn(db'[MainRow(u, d)]) <= MainMaxPerDay
  <2>1. CASE mine("MAIN")
    <3>1. IsFiniteSet(main \cup {f.market})
            /\ Cardinality(main \cup {f.market}) = Cardinality(main) + 1
      BY <1>4, <1>7, <2>1, FS_AddElement
    <3>2. UsedIn(db'[MainRow(u, d)]) <= MainMaxPerDay
      BY <1>5, <1>7, <2>1, PredictionAssumption
    <3>3. QED
      BY <1>2, <1>5, <1>7, <2>1, <3>1, <3>2
  <2>2. CASE ~mine("MAIN")
    BY <1>2, <1>5, <1>7, <2>2
  <2>3. QED
    BY <2>1, <2>2
<1>9. IsFiniteSet(free') /\ Cardinality(free') = IF db'[FreeRow(u, d)] = NoRow THEN 0 ELSE 1
  <2>1. CASE mine("FREE_DAILY")
    <3>1. IsFiniteSet(free \cup {f.market})
            /\ Cardinality(free \cup {f.market}) = Cardinality(free) + 1
      BY <1>4, <1>7, <2>1, FS_AddElement
    <3>2. db'[FreeRow(u, d)] # NoRow /\ Cardinality(free) = 0
      BY <1>6, <1>7, <2>1
    <3>3. free' = free \cup {f.market}
      BY <1>3, <2>1
    <3>4. QED
      BY <3>1, <3>2, <3>3
  <2>2. CASE ~mine("FREE_DAILY")
    BY <1>3, <1>6, <1>7, <2>2
  <2>3. QED
    BY <2>1, <2>2
<1>10. QED
  BY <1>8, <1>9 DEF CountsOK

\* A settlement publishes results; it makes no entry and uses no slot.
LEMMA SettleCounts ==
  ASSUME NEW p \in Procs, SlotInv, Commit(p), frame[p].op = "settle",
         NEW u \in Users, NEW d \in Days
  PROVE  CountsOK(u, d)'
<1>1. /\ SlotOK(p) /\ LocksOK(p) /\ CommitRows(p) /\ DOMAIN db = Keys /\ CountsOK(u, d)
  BY RowTypes DEF SlotInv, IInv, Shared, RowsInv, Commit, CommitLedger
<1>2. \A k \in Keys : db'[k] = IF owner[k] = p THEN new[k] ELSE db[k]
  BY <1>1 DEF CommitRows, Sees
<1>3. db'[MainRow(u, d)] = db[MainRow(u, d)] /\ db'[FreeRow(u, d)] = db[FreeRow(u, d)]
  <2>1. ~HasSlot(p)
    BY DEF HasSlot
  <2>2. owner[MainRow(u, d)] # p /\ owner[FreeRow(u, d)] # p
    BY <1>1, <2>1 DEF SlotOK, MainOK, FreeOK, ForSlot
  <2>3. QED
    BY <1>2, <2>2, RowTypes
<1>4. ASSUME NEW m \in Markets
      PROVE  /\ HasEntry(m, u)' <=> HasEntry(m, u)
             /\ HasEntry(m, u) => db'[EntryRow(m, u)].day = db[EntryRow(m, u)].day
  <2>1. db'[EntryRow(m, u)] = IF owner[EntryRow(m, u)] = p THEN new[EntryRow(m, u)]
                              ELSE db[EntryRow(m, u)]
    BY <1>2, RowTypes
  <2>2. owner[EntryRow(m, u)] = p =>
          /\ db[EntryRow(m, u)] \in OpenVersions
          /\ new[EntryRow(m, u)] \in EntryVersions
          /\ new[EntryRow(m, u)].day = db[EntryRow(m, u)].day
    BY <1>1 DEF LocksOK, SlotOK, MadeOK
  <2>3. QED
    BY <2>1, <2>2, NoRowAssumption DEF HasEntry, OpenVersions
<1>5. \A kind : Entered(u, kind, d)' = Entered(u, kind, d)
  BY <1>4 DEF Entered
<1>6. QED
  BY <1>1, <1>3, <1>5 DEF CountsOK

LEMMA CommitSlots ==
  ASSUME NEW p \in Procs, SlotInv, IInv', Commit(p)
  PROVE  SlotInv'
<1>1. IInv /\ pc[p] = "commit" /\ LocalOK(p) /\ frame[p] \in Frames
  BY DEF SlotInv, IInv, Shared, Commit
<1>2. "idle" \in Pcs /\ NoFrame \in Frames
  BY FrameTypes DEF Pcs
<1>3. OthersKept(p) /\ pc'[p] = "idle" /\ frame'[p] = NoFrame
  BY <1>1, <1>2, CommitKeeps DEF IInv
<1>4. CommitRows(p) /\ day' = day
  BY DEF Commit, CommitLedger, clockVars
<1>5. OthersRest(p)
  BY <1>1, <1>3, <1>4, RowStepRests
<1>6. SlotOK(p)'
  BY <1>1, <1>3, <1>4, EndOwnRows, EndSlots
<1>7. frame[p].op \in {"submit", "settle"}
  BY <1>1, FrameTypes DEF LocalOK, CallFrames
<1>8. \A u \in Users, d \in Days : CountsOK(u, d)'
  BY <1>7, SubmitCounts, SettleCounts
<1>9. \A q \in Procs : SlotOK(q)'
  BY <1>5, <1>6, OthersSlots
<1>10. QED
  BY <1>8, <1>9 DEF SlotInv

\* A step in which no handler takes part: where a day ends only between calls,
\* nobody is left with a slot of the day before.
LEMMA IdleSlots ==
  ASSUME MidCallRollover = FALSE, SlotInv, IInv', NextDay \/ UNCHANGED vars
  PROVE  SlotInv'
<1>1. UNCHANGED <<rowVars, pc, frame>>
  BY DEF NextDay, vars
<1>2. ASSUME NEW p \in Procs PROVE SlotOK(p)'
  <2>1. SlotOK(p) /\ LocalOK(p)
    BY DEF SlotInv, IInv
  <2>2. MainOK(p)' /\ FreeOK(p)' /\ MadeOK(p)'
    BY <1>1, <2>1 DEF SlotOK, MainOK, FreeOK, MadeOK, ForSlot, HasSlot, EntryMade, rowVars
  <2>3. PcOK(p)'
    <3>1. CASE NextDay
      <4>1. pc[p] = "idle" /\ frame[p] = NoFrame
        BY <2>1, <3>1 DEF NextDay, LocalOK
      <4>2. QED
        BY <1>1, <4>1, FrameTypes DEF PcOK
    <3>2. CASE UNCHANGED vars
      BY <2>1, <3>2 DEF SlotOK, PcOK, vars, clockVars
    <3>3. QED
      BY <3>1, <3>2
  <2>4. QED
    BY <2>2, <2>3 DEF SlotOK
<1>3. \A u \in Users, d \in Days : CountsOK(u, d)'
  BY <1>1, CountsStay DEF SlotInv, rowVars
<1>4. QED
  BY <1>2, <1>3 DEF SlotInv

LEMMA SlotsStay == MidCallRollover = FALSE /\ SlotInv /\ [Next]_vars => SlotInv'
<1> SUFFICES ASSUME MidCallRollover = FALSE, SlotInv, [Next]_vars PROVE SlotInv'
  OBVIOUS
<1>1. IInv'
  BY StepKeeps DEF SlotInv
<1>2. ASSUME NEW p \in Procs, Start(p) PROVE SlotInv'
  BY <1>2, StartSlots
<1>3. ASSUME NEW p \in Procs, Step(p) PROVE SlotInv'
  <2>1. CASE GiveUp(p)
    BY <2>1, GiveUpSlots
  <2>2. CASE ~GiveUp(p) /\ (MarketRead(p) \/ EntrySelect(p) \/ FreeSelect(p))
    BY <1>1, <2>2, ReadsSlots
  <2>3. CASE ~GiveUp(p) /\ (MainSelect(p) \/ MainInsert(p))
    BY <1>1, <2>3, ReadsSlots, MainSlots
  <2>4. CASE ~GiveUp(p) /\ (FreeInsert(p) \/ LastPick(p) \/ LastLock(p) \/ EntryInsert(p))
    BY <1>1, <2>4, FreeSlots, LastSlots, EntrySlots
  <2>5. CASE ~GiveUp(p) /\ (SettleRead(p) \/ SettleEntries(p) \/ SettleDone(p))
    BY <1>1, <2>5, SettleSlots
  <2>6. CASE SettleMarket(p) \/ SettleNext(p)
    BY <1>1, <2>6, SettleMarketSlots, SettleNextSlots
  <2>7. CASE \/ AppendRead(p) \/ Commit(p)
             \/ AppendInsert(p, IF frame[p].op = "settle" THEN "settleNext" ELSE "commit")
    BY <1>1, <2>7, AppendSlots, CommitSlots
  <2>8. QED
    BY <1>3, <2>1, <2>2, <2>3, <2>4, <2>5, <2>6, <2>7 DEF Step
<1>4. ASSUME NEW p \in Procs, Crash(p) PROVE SlotInv'
  BY <1>4, GiveUpSlots DEF Crash
<1>5. CASE NextDay \/ UNCHANGED vars
  BY <1>1, <1>5, IdleSlots
<1>6. QED
  BY <1>2, <1>3, <1>4, <1>5 DEF Next, Quiet

\* Before the first call nobody has entered anything.
LEMMA InitSlots == Init => SlotInv
<1> SUFFICES ASSUME Init PROVE SlotInv
  OBVIOUS
<1>1. IInv
  BY InitHolds
<1>2. /\ pc = [p \in Procs |-> "idle"] /\ frame = [p \in Procs |-> NoFrame]
      /\ owner = [k \in Keys |-> NoProc]
      /\ \A k \in Keys : k \notin MarketKeys /\ k \notin StateKeys => db[k] = NoRow
  BY DEF Init, LedgerInit, RowsInit
<1>3. ASSUME NEW p \in Procs PROVE SlotOK(p)
  <2>1. \A k \in Keys : owner[k] # p
    BY <1>2, LedgerAssumption
  <2>2. ~HasSlot(p) /\ PcOK(p)
    BY <1>2, FrameTypes DEF HasSlot, PcOK
  <2>3. QED
    BY <1>1, <2>1, <2>2, RowTypes, NoSlot
<1>4. ASSUME NEW u \in Users, NEW d \in Days PROVE CountsOK(u, d)
  <2>1. \A m \in Markets : EntryRow(m, u) \notin MarketKeys /\ EntryRow(m, u) \notin StateKeys
    BY DEF EntryRow, MarketKeys, MarketRow, StateKeys, StateRow
  <2>2. MainRow(u, d) \notin MarketKeys \cup StateKeys /\ FreeRow(u, d) \notin MarketKeys \cup StateKeys
    BY DEF MainRow, FreeRow, MarketKeys, MarketRow, StateKeys, StateRow
  <2>3. db[MainRow(u, d)] = NoRow /\ db[FreeRow(u, d)] = NoRow
          /\ \A m \in Markets : ~HasEntry(m, u)
    BY <1>2, <2>1, <2>2, RowTypes DEF HasEntry
  <2>4. \A kind : Entered(u, kind, d) = {}
    BY <2>3 DEF Entered
  <2>5. QED
    BY <2>3, <2>4, FS_EmptySet, PredictionAssumption DEF CountsOK, UsedIn
<1>5. QED
  BY <1>1, <1>3, <1>4 DEF SlotInv

\* The daily slots are not oversold, and none is used up by a submission that
\* failed, for any number of instances, users, markets and days: a submission's
\* slot and its entry are published by the same COMMIT.  The day of the entry
\* is stamped after the slot is reserved, so a day may not end within a call.
THEOREM SlotsAreCounted ==
  ASSUME MidCallRollover = FALSE
  PROVE  Spec => []DailySlots
<1>1. SlotInv => DailySlots
  BY DEF SlotInv, CountsOK, DailySlots, UsedIn
<1>2. SlotInv /\ [Next]_vars => SlotInv'
  BY SlotsStay
<1>3. QED
  BY <1>1, <1>2, InitSlots, PTL DEF Spec

-----------------------------------------------------------------------------
\* The stakes and the payouts.  Two books are kept of each user, in the ledger
\* and in the entries: what was taken as stakes and what was paid to winners.
\* The ledger lags behind nothing that is committed; within a transaction the
\* points it has appended, and those of the append that comes next, are what
\* the entries it has written are worth more than the committed ones.
Books == {"stake", "win"}

EventsOf(b) ==
  IF b = "stake" THEN {"PREDICTION_STAKE"}
  ELSE {"PREDICTION_STANDARD_WIN", "PREDICTION_MAIN_WIN", "PREDICTION_FREE_WIN"}

\* What an entry on m adds to a book.
Worth(b, m, entry) ==
  IF entry = NoRow THEN 0
  ELSE IF b = "stake" THEN entry.stake
  ELSE IF entry.status = "WON" THEN Payout(m, entry.stake) ELSE 0

\* A stake is booked with its sign changed.
Signed(b, x) == IF b = "stake" THEN -x ELSE x

\* What p's transaction has written of u's entry, in points.
Change(p, b, u) ==
  LET m == frame[p].market
      k == EntryRow(m, u)
  IN  IF pc[p] \in LatePcs THEN Worth(b, m, Sees(p, k)) - Worth(b, m, db[k]) ELSE 0

\* At most one append is due, and the points moved are those of the entries.
EntryOK(p) ==
  /\ pc[p] \notin {"append", "insert"} => todo[p] = <<>>
  /\ Len(todo[p]) <= 1
  /\ frame[p].op = "settle" =>
       \A u \in frame[p].entries : owner[EntryRow(frame[p].market, u)] # p
  /\ \A b \in Books, u \in Users :
       /\ FiniteFor(p, EventsOf(b), u)
       /\ Moved(p, EventsOf(b), u) = Signed(b, Change(p, b, u))

EnteredBy(u) == {m \in Markets : HasEntry(m, u)}

WorthOf(b, u) == [m \in Markets |-> Worth(b, m, db[EntryRow(m, u)])]

\* The committed books of a user agree.
BookedOK(b, u) ==
  /\ IsFiniteSet(EnteredBy(u)) /\ IsFiniteSet(RowsFor(ledger, EventsOf(b), u))
  /\ PointsFor(EventsOf(b), u) = Signed(b, Total(WorthOf(b, u), EnteredBy(u)))

EInv ==
  /\ IInv /\ IdsOK
  /\ \A p \in Procs : EntryOK(p)
  /\ \A b \in Books, u \in Users : BookedOK(b, u)

\* p leaves the transactions of the others alone.
OthersApart(p) ==
  /\ OthersRest(p)
  /\ \A q \in Procs \ {p} : todo'[q] = todo[q] /\ open'[q] = open[q]

LEMMA WorthIsNat ==
  ASSUME NEW b, NEW m \in Markets, NEW entry \in EntryVersions \cup {NoRow}
  PROVE  Worth(b, m, entry) \in Nat
<1>1. Kind[m] \in {"STANDARD", "MAIN", "FREE_DAILY"}
  BY PredictionAssumption DEF Kinds
<1>2. CASE entry = NoRow
  BY <1>2 DEF Worth
<1>3. CASE entry # NoRow
  <2>1. entry.stake \in Nat
    BY <1>3 DEF EntryVersions
  <2>2. Payout(m, entry.stake) \in Nat
    BY <1>1, <2>1, PredictionAssumption DEF Payout
  <2>3. QED
    BY <2>1, <2>2 DEF Worth
<1>4. QED
  BY <1>2, <1>3

\* What is committed of an entry, and what a process sees of it.
LEMMA EntryTypes ==
  ASSUME IInv, NEW m \in Markets, NEW u \in Users
  PROVE  /\ EntryRow(m, u) \in Keys
         /\ db[EntryRow(m, u)] \in EntryVersions \cup {NoRow}
         /\ \A p : Sees(p, EntryRow(m, u)) \in EntryVersions \cup {NoRow}
         /\ \A b : Worth(b, m, db[EntryRow(m, u)]) \in Nat
         /\ \A p, b : Worth(b, m, Sees(p, EntryRow(m, u))) \in Nat
<1>1. /\ EntryRow(m, u) \in Keys
      /\ db[EntryRow(m, u)] \in EntryVersions \cup {NoRow}
      /\ new[EntryRow(m, u)] \in EntryVersions \cup {NoRow}
  BY RowTypes DEF IInv, Shared, RowsInv
<1>2. \A p : Sees(p, EntryRow(m, u)) \in EntryVersions \cup {NoRow}
  BY <1>1 DEF Sees
<1>3. QED
  BY <1>1, <1>2, WorthIsNat

\* An entry p has not written has not changed.
LEMMA NoChange ==
  ASSUME NEW p \in Procs, IInv, NEW b, NEW u \in Users,
         pc[p] \notin LatePcs \/ owner[EntryRow(frame[p].market, u)] # p,
         pc[p] \in LatePcs => frame[p].market \in Markets
  PROVE  Change(p, b, u) = 0
<1>1. CASE pc[p] \notin LatePcs
  BY <1>1 DEF Change
<1>2. CASE pc[p] \in LatePcs /\ owner[EntryRow(frame[p].market, u)] # p
  <2>1. Sees(p, EntryRow(frame[p].market, u)) = db[EntryRow(frame[p].market, u)]
    BY <1>2 DEF Sees
  <2>2. Worth(b, frame[p].market, db[EntryRow(frame[p].market, u)]) \in Nat
    BY <1>2, EntryTypes
  <2>3. QED
    BY <2>1, <2>2 DEF Change
<1>3. QED
  BY <1>1, <1>2

\* A process in the middle of a call has a market.
LEMMA CallMarket ==
  ASSUME NEW p \in Procs, IInv, pc[p] # "idle"
  PROVE  frame[p] \in CallFrames /\ frame[p].market \in Markets
<1>1. LocalOK(p) /\ frame[p] \in Frames
  BY DEF IInv, Shared
<1>2. frame[p] \in CallFrames
  BY <1>1 DEF LocalOK, CallFrames
<1>3. QED
  BY <1>2, FrameTypes

\* The others' entries are as they were.
LEMMA OthersEntries ==
  ASSUME NEW p \in Procs, NEW q \in Procs \ {p}, IInv, IInv', EntryOK(q), OthersApart(p)
  PROVE  EntryOK(q)'
<1>1. /\ pc'[q] = pc[q] /\ frame'[q] = frame[q] /\ todo'[q] = todo[q] /\ open'[q] = open[q]
  BY DEF OthersApart, OthersRest, OthersKept
<1>2. ASSUME NEW k \in Keys
      PROVE  /\ owner'[k] = q <=> owner[k] = q
             /\ owner[k] = q => new'[k] = new[k] /\ db'[k] = db[k]
  BY DEF OthersApart, OthersRest, OwnRows
<1>3. frame[q].op = "settle" => frame[q].market \in Markets /\ frame[q].entries \subseteq Users
  <2>1. LocalOK(q) /\ frame[q] \in Frames
    BY DEF IInv, Shared
  <2>2. QED
    BY <2>1, FrameTypes DEF CallFrames
<1>4. frame'[q].op = "settle" =>
        \A u \in frame'[q].entries : owner'[EntryRow(frame'[q].market, u)] # q
  BY <1>1, <1>2, <1>3, RowTypes DEF EntryOK
<1>5. ASSUME NEW b \in Books, NEW u \in Users
      PROVE  /\ FiniteFor(q, EventsOf(b), u)'
             /\ Moved(q, EventsOf(b), u)' = Signed(b, Change(q, b, u)')
  <2>1. /\ FiniteFor(q, EventsOf(b), u)' <=> FiniteFor(q, EventsOf(b), u)
        /\ Moved(q, EventsOf(b), u)' = Moved(q, EventsOf(b), u)
    BY <1>1 DEF FiniteFor, Moved, NextPoints, NextIsFor, RowsFor
  <2>2. Change(q, b, u)' = Change(q, b, u)
    <3>1. CASE pc[q] \notin LatePcs
      BY <1>1, <3>1 DEF Change
    <3>2. CASE pc[q] \in LatePcs
      <4>1. frame[q].market \in Markets
        BY <3>2, CallMarket DEF LatePcs
      <4>2. PICK k \in Keys : k = EntryRow(frame[q].market, u)
        BY <4>1, RowTypes
      <4>3. CASE owner[k] = q
        <5>1. Sees(q, k)' = Sees(q, k) /\ db'[k] = db[k]
          BY <1>2, <4>3 DEF Sees
        <5>2. QED
          BY <1>1, <4>2, <5>1 DEF Change
      <4>4. CASE owner[k] # q
        <5>1. Change(q, b, u) = 0
          BY <4>1, <4>2, <4>4, NoChange
        <5>2. Sees(q, k)' = db'[k]
          BY <1>2, <4>4 DEF Sees
        <5>3. Worth(b, frame[q].market, db'[k]) \in Nat
          <6>1. db'[k] \in EntryVersions \cup {NoRow}
            BY <4>1, <4>2, RowTypes DEF IInv, Shared, RowsInv
          <6>2. QED
            BY <4>1, <6>1, WorthIsNat
        <5>4. Change(q, b, u)' = 0
          BY <1>1, <4>2, <5>2, <5>3 DEF Change
        <5>5. QED
          BY <5>1, <5>4
      <4>5. QED
        BY <4>3, <4>4
    <3>3. QED
      BY <3>1, <3>2
  <2>3. QED
    BY <2>1, <2>2 DEF EntryOK
<1>6. QED
  BY <1>1, <1>4, <1>5 DEF EntryOK

\* Books that are not written stay as they are.
LEMMA BookedStays ==
  ASSUME ledger' = ledger, \A k \in EntryKeys : db'[k] = db[k],
         \A b \in Books, u \in Users : BookedOK(b, u)
  PROVE  \A b \in Books, u \in Users : BookedOK(b, u)'
<1>1. ASSUME NEW b \in Books, NEW u \in Users PROVE BookedOK(b, u)'
  <2>1. \A m \in Markets : db'[EntryRow(m, u)] = db[EntryRow(m, u)]
    BY DEF EntryKeys
  <2>2. EnteredBy(u)' = EnteredBy(u)
    BY <2>1 DEF EnteredBy, HasEntry
  <2>3. WorthOf(b, u)' = WorthOf(b, u)
    BY <2>1 DEF WorthOf
  <2>4. PointsFor(EventsOf(b), u)' = PointsFor(EventsOf(b), u)
    BY DEF PointsFor, RowsFor
  <2>5. BookedOK(b, u)
    OBVIOUS
  <2>6. QED
    BY <2>2, <2>3, <2>4, <2>5 DEF BookedOK
<1>2. QED
  BY <1>1

\* A step of p that publishes nothing keeps the invariant if it keeps p's part.
LEMMA QuietEntries ==
  ASSUME NEW p \in Procs, EInv, IInv', IdsOK', OthersApart(p), ledger' = ledger, db' = db,
         EntryOK(p)'
  PROVE  EInv'
<1>1. \A q \in Procs : EntryOK(q)'
  BY OthersEntries DEF EInv
<1>2. \A b \in Books, u \in Users : BookedOK(b, u)'
  BY BookedStays DEF EInv
<1>3. QED
  BY <1>1, <1>2 DEF EInv

-----------------------------------------------------------------------------
\* A step of p that appends nothing and leaves its entries' worth alone.
LEMMA BooklessEntries ==
  ASSUME NEW p \in Procs, EInv, IInv', OthersRest(p), db' = db,
         UNCHANGED <<ledger, open, inserted, todo>>,
         pc[p] \notin {"append", "insert"} \/ pc'[p] \in {"append", "insert"},
         frame'[p].op = "settle" =>
           \A u \in frame'[p].entries : owner'[EntryRow(frame'[p].market, u)] # p,
         \A b \in Books, u \in Users : Change(p, b, u)' = Change(p, b, u)
  PROVE  EInv'
<1>1. IdsOK'
  BY IdsStay DEF EInv, IInv
<1>2. OthersApart(p)
  BY DEF OthersApart
<1>3. EntryOK(p)'
  <2>1. EntryOK(p)
    BY DEF EInv
  <2>2. ASSUME NEW b \in Books, NEW u \in Users
        PROVE  /\ FiniteFor(p, EventsOf(b), u)'
               /\ Moved(p, EventsOf(b), u)' = Signed(b, Change(p, b, u)')
    <3>1. /\ FiniteFor(p, EventsOf(b), u)' <=> FiniteFor(p, EventsOf(b), u)
          /\ Moved(p, EventsOf(b), u)' = Moved(p, EventsOf(b), u)
      BY DEF FiniteFor, Moved, NextPoints, NextIsFor, RowsFor
    <3>2. QED
      BY <2>1, <3>1 DEF EntryOK
  <2>3. QED
    BY <2>1, <2>2 DEF EntryOK
<1>4. QED
  BY <1>1, <1>2, <1>3, QuietEntries

\* A call that has not come to the entries yet.
LEMMA EarlyEntries ==
  ASSUME NEW p \in Procs, EInv, IInv', OthersRest(p), db' = db,
         UNCHANGED <<ledger, open, inserted, todo>>,
         pc[p] \notin LatePcs, pc'[p] \notin LatePcs,
         frame'[p].op = "settle" => frame'[p].entries = {}
  PROVE  EInv'
<1>1. \A b \in Books, u \in Users : Change(p, b, u)' = Change(p, b, u)
  BY DEF Change
<1>2. QED
  BY <1>1, BooklessEntries DEF LatePcs

LEMMA StartEntries ==
  ASSUME NEW p \in Procs, EInv, Start(p)
  PROVE  EInv'
<1>1. IInv /\ IInv'
  BY StartStep DEF EInv
<1>2. PICK f, first :
        StartCall(p, f, first) /\ first \in {"marketRead", "settleRead"} /\ f.entries = {}
  <2>1. \A op, u, m, option, stake : Frame(op, u, m, option, stake).entries = {}
    BY DEF Frame
  <2>2. PICK m \in Markets, option \in Options :
          \/ \E u \in Users, stake \in Stakes(m) :
               StartCall(p, Frame("submit", u, m, option, stake), "marketRead")
          \/ StartCall(p, Frame("settle", NoRow, m, option, 0), "settleRead")
    BY DEF Start
  <2>3. CASE StartCall(p, Frame("settle", NoRow, m, option, 0), "settleRead")
    BY <2>1, <2>3
  <2>4. CASE \E u \in Users, stake \in Stakes(m) :
               StartCall(p, Frame("submit", u, m, option, stake), "marketRead")
    BY <2>1, <2>4
  <2>5. QED
    BY <2>2, <2>3, <2>4
<1>3. /\ pc[p] = "idle" /\ pc' = [pc EXCEPT ![p] = first] /\ frame' = [frame EXCEPT ![p] = f]
      /\ UNCHANGED rowVars /\ day' = day /\ db' = db
      /\ UNCHANGED <<ledger, open, inserted, todo>>
  <2>1. UNCHANGED <<rowVars, ledgerVars, clockVars, todo>>
    BY <1>2 DEF StartCall
  <2>2. QED
    BY <1>2, <2>1 DEF StartCall, Goto, rowVars, ledgerVars, clockVars
<1>4. OthersKept(p) /\ pc'[p] = first /\ frame'[p] = f
  BY <1>1, <1>3, CallMoved
<1>5. OthersRest(p)
  BY <1>1, <1>3, <1>4, RowStepRests
<1>6. QED
  BY <1>1, <1>2, <1>3, <1>4, <1>5, EarlyEntries DEF LatePcs

\* A submission until it inserts its entry.
LEMMA SubmitEntries ==
  ASSUME NEW p \in Procs, EInv, IInv', ~GiveUp(p),
         \/ MarketRead(p) \/ EntrySelect(p) \/ FreeSelect(p) \/ FreeInsert(p)
         \/ MainSelect(p) \/ MainInsert(p) \/ LastPick(p) \/ LastLock(p)
  PROVE  EInv'
<1>1. pc[p] \in SubmitPcs
  BY DEF MarketRead, EntrySelect, FreeSelect, FreeInsert, MainSelect, MainInsert, LastPick,
         LastLock, SubmitPcs
<1>2. /\ IInv /\ frame[p] \in CallFrames /\ frame[p].op = "submit" /\ frame[p].user \in Users
      /\ frame \in [Procs -> Frames] /\ pc \in [Procs -> Pcs]
  BY <1>1, SubmitFacts DEF EInv, IInv, Shared
<1>3. /\ UNCHANGED <<ledger, open, inserted, todo>> /\ day' = day
      /\ \E next \in SubmitPcs : pc' = [pc EXCEPT ![p] = next]
      /\ \/ frame' = frame
         \/ \E d : frame' = [frame EXCEPT ![p].day = d]
         \/ \E r : frame' = [frame EXCEPT ![p].row = r]
  <2>1. CASE MarketRead(p) \/ FreeSelect(p)
    <3>1. \E next \in {"entrySelect", "freeInsert"} : Proceed(p, next)
      BY <2>1 DEF MarketRead, FreeSelect
    <3>2. QED
      BY <3>1 DEF Proceed, Goto, ledgerVars, clockVars, SubmitPcs
  <2>2. CASE EntrySelect(p)
    <3>1. Kind[frame[p].market] \in {"STANDARD", "MAIN", "FREE_DAILY"}
      BY <1>2, FrameTypes, PredictionAssumption DEF Kinds
    <3>2. \E next \in {"freeSelect", "mainSelect", "lastPick"} : pc' = [pc EXCEPT ![p] = next]
      BY <2>2, <3>1 DEF EntrySelect, Goto
    <3>3. UNCHANGED <<ledgerVars, clockVars, todo>> /\ \E d : frame' = [frame EXCEPT ![p].day = d]
      BY <2>2 DEF EntrySelect
    <3>4. QED
      BY <3>2, <3>3 DEF ledgerVars, clockVars, SubmitPcs
  <2>3. CASE FreeInsert(p) \/ MainInsert(p)
    BY <2>3 DEF FreeInsert, MainInsert, Goto, ledgerVars, clockVars, SubmitPcs
  <2>4. CASE MainSelect(p)
    BY <2>4 DEF MainSelect, Proceed, Goto, ledgerVars, clockVars, SubmitPcs
  <2>5. CASE LastPick(p)
    <3>1. PickLastRow(p, "lastLock")
      BY <2>5 DEF LastPick
    <3>2. UNCHANGED <<ledgerVars, clockVars, todo>> /\ pc' = [pc EXCEPT ![p] = "lastLock"]
            /\ \E r : frame' = [frame EXCEPT ![p].row = r]
      BY <3>1 DEF PickLastRow, Goto
    <3>3. QED
      BY <3>2 DEF ledgerVars, clockVars, SubmitPcs
  <2>6. CASE LastLock(p)
    BY <2>6 DEF LastLock, Goto, clockVars, SubmitPcs
  <2>7. QED
    BY <2>1, <2>2, <2>3, <2>4, <2>5, <2>6
<1>4. PICK next \in SubmitPcs : pc' = [pc EXCEPT ![p] = next]
  BY <1>3
<1>5. PICK f : frame' = [frame EXCEPT ![p] = f] /\ f.op = "submit"
  <2>1. frame[p].op = "submit" /\ \A d : [frame[p] EXCEPT !.day = d].op = "submit"
          /\ \A r : [frame[p] EXCEPT !.row = r].op = "submit"
    BY <1>2 DEF CallFrames, Frames
  <2>2. CASE frame' = frame
    <3>1. frame' = [frame EXCEPT ![p] = frame[p]]
      BY <1>2, <2>2
    <3>2. QED
      BY <2>1, <3>1
  <2>3. CASE \E d : frame' = [frame EXCEPT ![p].day = d]
    <3>1. PICK d : frame' = [frame EXCEPT ![p] = [frame[p] EXCEPT !.day = d]]
      BY <1>2, <2>3
    <3>2. QED
      BY <2>1, <3>1
  <2>4. CASE \E r : frame' = [frame EXCEPT ![p].row = r]
    <3>1. PICK r : frame' = [frame EXCEPT ![p] = [frame[p] EXCEPT !.row = r]]
      BY <1>2, <2>4
    <3>2. QED
      BY <2>1, <3>1
  <2>5. QED
    BY <1>3, <2>2, <2>3, <2>4
<1>6. OthersKept(p) /\ pc'[p] = next /\ frame'[p] = f
  BY <1>2, <1>4, <1>5, CallMoved
<1>7. db' = db /\ (UNCHANGED rowVars \/ \E k \in Keys : \E v : WriteRow(p, k, v))
  <2>1. frame[p].day \in Days \/ pc[p] \notin SlotPcs
    BY <1>2 DEF IInv, LocalOK
  <2>2. frame[p].day \in Days =>
          MainRow(frame[p].user, frame[p].day) \in Keys
            /\ FreeRow(frame[p].user, frame[p].day) \in Keys
    BY <1>2, RowTypes
  <2>3. UNCHANGED rowVars \/ \E k \in Keys : \E v : WriteRow(p, k, v)
    <3>1. CASE MarketRead(p) \/ FreeSelect(p) \/ EntrySelect(p) \/ LastPick(p) \/ LastLock(p)
      BY <3>1 DEF MarketRead, FreeSelect, EntrySelect, LastPick, LastLock, PickLastRow, Proceed
    <3>2. CASE FreeInsert(p)
      <4>1. \E v : WriteRow(p, FreeRow(frame[p].user, frame[p].day), v)
        BY <3>2 DEF FreeInsert, InsertRow
      <4>2. QED
        BY <2>1, <2>2, <3>2, <4>1 DEF FreeInsert, SlotPcs
    <3>3. CASE MainInsert(p)
      <4>1. \E v : WriteRow(p, MainRow(frame[p].user, frame[p].day), v)
        BY <3>3 DEF MainInsert, InsertRow
      <4>2. QED
        BY <2>1, <2>2, <3>3, <4>1 DEF MainInsert, SlotPcs
    <3>4. CASE MainSelect(p)
      <4>1. UNCHANGED rowVars \/ \E v : WriteRow(p, MainRow(frame[p].user, frame[p].day), v)
        BY <3>4 DEF MainSelect, Proceed
      <4>2. QED
        BY <2>1, <2>2, <3>4, <4>1 DEF MainSelect, SlotPcs
    <3>5. QED
      BY <3>1, <3>2, <3>3, <3>4
  <2>4. QED
    BY <2>3 DEF rowVars, WriteRow
<1>8. OthersRest(p)
  BY <1>2, <1>3, <1>6, <1>7, RowStepRests
<1>9. QED
  BY <1>1, <1>3, <1>5, <1>6, <1>7, <1>8, EarlyEntries DEF SubmitPcs, LatePcs

-----------------------------------------------------------------------------
\* A settlement until it has found its entries.
LEMMA SettleEarlyEntries ==
  ASSUME NEW p \in Procs, EInv, IInv', ~GiveUp(p), SettleRead(p) \/ SettleMarket(p)
  PROVE  EInv'
<1>1. pc[p] \in {"settleRead", "settleMarket"} /\ pc[p] \in SettlePcs
  BY DEF SettleRead, SettleMarket, SettlePcs
<1>2. /\ IInv /\ frame[p].market \in Markets /\ frame[p].entries = {}
      /\ frame \in [Procs -> Frames] /\ MarketRow(frame[p].market) \in Keys
  BY <1>1, SettleFacts, RowTypes DEF EInv, IInv, Shared
<1>3. PICK next \in {"settleMarket", "settleEntries"} : pc' = [pc EXCEPT ![p] = next]
  BY DEF SettleRead, SettleMarket, Proceed, Goto
<1>4. /\ UNCHANGED <<ledger, open, inserted, todo>> /\ day' = day /\ frame' = frame
  BY DEF SettleRead, SettleMarket, Proceed, ledgerVars, clockVars
<1>5. db' = db /\ (UNCHANGED rowVars \/ \E k \in Keys : \E v : WriteRow(p, k, v))
  <2>1. UNCHANGED rowVars \/ \E v : WriteRow(p, MarketRow(frame[p].market), v)
    BY DEF SettleRead, SettleMarket, Proceed
  <2>2. QED
    BY <1>2, <2>1 DEF rowVars, WriteRow
<1>6. frame' = [frame EXCEPT ![p] = frame[p]]
  BY <1>2, <1>4
<1>7. OthersKept(p) /\ pc'[p] = next /\ frame'[p] = frame[p]
  BY <1>2, <1>3, <1>6, CallMoved
<1>8. OthersRest(p)
  BY <1>2, <1>4, <1>5, <1>7, RowStepRests
<1>9. QED
  BY <1>1, <1>2, <1>3, <1>4, <1>5, <1>7, <1>8, EarlyEntries DEF LatePcs

\* It has written none of the entries it finds.
LEMMA SettleFindsEntries ==
  ASSUME NEW p \in Procs, EInv, IInv', SettleEntries(p)
  PROVE  EInv'
<1>1. pc[p] = "settleEntries" /\ pc[p] \in SettlePcs
  BY DEF SettleEntries, SettlePcs
<1>2. /\ IInv /\ frame[p].market \in Markets /\ frame[p] \in Frames /\ frame[p] # NoFrame
      /\ frame \in [Procs -> Frames] /\ frame[p].op = "settle"
      /\ \A m \in Markets, u \in Users : owner[EntryRow(m, u)] # p
  BY <1>1, SettleFacts DEF EInv, IInv, Shared, CallFrames
<1>3. PICK f : f = [frame[p] EXCEPT !.entries = OpenEntries(p, frame[p].market)]
  OBVIOUS
<1>4. /\ frame' = [frame EXCEPT ![p] = f] /\ pc' = [pc EXCEPT ![p] = "settleNext"]
      /\ f.market = frame[p].market /\ f.entries \subseteq Users
  BY <1>2, <1>3 DEF SettleEntries, Goto, OpenEntries, Frames
<1>5. /\ UNCHANGED <<ledger, open, inserted, todo>> /\ day' = day /\ UNCHANGED rowVars
      /\ db' = db /\ owner' = owner
  BY DEF SettleEntries, ledgerVars, clockVars, rowVars
<1>6. OthersKept(p) /\ pc'[p] = "settleNext" /\ frame'[p] = f
  BY <1>2, <1>4, CallMoved
<1>7. OthersRest(p)
  BY <1>2, <1>5, <1>6, RowStepRests
<1>8. ASSUME NEW b \in Books, NEW u \in Users
      PROVE  Change(p, b, u)' = Change(p, b, u)
  <2>1. Change(p, b, u) = 0
    BY <1>1 DEF Change, LatePcs
  <2>2. PICK k : k = EntryRow(frame[p].market, u)
    OBVIOUS
  <2>3. owner[k] # p /\ Worth(b, frame[p].market, db[k]) \in Nat
    BY <1>2, <2>2, EntryTypes
  <2>4. Sees(p, k)' = db'[k]
    BY <1>5, <2>3 DEF Sees
  <2>5. Change(p, b, u)' = 0
    BY <1>4, <1>5, <1>6, <2>2, <2>3, <2>4 DEF Change
  <2>6. QED
    BY <2>1, <2>5
<1>9. QED
  BY <1>1, <1>2, <1>4, <1>5, <1>6, <1>7, <1>8, BooklessEntries

\* The steps of a transaction that change neither its rows nor its locals.
LEMMA LateEntries ==
  ASSUME NEW p \in Procs, EInv, IInv', SettleDone(p) \/ AppendRead(p)
  PROVE  EInv'
<1>1. pc[p] \in {"settleNext", "append"}
  BY DEF SettleDone, AppendRead
<1>2. PICK next : /\ pc' = [pc EXCEPT ![p] = next]
                  /\ \/ pc[p] = "settleNext" /\ next = "commit"
                     \/ pc[p] = "append" /\ next = "insert"
  BY DEF SettleDone, AppendRead, Proceed, Goto
<1>3. /\ UNCHANGED <<ledger, open, inserted, todo>> /\ day' = day /\ UNCHANGED rowVars
      /\ frame' = frame /\ db' = db /\ owner' = owner /\ new' = new
  <2>1. UNCHANGED <<rowVars, ledgerVars, frame, todo, clockVars>>
    BY DEF SettleDone, AppendRead, Proceed
  <2>2. QED
    BY <2>1 DEF ledgerVars, clockVars, rowVars
<1>4. IInv /\ frame \in [Procs -> Frames] /\ EntryOK(p)
  BY DEF EInv, IInv, Shared
<1>5. frame' = [frame EXCEPT ![p] = frame[p]]
  BY <1>3, <1>4
<1>6. OthersKept(p) /\ pc'[p] = next /\ frame'[p] = frame[p]
  BY <1>2, <1>4, <1>5, CallMoved
<1>7. OthersRest(p)
  BY <1>3, <1>4, <1>6, RowStepRests
<1>8. \A b \in Books, u \in Users : Change(p, b, u)' = Change(p, b, u)
  <2>1. \A k : Sees(p, k)' = Sees(p, k)
    BY <1>3 DEF Sees
  <2>2. QED
    BY <1>1, <1>2, <1>3, <1>6, <2>1 DEF Change, LatePcs
<1>9. frame'[p].op = "settle" =>
        \A u \in frame'[p].entries : owner'[EntryRow(frame'[p].market, u)] # p
  BY <1>3, <1>4 DEF EntryOK
<1>10. QED
  BY <1>2, <1>3, <1>6, <1>7, <1>8, <1>9, BooklessEntries

\* One append of a transaction is made: the points it has moved are the same.
LEMMA AppendEntries ==
  ASSUME NEW p \in Procs, EInv, IInv',
         AppendInsert(p, IF frame[p].op = "settle" THEN "settleNext" ELSE "commit")
  PROVE  EInv'
<1>1. PICK done \in {"settleNext", "commit"} : AppendInsert(p, done)
  OBVIOUS
<1>2. /\ IInv /\ IdsOK /\ frame \in [Procs -> Frames] /\ EntryOK(p)
      /\ Shared(VersionsOf, Events, Frames, Pcs)
  BY DEF EInv, IInv, Shared
<1>3. pc[p] = "insert" /\ todo[p] # <<>> /\ Len(todo[p]) <= 1
  BY <1>1, <1>2 DEF AppendInsert, Shared, EntryOK
<1>4. Len(todo[p]) = 1 /\ Len(Tail(todo[p])) = 0 /\ Tail(todo[p]) \in Seq(AppendsOf(Events))
  <2>1. /\ Len(todo[p]) \in Nat \ {0} /\ Len(Tail(todo[p])) = Len(todo[p]) - 1
        /\ Tail(todo[p]) \in Seq(AppendsOf(Events))
    BY <1>2, <1>3, NextAppend
  <2>2. PICK n : n = Len(todo[p])
    OBVIOUS
  <2>3. n \in Nat \ {0} /\ n <= 1
    BY <1>3, <2>1, <2>2
  <2>4. n = 1
    BY <2>3
  <2>5. QED
    BY <2>1, <2>2, <2>4
<1>5. /\ UNCHANGED rowVars /\ db' = db /\ new' = new /\ owner' = owner
      /\ day' = day /\ frame' = frame /\ ledger' = ledger
  BY <1>1 DEF AppendInsert, rowVars
<1>6. todo' = [todo EXCEPT ![p] = Tail(todo[p])] /\ pc' = [pc EXCEPT ![p] = done]
  BY <1>1, <1>2, <1>4 DEF AppendInsert, Goto, Shared
<1>7. todo'[p] = <<>> /\ Len(todo'[p]) <= 1
  BY <1>2, <1>4, <1>6 DEF Shared
<1>8. frame' = [frame EXCEPT ![p] = frame[p]]
  BY <1>2, <1>5
<1>9. OthersKept(p) /\ pc'[p] = done /\ frame'[p] = frame[p]
  BY <1>2, <1>6, <1>8, CallMoved
<1>10. OthersRest(p)
  BY <1>2, <1>5, <1>9, RowStepRests
<1>11. OthersApart(p)
  <2>1. \A q \in Procs \ {p} : open'[q] = open[q] /\ todo'[q] = todo[q]
    BY <1>1, <1>2, InsertPays
  <2>2. QED
    BY <1>10, <2>1 DEF OthersApart
<1>12. IdsOK'
  BY <1>1, <1>2, IdsStay
<1>13. EntryOK(p)'
  <2>1. \A Ev : RestIsNot(p, Ev)
    BY <1>4 DEF RestIsNot
  <2>2. ASSUME NEW b \in Books, NEW u \in Users
        PROVE  /\ FiniteFor(p, EventsOf(b), u)'
               /\ Moved(p, EventsOf(b), u)' = Signed(b, Change(p, b, u)')
    <3>1. FiniteFor(p, EventsOf(b), u) /\ Moved(p, EventsOf(b), u) = Signed(b, Change(p, b, u))
      BY <1>2 DEF EntryOK
    <3>2. /\ FiniteFor(p, EventsOf(b), u)'
          /\ Moved(p, EventsOf(b), u)' = Moved(p, EventsOf(b), u)
      BY <1>1, <1>2, <2>1, <3>1, InsertMoves
    <3>3. Change(p, b, u)' = Change(p, b, u)
      <4>1. \A k : Sees(p, k)' = Sees(p, k)
        BY <1>5 DEF Sees
      <4>2. QED
        BY <1>3, <1>5, <1>9, <4>1 DEF Change, LatePcs
    <3>4. QED
      BY <3>1, <3>2, <3>3
  <2>3. frame'[p].op = "settle" =>
          \A u \in frame'[p].entries : owner'[EntryRow(frame'[p].market, u)] # p
    BY <1>2, <1>5 DEF EntryOK
  <2>4. QED
    BY <1>7, <2>2, <2>3 DEF EntryOK
<1>14. QED
  BY <1>5, <1>11, <1>12, <1>13, QuietEntries

-----------------------------------------------------------------------------
\* A transaction writes an entry, and what that changes is what the append
\* that comes next will book.
LEMMA WrittenEntries ==
  ASSUME NEW p \in Procs, EInv, IInv', OthersApart(p), db' = db,
         UNCHANGED <<ledger, open, inserted>>, todo[p] = <<>>,
         pc'[p] \notin {"append", "insert"} => todo'[p] = <<>>, Len(todo'[p]) <= 1,
         frame'[p].op = "settle" =>
           \A u \in frame'[p].entries : owner'[EntryRow(frame'[p].market, u)] # p,
         \A b \in Books, u \in Users :
           /\ Signed(b, Change(p, b, u)) \in Int
           /\ NextPoints(p, EventsOf(b), u)' \in Int
           /\ Signed(b, Change(p, b, u)')
                = Signed(b, Change(p, b, u)) + NextPoints(p, EventsOf(b), u)'
  PROVE  EInv'
<1>1. IdsOK'
  BY IdsStay DEF EInv, IInv
<1>2. Shared(VersionsOf, Events, Frames, Pcs) /\ EntryOK(p)
  BY DEF EInv, IInv
<1>3. ASSUME NEW b \in Books, NEW u \in Users
      PROVE  /\ FiniteFor(p, EventsOf(b), u)'
             /\ Moved(p, EventsOf(b), u)' = Signed(b, Change(p, b, u)')
  <2>1. FiniteFor(p, EventsOf(b), u) /\ Moved(p, EventsOf(b), u) = Signed(b, Change(p, b, u))
    BY <1>2 DEF EntryOK
  <2>2. PICK x : x = Deltas(RowsFor(open[p], EventsOf(b), u))
    OBVIOUS
  <2>3. x \in Int
    BY <1>2, <2>1, <2>2, MovedIsInt
  <2>4. NextPoints(p, EventsOf(b), u) = 0
    BY DEF NextPoints, NextIsFor
  <2>5. x = Signed(b, Change(p, b, u))
    BY <2>1, <2>2, <2>3, <2>4 DEF Moved
  <2>6. FiniteFor(p, EventsOf(b), u)'
    BY <2>1 DEF FiniteFor, RowsFor
  <2>7. Moved(p, EventsOf(b), u)' = x + NextPoints(p, EventsOf(b), u)'
    BY <2>2 DEF Moved, RowsFor
  <2>8. QED
    BY <2>5, <2>6, <2>7
<1>4. EntryOK(p)'
  BY <1>3 DEF EntryOK
<1>5. QED
  BY <1>1, <1>4, QuietEntries

\* The points of the append that comes next, if it is the only one.
LEMMA OnlyAppend ==
  ASSUME NEW p, NEW Ev, NEW u, NEW a, NEW A, a \in A, todo'[p] = <<a>>
  PROVE  /\ Len(todo'[p]) = 1
         /\ NextPoints(p, Ev, u)' = IF a.user = u /\ a.event \in Ev THEN a.delta ELSE 0
<1>1. <<a>> # <<>> /\ Head(<<a>>) = a /\ Len(<<a>>) = 1
  OBVIOUS
<1>2. QED
  BY <1>1 DEF NextPoints, NextIsFor

\* A submission inserts its entry, and its stake is appended next.
LEMMA InsertedEntries ==
  ASSUME NEW p \in Procs, EInv, IInv', ~GiveUp(p), EntryInsert(p)
  PROVE  EInv'
<1>0. PICK f, m, k : f = frame[p] /\ m = f.market /\ k = EntryRow(m, f.user)
  OBVIOUS
<1>1. pc[p] = "entryInsert" /\ pc[p] \in SubmitPcs
  BY DEF EntryInsert, SubmitPcs
<1>2. /\ IInv /\ f.op = "submit" /\ f.user \in Users /\ m \in Markets
      /\ \A n \in Markets, u \in Users : owner[EntryRow(n, u)] # p
      /\ f.option \in Options /\ f.stake \in Nat
  BY <1>0, <1>1, SubmitFacts, FrameTypes DEF EInv
<1>3. /\ EntryOK(p) /\ pc \in [Procs -> Pcs] /\ frame \in [Procs -> Frames]
      /\ RowsInv(VersionsOf) /\ day \in Days /\ owner \in [Keys -> Procs \cup {NoProc}]
      /\ todo \in [Procs -> Seq(AppendsOf(Events))] /\ DOMAIN new = Keys
  BY RowTypes DEF EInv, IInv, Shared, Days, RowsInv
<1>4. PICK v : v = [status |-> "OPEN", option |-> f.option, stake |-> f.stake, day |-> day]
  OBVIOUS
<1>5. v \in EntryVersions /\ v.status = "OPEN" /\ v.stake = f.stake /\ v # NoRow
  <2>1. v \in EntryVersions
    BY <1>2, <1>3, <1>4 DEF EntryVersions
  <2>2. QED
    BY <1>4, <2>1, NoRowAssumption
<1>6. k \in Keys /\ db[k] = NoRow /\ WriteRow(p, k, v)
  BY <1>0, <1>2, <1>4, RowTypes DEF EntryInsert, InsertRow
<1>7. PICK a : a = Append1(f.user, "PREDICTION_STAKE", -f.stake, FALSE)
  OBVIOUS
<1>8. a.user = f.user /\ a.event = "PREDICTION_STAKE" /\ a.delta = -f.stake
        /\ a \in AppendsOf(Events)
  BY <1>2, <1>7 DEF Append1, AppendsOf, Events
<1>9. \/ /\ f.stake = 0 /\ pc' = [pc EXCEPT ![p] = "commit"] /\ todo' = todo
      \/ /\ f.stake # 0 /\ pc' = [pc EXCEPT ![p] = "append"]
         /\ todo' = [todo EXCEPT ![p] = <<a>>]
  BY <1>0, <1>7 DEF EntryInsert, Goto
<1>10. PICK next \in {"commit", "append"} : pc' = [pc EXCEPT ![p] = next]
  BY <1>9
<1>11. UNCHANGED <<ledger, open, inserted, frame, day>>
  BY DEF EntryInsert, ledgerVars, clockVars
<1>12. frame' = [frame EXCEPT ![p] = f]
  BY <1>0, <1>3, <1>11
<1>13. OthersKept(p) /\ pc'[p] = next /\ frame'[p] = f
  BY <1>2, <1>10, <1>12, CallMoved
<1>14. OthersRest(p)
  BY <1>2, <1>6, <1>11, <1>13, RowStepRests
<1>15. OthersApart(p)
  BY <1>3, <1>9, <1>11, <1>14 DEF OthersApart
<1>16. db' = db /\ owner' = [owner EXCEPT ![k] = p] /\ new' = [new EXCEPT ![k] = v]
  BY <1>6 DEF WriteRow
<1>17. \A b, u : Change(p, b, u) = 0
  BY <1>1 DEF Change, LatePcs
<1>18. ASSUME NEW b \in Books
       PROVE  Change(p, b, f.user)' = IF b = "stake" THEN f.stake ELSE 0
  <2>1. Sees(p, k)' = v /\ db'[k] = NoRow
    BY <1>3, <1>6, <1>16 DEF Sees
  <2>2. Worth(b, m, v) = (IF b = "stake" THEN f.stake ELSE 0) /\ Worth(b, m, NoRow) = 0
    BY <1>5 DEF Worth
  <2>3. QED
    BY <1>0, <1>2, <1>10, <1>13, <2>1, <2>2 DEF Change, LatePcs
<1>19. ASSUME NEW b \in Books, NEW u \in Users, u # f.user
       PROVE  Change(p, b, u)' = 0
  <2>1. EntryRow(m, u) \in Keys /\ EntryRow(m, u) # k
    BY <1>0, <1>2, <1>19, RowTypes, KeysApart
  <2>2. owner'[EntryRow(m, u)] # p
    BY <1>2, <1>3, <1>16, <2>1
  <2>3. Sees(p, EntryRow(m, u))' = db'[EntryRow(m, u)]
    BY <2>2 DEF Sees
  <2>4. Worth(b, m, db'[EntryRow(m, u)]) \in Nat
    BY <1>2, <1>16, EntryTypes
  <2>5. QED
    BY <1>0, <1>13, <2>3, <2>4 DEF Change
<1>20. todo[p] = <<>>
  BY <1>1, <1>3 DEF EntryOK
<1>21. /\ next # "append" => todo'[p] = <<>>
       /\ Len(todo'[p]) <= 1
       /\ \A b \in Books, u \in Users :
            NextPoints(p, EventsOf(b), u)' = IF b = "stake" /\ u = f.user THEN -f.stake ELSE 0
  <2>1. CASE f.stake = 0
    <3>1. todo'[p] = <<>>
      BY <1>9, <1>20, <2>1
    <3>2. \A b, u : NextPoints(p, EventsOf(b), u)' = 0
      BY <3>1 DEF NextPoints, NextIsFor
    <3>3. QED
      BY <2>1, <3>1, <3>2
  <2>2. CASE f.stake # 0
    <3>1. todo'[p] = <<a>> /\ next = "append"
      <4>1. pc' = [pc EXCEPT ![p] = "append"] /\ todo' = [todo EXCEPT ![p] = <<a>>]
        BY <1>9, <2>2
      <4>2. QED
        BY <1>3, <1>13, <4>1
    <3>2. Len(todo'[p]) = 1
            /\ \A Ev, u : NextPoints(p, Ev, u)'
                 = IF a.user = u /\ a.event \in Ev THEN a.delta ELSE 0
      BY <1>8, <3>1, OnlyAppend
    <3>3. ASSUME NEW b \in Books PROVE a.event \in EventsOf(b) <=> b = "stake"
      BY <1>8 DEF EventsOf, Books
    <3>4. QED
      BY <1>8, <3>1, <3>2, <3>3
  <2>3. QED
    BY <2>1, <2>2
<1>22. ASSUME NEW b \in Books, NEW u \in Users
       PROVE  /\ Signed(b, Change(p, b, u)) \in Int
              /\ NextPoints(p, EventsOf(b), u)' \in Int
              /\ Signed(b, Change(p, b, u)')
                   = Signed(b, Change(p, b, u)) + NextPoints(p, EventsOf(b), u)'
  <2>1. Signed(b, Change(p, b, u)) = 0
    BY <1>17 DEF Signed
  <2>2. Change(p, b, u)' = IF b = "stake" /\ u = f.user THEN f.stake ELSE 0
    BY <1>18, <1>19
  <2>3. QED
    BY <1>2, <1>21, <2>1, <2>2 DEF Signed
<1>23. QED
  BY <1>2, <1>10, <1>11, <1>13, <1>15, <1>16, <1>20, <1>21, <1>22, WrittenEntries

-----------------------------------------------------------------------------
\* What a right answer earns is booked under a name of the second book, and
\* an answer that earns no row earns nothing.
LEMMA WinFacts ==
  ASSUME NEW m \in Markets, NEW stake \in Nat
  PROVE  /\ Payout(m, stake) \in Nat
         /\ \A b \in Books : WinEvent(m) \in EventsOf(b) <=> b = "win"
         /\ ~IsPaid(m, stake) => Payout(m, stake) = 0
<1>1. Kind[m] \in {"STANDARD", "MAIN", "FREE_DAILY"}
  BY PredictionAssumption DEF Kinds
<1>2. Payout(m, stake) \in Nat
  BY <1>1, PredictionAssumption DEF Payout
<1>3. ASSUME NEW b \in Books PROVE WinEvent(m) \in EventsOf(b) <=> b = "win"
  BY <1>1 DEF Books, EventsOf, WinEvent
<1>4. ~IsPaid(m, stake) => Payout(m, stake) = 0
  <2>1. ~IsPaid(m, stake) => Kind[m] = "STANDARD" /\ stake = 0
    BY DEF IsPaid
  <2>2. QED
    BY <2>1 DEF Payout
<1>5. QED
  BY <1>2, <1>3, <1>4

\* A settlement writes the result of an entry, and its payout is appended next.
LEMMA SettledEntries ==
  ASSUME NEW p \in Procs, EInv, IInv', SettleNext(p)
  PROVE  EInv'
<1>0. PICK f, m : f = frame[p] /\ m = f.market
  OBVIOUS
<1>1. pc[p] = "settleNext" /\ pc[p] \in SettlePcs
  BY DEF SettleNext, SettlePcs
<1>2. /\ IInv /\ f.op = "settle" /\ m \in Markets /\ EntriesOK(p)
      /\ f.entries \subseteq Users /\ f \in Frames /\ f # NoFrame
      /\ pc \in [Procs -> Pcs] /\ frame \in [Procs -> Frames]
      /\ owner \in [Keys -> Procs \cup {NoProc}] /\ DOMAIN new = Keys
      /\ todo \in [Procs -> Seq(AppendsOf(Events))] /\ EntryOK(p)
  BY <1>0, <1>1, SettleFacts, RowTypes DEF EInv, IInv, Shared, CallFrames, RowsInv
<1>3. PICK u \in f.entries :
        LET k == EntryRow(m, u)
            e == Sees(p, k)
            won == Won(e, f.option)
        IN
        /\ WriteRow(p, k, [e EXCEPT !.status = IF won THEN "WON" ELSE "LOST"])
        /\ frame' = [frame EXCEPT ![p].entries = @ \ {u}]
        /\ IF won /\ IsPaid(m, e.stake)
             THEN /\ todo' = [todo EXCEPT ![p] =
                       <<Append1(u, WinEvent(m), Payout(m, e.stake), FALSE)>>]
                  /\ Goto(p, "append")
             ELSE UNCHANGED <<todo, pc>>
  BY <1>0 DEF SettleNext
<1>4. PICK k, e, won : k = EntryRow(m, u) /\ e = Sees(p, k) /\ won = Won(e, f.option)
  OBVIOUS
<1>5. /\ u \in Users /\ k \in Keys /\ db[k] \in OpenVersions /\ owner[k] # p
  BY <1>0, <1>2, <1>3, <1>4, RowTypes DEF EntriesOK, EntryOK
<1>6. e = db[k] /\ e \in EntryVersions /\ e.status = "OPEN" /\ e.stake \in Nat /\ e # NoRow
  <2>1. e = db[k]
    BY <1>4, <1>5 DEF Sees
  <2>2. QED
    BY <1>5, <2>1, NoRowAssumption DEF OpenVersions, EntryVersions
<1>7. PICK v : v = [e EXCEPT !.status = IF won THEN "WON" ELSE "LOST"]
  OBVIOUS
<1>8. v \in EntryVersions /\ v.stake = e.stake /\ (v.status = "WON" <=> won) /\ v # NoRow
  <2>1. v \in EntryVersions /\ v.stake = e.stake /\ (v.status = "WON" <=> won)
    BY <1>6, <1>7 DEF EntryVersions
  <2>2. QED
    BY <2>1, NoRowAssumption
<1>9. WriteRow(p, k, v)
  BY <1>3, <1>4, <1>7
<1>10. PICK a : a = Append1(u, WinEvent(m), Payout(m, e.stake), FALSE)
  OBVIOUS
<1>11. a.user = u /\ a.event = WinEvent(m) /\ a.delta = Payout(m, e.stake)
         /\ a \in AppendsOf(Events)
  BY <1>2, <1>5, <1>6, <1>10, PayoutTypes DEF Append1
<1>12. \/ /\ won /\ IsPaid(m, e.stake) /\ pc' = [pc EXCEPT ![p] = "append"]
          /\ todo' = [todo EXCEPT ![p] = <<a>>]
       \/ ~(won /\ IsPaid(m, e.stake)) /\ pc' = pc /\ todo' = todo
  BY <1>3, <1>4, <1>10 DEF Goto
<1>13. PICK next \in {"settleNext", "append"} : pc' = [pc EXCEPT ![p] = next]
  <2>1. pc = [pc EXCEPT ![p] = "settleNext"]
    BY <1>1, <1>2
  <2>2. QED
    BY <1>12, <2>1
<1>14. PICK g : g = [f EXCEPT !.entries = @ \ {u}]
  OBVIOUS
<1>15. /\ g.op = "settle" /\ g.market = m /\ g.entries = f.entries \ {u}
       /\ frame' = [frame EXCEPT ![p] = g]
  BY <1>0, <1>2, <1>3, <1>14 DEF Frames
<1>16. OthersKept(p) /\ pc'[p] = next /\ frame'[p] = g
  BY <1>2, <1>13, <1>15, CallMoved
<1>17. UNCHANGED <<ledger, open, inserted, day>>
  BY DEF SettleNext, ledgerVars, clockVars
<1>18. OthersRest(p)
  BY <1>2, <1>5, <1>9, <1>16, <1>17, RowStepRests
<1>19. OthersApart(p)
  BY <1>2, <1>12, <1>17, <1>18 DEF OthersApart
<1>20. db' = db /\ owner' = [owner EXCEPT ![k] = p] /\ new' = [new EXCEPT ![k] = v]
  BY <1>9 DEF WriteRow
<1>21. ASSUME NEW w \in Users, w # u
       PROVE  /\ EntryRow(m, w) \in Keys /\ EntryRow(m, w) # k
              /\ owner'[EntryRow(m, w)] = owner[EntryRow(m, w)]
              /\ new'[EntryRow(m, w)] = new[EntryRow(m, w)]
  <2>1. EntryRow(m, w) \in Keys /\ EntryRow(m, w) # k
    BY <1>2, <1>4, <1>5, <1>21, RowTypes, KeysApart
  <2>2. QED
    BY <1>2, <1>20, <2>1
<1>22. ASSUME NEW b \in Books
       PROVE  /\ Change(p, b, u) = 0
              /\ Change(p, b, u)' = IF b = "win" /\ won THEN Payout(m, e.stake) ELSE 0
  <2>1. Change(p, b, u) = 0
    BY <1>0, <1>2, <1>4, <1>5, NoChange
  <2>2. Sees(p, k)' = v /\ db'[k] = e
    BY <1>2, <1>5, <1>6, <1>20 DEF Sees
  <2>3. /\ Worth(b, m, e) = IF b = "stake" THEN e.stake ELSE 0
        /\ Worth(b, m, v) = IF b = "stake" THEN e.stake
                            ELSE IF won THEN Payout(m, e.stake) ELSE 0
    BY <1>6, <1>8 DEF Worth
  <2>4. Change(p, b, u)' = Worth(b, m, v) - Worth(b, m, e)
    BY <1>4, <1>13, <1>15, <1>16, <2>2 DEF Change, LatePcs
  <2>5. Payout(m, e.stake) \in Nat
    BY <1>2, <1>6, WinFacts
  <2>6. QED
    BY <1>6, <2>1, <2>3, <2>4, <2>5 DEF Books
<1>23. ASSUME NEW b \in Books, NEW w \in Users, w # u
       PROVE  Change(p, b, w)' = Change(p, b, w) /\ Change(p, b, w) \in Int
  <2>1. PICK l : l = EntryRow(m, w)
    OBVIOUS
  <2>2. Sees(p, l)' = Sees(p, l)
    BY <1>20, <1>21, <1>23, <2>1 DEF Sees
  <2>3. Change(p, b, w)' = Change(p, b, w)
    BY <1>0, <1>1, <1>13, <1>15, <1>16, <1>20, <2>1, <2>2 DEF Change, LatePcs
  <2>4. Change(p, b, w) \in Int
    <3>1. Worth(b, m, Sees(p, l)) \in Nat /\ Worth(b, m, db[l]) \in Nat
      BY <1>2, <2>1, EntryTypes
    <3>2. QED
      BY <1>0, <2>1, <3>1 DEF Change
  <2>5. QED
    BY <2>3, <2>4
<1>24. todo[p] = <<>>
  BY <1>1, <1>2 DEF EntryOK
<1>25. /\ next # "append" => todo'[p] = <<>>
       /\ Len(todo'[p]) <= 1
       /\ \A b \in Books, w \in Users :
            NextPoints(p, EventsOf(b), w)'
              = IF b = "win" /\ won /\ w = u THEN Payout(m, e.stake) ELSE 0
  <2>1. CASE won /\ IsPaid(m, e.stake)
    <3>1. todo'[p] = <<a>> /\ next = "append"
      <4>1. pc' = [pc EXCEPT ![p] = "append"] /\ todo' = [todo EXCEPT ![p] = <<a>>]
        BY <1>12, <2>1
      <4>2. QED
        BY <1>2, <1>16, <4>1
    <3>2. Len(todo'[p]) = 1
            /\ \A Ev, w : NextPoints(p, Ev, w)'
                 = IF a.user = w /\ a.event \in Ev THEN a.delta ELSE 0
      BY <1>11, <3>1, OnlyAppend
    <3>3. \A b \in Books : a.event \in EventsOf(b) <=> b = "win"
      BY <1>2, <1>6, <1>11, WinFacts
    <3>4. QED
      BY <1>11, <2>1, <3>1, <3>2, <3>3
  <2>2. CASE ~(won /\ IsPaid(m, e.stake))
    <3>1. todo'[p] = <<>>
      BY <1>12, <1>24, <2>2
    <3>2. \A Ev, w : NextPoints(p, Ev, w)' = 0
      BY <3>1 DEF NextPoints, NextIsFor
    <3>3. won => Payout(m, e.stake) = 0
      BY <1>2, <1>6, <2>2, WinFacts
    <3>4. QED
      BY <3>1, <3>2, <3>3
  <2>3. QED
    BY <2>1, <2>2
<1>26. ASSUME NEW b \in Books, NEW w \in Users
       PROVE  /\ Signed(b, Change(p, b, w)) \in Int
              /\ NextPoints(p, EventsOf(b), w)' \in Int
              /\ Signed(b, Change(p, b, w)')
                   = Signed(b, Change(p, b, w)) + NextPoints(p, EventsOf(b), w)'
  <2>1. Payout(m, e.stake) \in Nat
    BY <1>2, <1>6, WinFacts
  <2>2. CASE w = u
    <3>1. Signed(b, Change(p, b, w)) = 0
      BY <1>22, <2>2 DEF Signed
    <3>2. Signed(b, Change(p, b, w)') = IF b = "win" /\ won THEN Payout(m, e.stake) ELSE 0
      BY <1>22, <2>2 DEF Signed, Books
    <3>3. QED
      BY <1>25, <2>1, <2>2, <3>1, <3>2
  <2>3. CASE w # u
    <3>1. NextPoints(p, EventsOf(b), w)' = 0
      BY <1>25, <2>3
    <3>2. QED
      BY <1>23, <2>3, <3>1 DEF Signed
  <2>4. QED
    BY <2>2, <2>3
<1>27. \A w \in frame'[p].entries : owner'[EntryRow(frame'[p].market, w)] # p
  <2>1. \A w \in f.entries : w \in Users /\ owner[EntryRow(m, w)] # p
    BY <1>0, <1>2 DEF EntryOK
  <2>2. QED
    BY <1>15, <1>16, <1>21, <2>1
<1>28. QED
  BY <1>13, <1>16, <1>17, <1>19, <1>20, <1>24, <1>25, <1>26, <1>27, WrittenEntries

-----------------------------------------------------------------------------
\* p's transaction is over.
LEMMA EndedEntries ==
  ASSUME NEW p \in Procs, pc'[p] = "idle", frame'[p] = NoFrame, open'[p] = {}, todo'[p] = <<>>
  PROVE  EntryOK(p)'
<1>1. ASSUME NEW b \in Books, NEW u \in Users
      PROVE  FiniteFor(p, EventsOf(b), u)' /\ Moved(p, EventsOf(b), u)' = 0
  BY EndedMovesNone
<1>2. \A b, u : Change(p, b, u)' = 0
  BY DEF Change, LatePcs
<1>3. Len(todo'[p]) = 0
  OBVIOUS
<1>4. frame'[p].op # "settle"
  BY FrameTypes
<1>5. QED
  BY <1>1, <1>2, <1>3, <1>4 DEF EntryOK, Signed

LEMMA GiveUpEntries ==
  ASSUME NEW p \in Procs, EInv, GiveUp(p)
  PROVE  EInv'
<1>1. IInv /\ IInv'
  BY GiveUpStep DEF EInv
<1>2. "idle" \in Pcs /\ NoFrame \in Frames
  BY FrameTypes DEF Pcs
<1>3. OthersKept(p) /\ pc'[p] = "idle" /\ frame'[p] = NoFrame
  BY <1>1, <1>2, GiveUpKeeps DEF IInv
<1>4. db' = db /\ day' = day /\ RollbackRows(p) /\ ledger' = ledger
  BY DEF GiveUp, RollbackRows, clockVars
<1>5. OthersRest(p)
  BY <1>1, <1>3, <1>4, RowStepRests
<1>6. /\ open'[p] = {} /\ todo'[p] = <<>>
      /\ \A q \in Procs \ {p} : todo'[q] = todo[q] /\ open'[q] = open[q]
  BY <1>1 DEF GiveUp, Return, IInv, Shared
<1>7. EntryOK(p)'
  BY <1>3, <1>6, EndedEntries
<1>8. IdsOK'
  BY <1>1, IdsStay DEF EInv, IInv
<1>9. QED
  BY <1>1, <1>4, <1>5, <1>6, <1>7, <1>8, QuietEntries DEF OthersApart

\* COMMIT publishes the entries and the points together.
LEMMA CommitBooks ==
  ASSUME NEW p \in Procs, EInv, IInv', Commit(p), NEW b \in Books, NEW u \in Users
  PROVE  BookedOK(b, u)'
<1>1. pc[p] = "commit" /\ ledger' = ledger \cup open[p] /\ db' = [k \in DOMAIN db |-> Sees(p, k)]
  BY DEF Commit, CommitLedger, CommitRows
<1>2. /\ IInv /\ IdsOK /\ EntryOK(p) /\ BookedOK(b, u) /\ LocksOK(p)
      /\ Shared(VersionsOf, Events, Frames, Pcs) /\ DOMAIN db = Keys
  BY RowTypes DEF EInv, IInv, Shared, RowsInv
<1>3. frame[p].market \in Markets /\ todo[p] = <<>>
  BY <1>1, <1>2, CallMarket DEF EntryOK
<1>4. PICK n \in Markets : n = frame[p].market
  BY <1>3
<1>5. /\ FiniteFor(p, EventsOf(b), u) /\ Moved(p, EventsOf(b), u) = Signed(b, Change(p, b, u))
      /\ IsFiniteSet(RowsFor(ledger, EventsOf(b), u))
  BY <1>2 DEF EntryOK, BookedOK
<1>6. /\ IsFiniteSet(RowsFor(ledger', EventsOf(b), u))
      /\ PointsFor(EventsOf(b), u)' = PointsFor(EventsOf(b), u) + Signed(b, Change(p, b, u))
  BY <1>1, <1>2, <1>3, <1>5, CommitMoves
<1>7. \A m \in Markets :
        /\ EntryRow(m, u) \in Keys /\ db'[EntryRow(m, u)] = Sees(p, EntryRow(m, u))
        /\ m # n => db'[EntryRow(m, u)] = db[EntryRow(m, u)]
        /\ Worth(b, m, db[EntryRow(m, u)]) \in Nat /\ Worth(b, m, db'[EntryRow(m, u)]) \in Nat
  <2>1. ASSUME NEW m \in Markets
        PROVE  /\ EntryRow(m, u) \in Keys /\ db'[EntryRow(m, u)] = Sees(p, EntryRow(m, u))
               /\ Worth(b, m, db[EntryRow(m, u)]) \in Nat
               /\ Worth(b, m, Sees(p, EntryRow(m, u))) \in Nat
    BY <1>1, <1>2, EntryTypes
  <2>2. \A m \in Markets : m # n => owner[EntryRow(m, u)] # p
    BY <1>2, <1>4 DEF LocksOK
  <2>3. QED
    BY <2>1, <2>2 DEF Sees
<1>8. PICK S, S2, T, g, h :
        /\ S = EnteredBy(u) /\ S2 = EnteredBy(u)' /\ T = S \cup {n}
        /\ g = WorthOf(b, u) /\ h = WorthOf(b, u)'
  OBVIOUS
<1>9. /\ S \subseteq T /\ T \subseteq Markets /\ n \in T /\ IsFiniteSet(T)
  BY <1>2, <1>8, FS_AddElement DEF BookedOK, EnteredBy
<1>10. S2 \subseteq T /\ IsFiniteSet(S2)
  <2>1. S2 \subseteq T
    BY <1>7, <1>8 DEF EnteredBy, HasEntry
  <2>2. QED
    BY <1>9, <2>1, FS_Subset
<1>11. \A m \in Markets : /\ g[m] = Worth(b, m, db[EntryRow(m, u)]) /\ g[m] \in Int
                          /\ h[m] = Worth(b, m, db'[EntryRow(m, u)]) /\ h[m] \in Int
                          /\ m # n => h[m] = g[m]
  BY <1>7, <1>8 DEF WorthOf
<1>12. Total(g, S) = Total(g, T)
  <2>1. \A m \in T \ S : g[m] = 0
    BY <1>8, <1>9, <1>11 DEF EnteredBy, HasEntry, Worth
  <2>2. QED
    BY <1>9, <1>11, <2>1, TotalWiden
<1>13. Total(h, S2) = Total(h, T)
  <2>1. \A m \in T \ S2 : h[m] = 0
    BY <1>8, <1>9, <1>11 DEF EnteredBy, HasEntry, Worth
  <2>2. QED
    BY <1>9, <1>10, <1>11, <2>1, TotalWiden
<1>14. Total(h, T) = Total(g, T) + (h[n] - g[n]) /\ Total(g, T) \in Int
  <2>1. \A m \in T : g[m] \in Int /\ h[m] \in Int
    BY <1>9, <1>11
  <2>2. \A m \in T \ {n} : h[m] = g[m]
    BY <1>9, <1>11
  <2>3. QED
    BY <1>9, <2>1, <2>2, TotalMoves
<1>15. Change(p, b, u) = h[n] - g[n]
  BY <1>1, <1>4, <1>7, <1>11 DEF Change, LatePcs
<1>16. PointsFor(EventsOf(b), u) = Signed(b, Total(g, S))
  BY <1>2, <1>8 DEF BookedOK
<1>17. PointsFor(EventsOf(b), u)' = Signed(b, Total(h, S2))
  <2>1. h[n] \in Int /\ g[n] \in Int
    BY <1>11
  <2>2. QED
    BY <1>6, <1>12, <1>13, <1>14, <1>15, <1>16, <2>1 DEF Signed
<1>18. QED
  BY <1>6, <1>8, <1>10, <1>17 DEF BookedOK

LEMMA CommitEntries ==
  ASSUME NEW p \in Procs, EInv, IInv', Commit(p)
  PROVE  EInv'
<1>1. IInv
  BY DEF EInv
<1>2. "idle" \in Pcs /\ NoFrame \in Frames
  BY FrameTypes DEF Pcs
<1>3. OthersKept(p) /\ pc'[p] = "idle" /\ frame'[p] = NoFrame
  BY <1>1, <1>2, CommitKeeps DEF IInv
<1>4. CommitRows(p) /\ CommitLedger(p) /\ UNCHANGED inserted /\ day' = day
  BY DEF Commit, CommitLedger, clockVars
<1>5. OthersRest(p)
  BY <1>1, <1>3, <1>4, RowStepRests
<1>6. /\ open'[p] = {} /\ todo'[p] = <<>>
      /\ \A q \in Procs \ {p} : todo'[q] = todo[q] /\ open'[q] = open[q]
  BY <1>1 DEF Commit, CommitLedger, Return, IInv, Shared
<1>7. IdsOK'
  BY <1>1, <1>4, IdsStay DEF EInv, IInv
<1>8. \A q \in Procs : EntryOK(q)'
  <2>1. EntryOK(p)'
    BY <1>3, <1>6, EndedEntries
  <2>2. OthersApart(p)
    BY <1>5, <1>6 DEF OthersApart
  <2>3. QED
    BY <2>1, <2>2, OthersEntries DEF EInv
<1>9. QED
  BY <1>7, <1>8, CommitBooks DEF EInv

LEMMA IdleEntries ==
  ASSUME EInv, IInv', NextDay \/ UNCHANGED vars
  PROVE  EInv'
<1>1. UNCHANGED <<rowVars, pc, frame, todo, ledger, open, inserted>> /\ db' = db
  BY DEF NextDay, vars, rowVars, ledgerVars, clockVars
<1>2. ASSUME NEW p \in Procs PROVE EntryOK(p)'
  <2>1. EntryOK(p)
    BY DEF EInv
  <2>2. owner' = owner /\ new' = new
    BY <1>1 DEF rowVars
  <2>3. \A b \in Books, u \in Users :
          /\ Change(p, b, u)' = Change(p, b, u)
          /\ FiniteFor(p, EventsOf(b), u)' <=> FiniteFor(p, EventsOf(b), u)
          /\ Moved(p, EventsOf(b), u)' = Moved(p, EventsOf(b), u)
    BY <1>1, <2>2 DEF Change, Sees, FiniteFor, Moved, NextPoints, NextIsFor, RowsFor
  <2>4. QED
    BY <1>1, <2>1, <2>2, <2>3 DEF EntryOK
<1>3. \A b \in Books, u \in Users : BookedOK(b, u)'
  BY <1>1, BookedStays DEF EInv
<1>4. IdsOK'
  BY <1>1 DEF EInv, IdsOK
<1>5. QED
  BY <1>2, <1>3, <1>4 DEF EInv

LEMMA EntriesStay == EInv /\ [Next]_vars => EInv'
<1> SUFFICES ASSUME EInv, [Next]_vars PROVE EInv'
  OBVIOUS
<1>1. IInv'
  BY StepKeeps DEF EInv
<1>2. ASSUME NEW p \in Procs, Start(p) PROVE EInv'
  BY <1>2, StartEntries
<1>3. ASSUME NEW p \in Procs, Step(p) PROVE EInv'
  <2>1. CASE GiveUp(p)
    BY <2>1, GiveUpEntries
  <2>2. CASE ~GiveUp(p) /\ (\/ MarketRead(p) \/ EntrySelect(p) \/ FreeSelect(p) \/ FreeInsert(p)
                            \/ MainSelect(p) \/ MainInsert(p) \/ LastPick(p) \/ LastLock(p))
    BY <1>1, <2>2, SubmitEntries
  <2>3. CASE ~GiveUp(p) /\ EntryInsert(p)
    BY <1>1, <2>3, InsertedEntries
  <2>4. CASE ~GiveUp(p) /\ (SettleRead(p) \/ SettleMarket(p))
    BY <1>1, <2>4, SettleEarlyEntries
  <2>5. CASE SettleEntries(p) \/ SettleNext(p)
    BY <1>1, <2>5, SettleFindsEntries, SettledEntries
  <2>6. CASE SettleDone(p) \/ AppendRead(p)
    BY <1>1, <2>6, LateEntries
  <2>7. CASE AppendInsert(p, IF frame[p].op = "settle" THEN "settleNext" ELSE "commit")
    BY <1>1, <2>7, AppendEntries
  <2>8. CASE Commit(p)
    BY <1>1, <2>8, CommitEntries
  <2>9. QED
    BY <1>3, <2>1, <2>2, <2>3, <2>4, <2>5, <2>6, <2>7, <2>8 DEF Step
<1>4. ASSUME NEW p \in Procs, Crash(p) PROVE EInv'
  BY <1>4, GiveUpEntries DEF Crash
<1>5. CASE NextDay \/ UNCHANGED vars
  BY <1>1, <1>5, IdleEntries
<1>6. QED
  BY <1>2, <1>3, <1>4, <1>5 DEF Next, Quiet

LEMMA TotalOfNone ==
  ASSUME NEW g
  PROVE  Total(g, {}) = 0
BY TotalStep, FS_EmptySet

\* Nobody has entered anything, and what users own at the start is in no book.
LEMMA InitEntries == Init => EInv
<1> SUFFICES ASSUME Init PROVE EInv
  OBVIOUS
<1>1. IInv
  BY InitHolds
<1>2. /\ pc = [p \in Procs |-> "idle"] /\ frame = [p \in Procs |-> NoFrame]
      /\ todo = [p \in Procs |-> <<>>] /\ open = [p \in Procs |-> {}] /\ inserted = 0
      /\ ledger = {StartRow(u) : u \in Users}
      /\ \A k \in Keys : k \notin MarketKeys /\ k \notin StateKeys => db[k] = NoRow
  BY DEF Init, LedgerInit, RowsInit
<1>3. IdsOK
  BY <1>2 DEF IdsOK, StartRow
<1>4. \A b \in Books, u \in Users : RowsFor(ledger, EventsOf(b), u) = {}
  BY <1>2 DEF RowsFor, StartRow, EventsOf
<1>5. ASSUME NEW p \in Procs PROVE EntryOK(p)
  <2>1. pc[p] = "idle" /\ frame[p] = NoFrame /\ todo[p] = <<>> /\ open[p] = {}
    BY <1>2
  <2>2. \A Ev, u : FiniteFor(p, Ev, u) /\ Moved(p, Ev, u) = 0
    <3>1. \A Ev, u : RowsFor(open[p], Ev, u) = {} /\ NextPoints(p, Ev, u) = 0
      BY <2>1 DEF RowsFor, NextPoints, NextIsFor
    <3>2. QED
      BY <3>1, DeltasOfNone, FS_EmptySet DEF FiniteFor, Moved
  <2>3. \A b, u : Change(p, b, u) = 0
    BY <2>1 DEF Change, LatePcs
  <2>4. Len(todo[p]) = 0 /\ frame[p].op # "settle"
    BY <2>1, FrameTypes
  <2>5. QED
    BY <2>1, <2>2, <2>3, <2>4 DEF EntryOK, Signed
<1>6. ASSUME NEW b \in Books, NEW u \in Users PROVE BookedOK(b, u)
  <2>1. \A m \in Markets : EntryRow(m, u) \notin MarketKeys /\ EntryRow(m, u) \notin StateKeys
    BY DEF EntryRow, MarketKeys, MarketRow, StateKeys, StateRow
  <2>2. EnteredBy(u) = {}
    BY <1>2, <2>1, RowTypes DEF EnteredBy, HasEntry
  <2>3. Total(WorthOf(b, u), EnteredBy(u)) = 0
    BY <2>2, TotalOfNone
  <2>4. QED
    BY <1>4, <2>2, <2>3, DeltasOfNone, FS_EmptySet DEF BookedOK, PointsFor, Signed
<1>7. QED
  BY <1>1, <1>3, <1>5, <1>6 DEF EInv

-----------------------------------------------------------------------------
\* The sums of the property are the totals of the invariant.
LEMMA StakesTotal ==
  ASSUME NEW u \in Users, NEW S, IsFiniteSet(S), NEW g,
         \A m \in S : g[m] = db[EntryRow(m, u)].stake
  PROVE  MapThenSumSet(LAMBDA m : db[EntryRow(m, u)].stake, S) = Total(g, S)
<1> DEFINE plain(it) == it = [s \in SUBSET S |->
                          IF s = {} THEN 0
                          ELSE db[EntryRow(CHOOSE x \in s : TRUE, u)].stake
                                 + it[s \ {CHOOSE x \in s : TRUE}]]
<1>1. MapThenSumSet(LAMBDA m : db[EntryRow(m, u)].stake, S) = (CHOOSE it : plain(it))[S]
  BY DEF MapThenSumSet, MapThenFoldSet
<1>2. \A s \in SUBSET S : s # {} => g[Picked(s)] = db[EntryRow(CHOOSE x \in s : TRUE, u)].stake
  <2>1. \A s \in SUBSET S : s # {} => Picked(s) \in S
    BY PickedFacts
  <2>2. QED
    BY <2>1 DEF Picked
<1>3. \A it : plain(it) <=> AddsUp(it, g, S)
  BY <1>2 DEF AddsUp, Picked
<1> HIDE DEF plain
<1>4. PICK jt : AddsUp(jt, g, S)
  BY AddsUpExists
<1>5. plain(jt)
  BY <1>3, <1>4
<1>6. PICK it : it = CHOOSE kt : plain(kt)
  OBVIOUS
<1>7. plain(it)
  BY <1>5, <1>6
<1>8. AddsUp(it, g, S) /\ S \subseteq S
       /\ MapThenSumSet(LAMBDA m : db[EntryRow(m, u)].stake, S) = it[S]
  BY <1>1, <1>3, <1>6, <1>7
<1>9. QED
  BY <1>8, TotalIs

LEMMA PayoutsTotal ==
  ASSUME NEW u \in Users, NEW S, IsFiniteSet(S), NEW g,
         \A m \in S : g[m] = Payout(m, db[EntryRow(m, u)].stake)
  PROVE  MapThenSumSet(LAMBDA m : Payout(m, db[EntryRow(m, u)].stake), S) = Total(g, S)
<1> DEFINE paid(m) == Payout(m, db[EntryRow(m, u)].stake)
           plain(it) == it = [s \in SUBSET S |->
                          IF s = {} THEN 0
                          ELSE paid(CHOOSE x \in s : TRUE) + it[s \ {CHOOSE x \in s : TRUE}]]
<1>1. MapThenSumSet(LAMBDA m : Payout(m, db[EntryRow(m, u)].stake), S)
        = (CHOOSE it : plain(it))[S]
  BY DEF MapThenSumSet, MapThenFoldSet
<1>2. \A s \in SUBSET S : s # {} => g[Picked(s)] = paid(CHOOSE x \in s : TRUE)
  <2>1. \A s \in SUBSET S : s # {} => Picked(s) \in S
    BY PickedFacts
  <2>2. QED
    BY <2>1 DEF Picked
<1> HIDE DEF paid
<1>3. \A it : plain(it) <=> AddsUp(it, g, S)
  BY <1>2 DEF AddsUp, Picked
<1> HIDE DEF plain
<1>4. PICK jt : AddsUp(jt, g, S)
  BY AddsUpExists
<1>5. plain(jt)
  BY <1>3, <1>4
<1>6. PICK it : it = CHOOSE kt : plain(kt)
  OBVIOUS
<1>7. plain(it)
  BY <1>5, <1>6
<1>8. AddsUp(it, g, S) /\ S \subseteq S
       /\ MapThenSumSet(LAMBDA m : Payout(m, db[EntryRow(m, u)].stake), S) = it[S]
  BY <1>1, <1>3, <1>6, <1>7
<1>9. QED
  BY <1>8, TotalIs

LEMMA EntriesImplied == EInv => EntriesMatchLedger
<1> SUFFICES ASSUME EInv, NEW u \in Users
    PROVE  /\ -Deltas(Booked(u, {"PREDICTION_STAKE"}))
                = MapThenSumSet(LAMBDA m : db[EntryRow(m, u)].stake, EnteredBy(u))
           /\ Deltas(Booked(u, Events \ {"ONBOARDING_BONUS", "PREDICTION_STAKE"}))
                = MapThenSumSet(LAMBDA m : Payout(m, db[EntryRow(m, u)].stake),
                                {m \in EnteredBy(u) : db[EntryRow(m, u)].status = "WON"})
  BY DEF EntriesMatchLedger, EnteredBy
<1>1. IInv /\ BookedOK("stake", u) /\ BookedOK("win", u)
  BY DEF EInv, Books
<1>2. PICK S : S = EnteredBy(u)
  OBVIOUS
<1>3. S \subseteq Markets /\ IsFiniteSet(S) /\ \A m \in S : db[EntryRow(m, u)] # NoRow
  BY <1>1, <1>2 DEF BookedOK, EnteredBy, HasEntry
<1>4. -Deltas(Booked(u, {"PREDICTION_STAKE"}))
        = MapThenSumSet(LAMBDA m : db[EntryRow(m, u)].stake, S)
  <2>1. PICK g : g = WorthOf("stake", u)
    OBVIOUS
  <2>2. \A m \in S : g[m] = db[EntryRow(m, u)].stake /\ g[m] \in Int
    <3>1. ASSUME NEW m \in S PROVE g[m] = db[EntryRow(m, u)].stake /\ g[m] \in Int
      <4>1. g[m] = Worth("stake", m, db[EntryRow(m, u)])
        BY <1>3, <2>1 DEF WorthOf
      <4>2. QED
        BY <1>1, <1>3, <4>1, EntryTypes DEF Worth
    <3>2. QED
      BY <3>1
  <2>3. MapThenSumSet(LAMBDA m : db[EntryRow(m, u)].stake, S) = Total(g, S)
    BY <1>3, <2>2, StakesTotal
  <2>4. Booked(u, {"PREDICTION_STAKE"}) = RowsFor(ledger, EventsOf("stake"), u)
    BY DEF Booked, RowsFor, EventsOf
  <2>5. Deltas(Booked(u, {"PREDICTION_STAKE"})) = -Total(g, S)
    BY <1>1, <1>2, <2>1, <2>4 DEF BookedOK, PointsFor, Signed
  <2>6. Total(g, S) \in Int
    BY <1>3, <2>2, TotalIsInt
  <2>7. QED
    BY <2>3, <2>5, <2>6
<1>5. Deltas(Booked(u, Events \ {"ONBOARDING_BONUS", "PREDICTION_STAKE"}))
        = MapThenSumSet(LAMBDA m : Payout(m, db[EntryRow(m, u)].stake),
                        {m \in S : db[EntryRow(m, u)].status = "WON"})
  <2>1. PICK g, W : g = WorthOf("win", u) /\ W = {m \in S : db[EntryRow(m, u)].status = "WON"}
    OBVIOUS
  <2>2. ASSUME NEW m \in S
        PROVE  /\ g[m] \in Int
               /\ g[m] = IF m \in W THEN Payout(m, db[EntryRow(m, u)].stake) ELSE 0
    <3>1. g[m] = Worth("win", m, db[EntryRow(m, u)])
      BY <1>3, <2>1 DEF WorthOf
    <3>2. QED
      BY <1>1, <1>3, <2>1, <3>1, EntryTypes DEF Worth
  <2>3. W \subseteq S /\ IsFiniteSet(W)
    BY <1>3, <2>1, FS_Subset
  <2>4. MapThenSumSet(LAMBDA m : Payout(m, db[EntryRow(m, u)].stake), W) = Total(g, W)
    BY <2>2, <2>3, PayoutsTotal
  <2>5. Total(g, W) = Total(g, S)
    BY <1>3, <2>2, <2>3, TotalWiden
  <2>6. Booked(u, Events \ {"ONBOARDING_BONUS", "PREDICTION_STAKE"})
          = RowsFor(ledger, EventsOf("win"), u)
    BY DEF Booked, RowsFor, EventsOf, Events
  <2>7. Deltas(Booked(u, Events \ {"ONBOARDING_BONUS", "PREDICTION_STAKE"})) = Total(g, S)
    BY <1>1, <1>2, <2>1, <2>6 DEF BookedOK, PointsFor, Signed
  <2>8. QED
    BY <2>1, <2>4, <2>5, <2>7
<1>6. QED
  BY <1>2, <1>4, <1>5

\* The points the ledger took for stakes are the stakes of the entries, and the
\* points it paid are the payouts of the entries that won, for any number of
\* instances, users and markets: whatever settlements and submissions race and
\* whoever dies half way, an entry and its points are published by one COMMIT.
THEOREM EntriesAreBooked == Spec => []EntriesMatchLedger
BY EntriesImplied, EntriesStay, InitEntries, PTL DEF Spec
=============================================================================
