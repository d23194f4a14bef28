-------------------------- MODULE PredictionMarkets --------------------------
(***************************************************************************)
(* The prediction game of src/server/manual/service.ts: users enter a pick *)
(* on a market (submitManualPredictionEntry) and an administrator resolves *)
(* it (resolveAndSettleManualPredictionMarket, POST                        *)
(* /api/admin/manual/predictions/settle).  One action per SQL statement.   *)
(*                                                                         *)
(* Markets are made and closed outside this code: their kind and the day   *)
(* they close on are constants, their status before they are resolved is   *)
(* chosen in Init.                                                         *)
(***************************************************************************)
EXTENDS PointsLedger

CONSTANTS
  Markets, Kind, ClosesOn,   \* Kind[m], and ClosesOn[m]: the first day m is closed
  Options,
  StartPoints,               \* what every user owns at the start
  StandardStakes,            \* what a user may stake on a STANDARD market
  MainStake, WinReturn, FreeReward,
  MainMaxPerDay,             \* MAIN_PREDICTION_MAX_PER_DAY
  StartStatuses,             \* the status a market may have at the start
  Ops                        \* the handlers a run exercises

Kinds == {"STANDARD", "MAIN", "FREE_DAILY"}

ASSUME PredictionAssumption ==
  /\ Kind \in [Markets -> Kinds]
  /\ ClosesOn \in [Markets -> Nat]
  /\ StandardStakes \subseteq Nat
  /\ {StartPoints, MainStake, WinReturn, FreeReward} \subseteq Nat
  /\ MainMaxPerDay \in Nat \ {0}
  /\ StartStatuses \subseteq {"OPEN", "LOCKED", "CANCELLED"}
  /\ Ops \subseteq {"submit", "settle"}

Days == 1..MaxDay

MarketRow(m)   == <<"market", m>>
EntryRow(m, u) == <<"entry", m, u>>    \* UNIQUE(market_id, user_id)
MainRow(u, d)  == <<"main", u, d>>     \* manual_main_prediction_daily
FreeRow(u, d)  == <<"free", u, d>>     \* manual_free_daily_entries

MarketKeys == {MarketRow(m) : m \in Markets}
EntryKeys  == {EntryRow(m, u) : m \in Markets, u \in Users}
MainKeys   == {MainRow(u, d) : u \in Users, d \in Days}
FreeKeys   == {FreeRow(u, d) : u \in Users, d \in Days}
StateKeys  == {StateRow(u) : u \in Users}

Keys == MarketKeys \cup EntryKeys \cup MainKeys \cup FreeKeys \cup StateKeys

\* What a submission may stake: only a STANDARD market lets the user choose.
Stakes(m) ==
  CASE Kind[m] = "STANDARD" -> StandardStakes
    [] Kind[m] = "MAIN" -> {MainStake}
    [] Kind[m] = "FREE_DAILY" -> {0}

\* What a right answer pays, and the event it is booked as.
Payout(m, stake) ==
  CASE Kind[m] = "STANDARD" -> 2 * stake
    [] Kind[m] = "MAIN" -> WinReturn
    [] Kind[m] = "FREE_DAILY" -> FreeReward

\* Mutant of WinEvent: one name for all kinds, which nothing else knows.
WinEventUnknown(m) == "PREDICTION_WIN"

WinEvent(m) ==
  CASE Kind[m] = "STANDARD" -> "PREDICTION_STANDARD_WIN"
    [] Kind[m] = "MAIN" -> "PREDICTION_MAIN_WIN"
    [] Kind[m] = "FREE_DAILY" -> "PREDICTION_FREE_WIN"

StartRow(u) ==
  [id |-> 0, user |-> u, event |-> "ONBOARDING_BONUS", delta |-> StartPoints,
   balance |-> StartPoints, ts |-> 0, day |-> 1]

Init ==
  \E status \in [Markets -> StartStatuses] :
    LedgerInit(
      [k \in Keys |->
         IF k \in MarketKeys THEN [status |-> status[k[2]], correct |-> NoRow]
         ELSE IF k \in StateKeys THEN FreshState ELSE NoRow],
      {StartRow(u) : u \in Users})

Frame(op, u, m, option, stake) ==
  [op |-> op, user |-> u, market |-> m, option |-> option, stake |-> stake,
   day |-> NoDay, row |-> NoRow, entries |-> {}]

Start(p) ==
  \E m \in Markets, option \in Options :
    \/ /\ "submit" \in Ops
       /\ \E u \in Users, stake \in Stakes(m) :
            StartCall(p, Frame("submit", u, m, option, stake), "marketRead")
    \/ /\ "settle" \in Ops
       /\ StartCall(p, Frame("settle", NoRow, m, option, 0), "settleRead")

\* The handler goes on with its next statement and nothing else changes.
Proceed(p, next) ==
  /\ Goto(p, next)
  /\ UNCHANGED <<rowVars, ledgerVars, frame, todo, bal, clockVars, calls>>

-----------------------------------------------------------------------------
\* submitManualPredictionEntry

\* Mutant of MarketRead: status and closing time are not looked at.
MarketReadAny(p) == pc[p] = "marketRead" /\ Proceed(p, "entrySelect")

\* The market is read before the transaction begins, and not again.
MarketRead(p) ==
  LET m == frame[p].market
      open_ == db[MarketRow(m)].status = "OPEN" /\ day < ClosesOn[m]
  IN
  /\ pc[p] = "marketRead"
  /\ \/ ~open_ /\ GiveUp(p)
     \/ open_ /\ Proceed(p, "entrySelect")

\* BEGIN; is there an entry already?  Then the slot of the day, by kind.
EntrySelect(p) ==
  LET m == frame[p].market IN
  /\ pc[p] = "entrySelect"
  /\ \/ Exists(p, EntryRow(m, frame[p].user)) /\ GiveUp(p)
     \/ /\ ~Exists(p, EntryRow(m, frame[p].user))
        /\ frame' = [frame EXCEPT ![p].day = day]
        /\ Goto(p, CASE Kind[m] = "FREE_DAILY" -> "freeSelect"
                     [] Kind[m] = "MAIN" -> "mainSelect"
                     [] Kind[m] = "STANDARD" -> "lastPick")
        /\ UNCHANGED <<rowVars, ledgerVars, todo, bal, clockVars, calls>>

\* reserveFreeDailySlotOrThrow: the row is the slot.
FreeSelect(p) ==
  LET k == FreeRow(frame[p].user, frame[p].day) IN
  /\ pc[p] = "freeSelect"
  /\ \/ db[k] # NoRow /\ GiveUp(p)
     \/ db[k] = NoRow /\ Proceed(p, "freeInsert")

FreeInsert(p) ==
  LET k == FreeRow(frame[p].user, frame[p].day) IN
  /\ pc[p] = "freeInsert"
  /\ \/ Refused(p, k) /\ GiveUp(p)
     \/ /\ InsertRow(p, k, [used |-> 1])
        /\ Goto(p, "lastPick")
        /\ UNCHANGED <<ledgerVars, frame, todo, bal, clockVars, calls>>

\* Mutant of SlotsUsedUp: one MAIN entry too many.
SlotsOverrun(used) == used > MainMaxPerDay

SlotsUsedUp(used) == used >= MainMaxPerDay

\* reserveMainPredictionDailySlotOrThrow: SELECT used_count ... FOR UPDATE.
\* A row it finds is locked, so the UPDATE that follows needs no step of its
\* own; a row that another transaction is only now inserting is not found.
MainSelect(p) ==
  LET k == MainRow(frame[p].user, frame[p].day) IN
  /\ pc[p] = "mainSelect"
  /\ \/ db[k] = NoRow /\ Proceed(p, "mainInsert")
     \/ /\ db[k] # NoRow
        /\ Free(p, k)
        /\ \/ SlotsUsedUp(db[k].used) /\ GiveUp(p)
           \/ /\ ~SlotsUsedUp(db[k].used)
              /\ WriteRow(p, k, [used |-> db[k].used + 1])
              /\ Goto(p, "lastPick")
              /\ UNCHANGED <<ledgerVars, frame, todo, bal, clockVars, calls>>

\* A duplicate key aborts the transaction in Postgres, so the SELECT in the
\* catch block fails as well and the handler rethrows.
MainInsert(p) ==
  LET k == MainRow(frame[p].user, frame[p].day) IN
  /\ pc[p] = "mainInsert"
  /\ \/ Refused(p, k) /\ GiveUp(p)
     \/ /\ InsertRow(p, k, [used |-> 1])
        /\ Goto(p, "lastPick")
        /\ UNCHANGED <<ledgerVars, frame, todo, bal, clockVars, calls>>

LastPick(p) == pc[p] = "lastPick" /\ PickLastRow(p, "lastLock")

\* Mutant of LastLock: the balance is not compared with the stake.
LastUnchecked(p) ==
  /\ pc[p] = "lastLock"
  /\ LastRowFree(p)
  /\ HoldLastRow(p)
  /\ Goto(p, "entryInsert")
  /\ UNCHANGED <<rowVars, ledger, open, frame, todo, bal, clockVars, calls>>

LastLock(p) ==
  /\ pc[p] = "lastLock"
  /\ LastRowFree(p)
  /\ \/ frame[p].stake > bal[p] /\ GiveUp(p)
     \/ /\ frame[p].stake <= bal[p]
        /\ HoldLastRow(p)
        /\ Goto(p, "entryInsert")
        /\ UNCHANGED <<rowVars, ledger, open, frame, todo, bal, clockVars, calls>>

\* The entry, then the stake, for which the balance is read once more.
EntryInsert(p) ==
  LET f == frame[p]
      k == EntryRow(f.market, f.user)
  IN
  /\ pc[p] = "entryInsert"
  /\ \/ Refused(p, k) /\ GiveUp(p)
     \/ /\ InsertRow(p, k,
             [status |-> "OPEN", option |-> f.option, stake |-> f.stake, day |-> day])
        /\ IF f.stake = 0
             THEN Goto(p, "commit") /\ UNCHANGED todo
             ELSE /\ todo' = [todo EXCEPT ![p] =
                       <<Append1(f.user, "PREDICTION_STAKE", -f.stake, FALSE)>>]
                  /\ Goto(p, "append")
        /\ UNCHANGED <<ledgerVars, frame, bal, clockVars, calls>>

-----------------------------------------------------------------------------
\* resolveAndSettleManualPredictionMarket

SettleRead(p) ==
  LET settleable == db[MarketRow(frame[p].market)].status \in {"OPEN", "LOCKED"} IN
  /\ pc[p] = "settleRead"
  /\ \/ ~settleable /\ GiveUp(p)
     \/ settleable /\ Proceed(p, "settleMarket")

\* BEGIN, then the UPDATE, which does not look at the status.
SettleMarket(p) ==
  /\ pc[p] = "settleMarket"
  /\ WriteRow(p, MarketRow(frame[p].market), [status |-> "RESOLVED", correct |-> frame[p].option])
  /\ Goto(p, "settleEntries")
  /\ UNCHANGED <<ledgerVars, frame, todo, bal, clockVars, calls>>

\* Mutant of OpenEntries: WHERE status <> 'WON'.
UnwonEntries(p, m) ==
  {u \in Users : LET e == Sees(p, EntryRow(m, u)) IN e # NoRow /\ e.status # "WON"}

\* The users whose entry on m is OPEN, as p sees it.
OpenEntries(p, m) ==
  {u \in Users : LET e == Sees(p, EntryRow(m, u)) IN e # NoRow /\ e.status = "OPEN"}

SettleEntries(p) ==
  /\ pc[p] = "settleEntries"
  /\ frame' = [frame EXCEPT ![p].entries = OpenEntries(p, frame[p].market)]
  /\ Goto(p, "settleNext")
  /\ UNCHANGED <<rowVars, ledgerVars, todo, bal, clockVars, calls>>

\* Mutant of Won: the keys of the options are compared the wrong way round.
Missed(entry, option) == entry.option # option

Won(entry, option) == entry.option = option

\* Mutant of IsPaid: only STANDARD markets pay.
OnlyStandardPaid(m, stake) == Kind[m] = "STANDARD" /\ stake > 0

\* Does a right answer earn a row of the ledger?
IsPaid(m, stake) == Kind[m] = "STANDARD" => stake > 0

\* One round of the loop: UPDATE ... WHERE entry_id, then the payout.
SettleNext(p) ==
  LET f == frame[p] IN
  /\ pc[p] = "settleNext"
  /\ \E u \in f.entries :
       LET k == EntryRow(f.market, u)
           e == Sees(p, k)
           won == Won(e, f.option)
       IN
       /\ WriteRow(p, k, [e EXCEPT !.status = IF won THEN "WON" ELSE "LOST"])
       /\ frame' = [frame EXCEPT ![p].entries = @ \ {u}]
       /\ IF won /\ IsPaid(f.market, e.stake)
            THEN /\ todo' = [todo EXCEPT ![p] =
                      <<Append1(u, WinEvent(f.market), Payout(f.market, e.stake), FALSE)>>]
                 /\ Goto(p, "append")
            ELSE UNCHANGED <<todo, pc>>
  /\ UNCHANGED <<ledgerVars, bal, clockVars, calls>>

SettleDone(p) ==
  /\ pc[p] = "settleNext"
  /\ frame[p].entries = {}
  /\ Proceed(p, "commit")

-----------------------------------------------------------------------------
Step(p) ==
  \/ MarketRead(p) \/ EntrySelect(p) \/ FreeSelect(p) \/ FreeInsert(p)
  \/ MainSelect(p) \/ MainInsert(p) \/ LastPick(p) \/ LastLock(p) \/ EntryInsert(p)
  \/ SettleRead(p) \/ SettleMarket(p) \/ SettleEntries(p) \/ SettleNext(p) \/ SettleDone(p)
  \/ AppendRead(p)
  \/ AppendInsert(p, IF frame[p].op = "settle" THEN "settleNext" ELSE "commit")
  \/ Commit(p)

Next ==
  \/ \E p \in Procs : Start(p) \/ Step(p) \/ Crash(p)
  \/ NextDay
  \/ Quiet

Spec == Init /\ [][Next]_vars /\ \A p \in Procs : WF_vars(Step(p))

-----------------------------------------------------------------------------
\* Properties.

Pcs == {"idle", "marketRead", "entrySelect", "freeSelect", "freeInsert", "mainSelect",
        "mainInsert", "lastPick", "lastLock", "entryInsert", "settleRead", "settleMarket",
        "settleEntries", "settleNext", "append", "insert", "commit"}

Events == {"ONBOARDING_BONUS", "PREDICTION_STAKE", "PREDICTION_STANDARD_WIN",
           "PREDICTION_MAIN_WIN", "PREDICTION_FREE_WIN"}

MarketVersions == [status : {"OPEN", "LOCKED", "CANCELLED", "RESOLVED"},
                   correct : Options \cup {NoRow}]
EntryVersions == [status : {"OPEN", "WON", "LOST"}, option : Options, stake : Nat, day : Days]
SlotVersions == [used : Nat \ {0}]
Versions == MarketVersions \cup EntryVersions \cup SlotVersions \cup {FreshState, NoRow}

\* The marker of a missing row is no version of a row.
ASSUME NoRowAssumption == NoRow \notin EntryVersions \cup SlotVersions

Rows == [id : Nat, user : Users, event : Events, delta : Int, balance : Int, ts : Nat, day : Days]

Appends == [user : Users, event : Events, delta : Int, chain : BOOLEAN]

Frames == {NoFrame} \cup
  [op : Ops, user : Users \cup {NoRow}, market : Markets, option : Options,
   stake : Nat, day : Days \cup {NoDay}, row : Rows \cup {NoRow}, entries : SUBSET Users]

\* Every variable has the type of the column or the local it stands for.
TypeOK ==
  /\ db \in [Keys -> Versions]
  /\ new \in [Keys -> Versions]
  /\ owner \in [Keys -> Procs \cup {NoProc}]
  /\ ledger \subseteq Rows
  /\ open \in [Procs -> SUBSET Rows]
  /\ held \in [Procs -> SUBSET Rows]
  /\ pc \in [Procs -> Pcs]
  /\ frame \in [Procs -> Frames]
  /\ todo \in [Procs -> Seq(Appends)]
  /\ bal \in [Procs -> Int]
  /\ {inserted, ms, calls} \subseteq Nat
  /\ day \in Days

HasEntry(m, u) == db[EntryRow(m, u)] # NoRow

\* The markets of kind k that user u entered on day d.
Entered(u, k, d) ==
  {m \in Markets : Kind[m] = k /\ HasEntry(m, u) /\ db[EntryRow(m, u)].day = d}

\* The daily slots are not oversold, and none is used up by a submission that
\* failed: the MAIN counter is the number of MAIN entries of the day and at
\* most MainMaxPerDay, and there is one FREE_DAILY row for one free entry.
DailySlots ==
  \A u \in Users, d \in Days :
    LET main == Cardinality(Entered(u, "MAIN", d)) IN
    /\ main <= MainMaxPerDay
    /\ main = IF db[MainRow(u, d)] = NoRow THEN 0 ELSE db[MainRow(u, d)].used
    /\ Cardinality(Entered(u, "FREE_DAILY", d)) = IF db[FreeRow(u, d)] = NoRow THEN 0 ELSE 1

Booked(u, events) == {r \in ledger : r.user = u /\ r.event \in events}

\* The points the ledger took for stakes are the stakes of the entries, and
\* the points it paid are the payouts of the entries that won, whatever
\* settlements and submissions race and whoever dies half way.
EntriesMatchLedger ==
  \A u \in Users :
    LET entered == {m \in Markets : HasEntry(m, u)}
        won == {m \in entered : db[EntryRow(m, u)].status = "WON"}
        stake(m) == db[EntryRow(m, u)].stake
    IN
    /\ -Deltas(Booked(u, {"PREDICTION_STAKE"})) = MapThenSumSet(stake, entered)
    /\ Deltas(Booked(u, Events \ {"ONBOARDING_BONUS", "PREDICTION_STAKE"}))
         = MapThenSumSet(LAMBDA m : Payout(m, stake(m)), won)

\* An entry that was settled keeps its result: a second administrator who
\* settles the same market finds no entry to pay again.
ResultsAreFinal ==
  [][\A m \in Markets, u \in Users :
       HasEntry(m, u) /\ db[EntryRow(m, u)].status # "OPEN"
         => db'[EntryRow(m, u)] = db[EntryRow(m, u)]]_vars

\* A resolved market has no entry left OPEN.
ResolvedMeansSettled ==
  \A m \in Markets, u \in Users :
    db[MarketRow(m)].status = "RESOLVED" /\ HasEntry(m, u)
      => db[EntryRow(m, u)].status # "OPEN"

\* The entries that won are the ones that picked the market's answer.
WinnersPickedTheAnswer ==
  \A m \in Markets, u \in Users : HasEntry(m, u) =>
    LET e == db[EntryRow(m, u)] IN
    /\ e.status = "WON" => e.option = db[MarketRow(m)].correct
    /\ e.status = "LOST" => e.option # db[MarketRow(m)].correct

\* No stake is taken that the user could not pay.
NeverOverdrawn == \A u \in Users : Deltas({r \in ledger : r.user = u}) >= 0
=============================================================================
