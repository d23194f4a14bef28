---------------------------- MODULE PointsLedger ----------------------------
(***************************************************************************)
(* manual_points_ledger and the steps every handler of                     *)
(* src/server/manual/service.ts shares: a call starts, its transaction     *)
(* appends rows (appendPointsLedger), and it commits, gives up or dies.    *)
(*                                                                         *)
(* The synchronous bridge makes a whole handler atomic inside one Node     *)
(* process, but the service runs as several serverless instances, so the   *)
(* unit of interleaving is one SQL statement of one instance.  pc[p] names *)
(* the statement instance p sends next; frame[p] holds the handler's local *)
(* variables, todo[p] the appendPointsLedger calls it has still to make.   *)
(*                                                                         *)
(* The tables a handler updates in place are keys of PostgresRows; the     *)
(* ledger, which is only appended to, is a set of rows.                    *)
(***************************************************************************)
EXTENDS PostgresRows, FiniteSetsExt

CONSTANTS
  Users,              \* registered users (rows of auth_users)
  MsTies,             \* may two rows be stamped in the same millisecond?
  MidCallRollover,    \* may a UTC day end while a handler is running?
  Crashes,            \* may an instance die in the middle of a handler?
  DaysPerMonth,       \* days of a (short) month
  MaxDay,             \* bound: the last day of a behaviour
  MaxCalls            \* bound: how many calls a behaviour serves

ASSUME LedgerAssumption ==
  /\ NoProc \notin Procs
  /\ {MsTies, MidCallRollover, Crashes} \subseteq BOOLEAN
  /\ {DaysPerMonth, MaxDay, MaxCalls} \subseteq Nat \ {0}

VARIABLES
  ledger,    \* the committed rows of manual_points_ledger
  open,      \* open[p]: the rows p's transaction has inserted
  held,      \* held[p]: the ledger rows p's transaction has locked
  pc,        \* pc[p]: the statement p sends next; "idle" between calls
  frame,     \* frame[p]: the local variables of p's handler
  todo,      \* todo[p]: the ledger appends p's handler has still to make
  bal,       \* bal[p]: the balance p's handler has read or computed last
  inserted,  \* how many ledger inserts were ever sent (the source of ids)
  ms,        \* the clock of created_at_ms
  day,       \* the UTC day
  calls      \* how many calls were started

ledgerVars == <<ledger, open, held>>
clockVars  == <<inserted, ms, day>>
vars == <<rowVars, ledgerVars, pc, frame, todo, bal, clockVars, calls>>

NoDay   == -1
NoFrame == [op |-> "none"]

StateRow(u) == <<"state", u>>

\* The row ensureManualUserState inserts.  vip stands for vip_days_balance
\* and vip_days_redeemed_total, which every statement changes together.
FreshState == [vip |-> 0, lastDay |-> NoDay, streak |-> 0, referredBy |-> NoRow]

SingletonEvents == {"SIGNUP_BONUS", "ONBOARDING_BONUS"}

Month(d) == d \div DaysPerMonth

Goto(p, next) == pc' = [pc EXCEPT ![p] = next]

LedgerInit(initial, rows) ==
  /\ RowsInit(initial)
  /\ ledger = rows
  /\ open = [p \in Procs |-> {}]
  /\ held = [p \in Procs |-> {}]
  /\ pc = [p \in Procs |-> "idle"]
  /\ frame = [p \in Procs |-> NoFrame]
  /\ todo = [p \in Procs |-> <<>>]
  /\ bal = [p \in Procs |-> 0]
  /\ inserted = 0
  /\ ms = 0
  /\ day = 1
  /\ calls = 0

-----------------------------------------------------------------------------
\* Reads.

Visible(p) == ledger \cup open[p]

\* The rows ORDER BY created_at_ms DESC LIMIT 1 may return: with two rows
\* stamped in the same millisecond Postgres is free to return either.
LastRows(rows, u) ==
  {r \in rows : r.user = u /\ \A s \in rows : s.user = u => s.ts <= r.ts}

\* Mutant of Balances: WHERE user_id is forgotten.
AnyonesBalances(p, u) ==
  LET last == UNION {LastRows(Visible(p), v) : v \in Users}
  IN  IF last = {} THEN {0} ELSE {r.balance : r \in last}

\* currentPointsBalance: the balances a read may find.
Balances(p, u) ==
  LET last == LastRows(Visible(p), u)
  IN  IF last = {} THEN {0} ELSE {r.balance : r \in last}

\* hasLedgerEvent
HasEvent(p, u, event) == \E r \in Visible(p) : r.user = u /\ r.event = event

Deltas(rows) == MapThenSumSet(LAMBDA r : r.delta, rows)

-----------------------------------------------------------------------------
\* The life of a call.

StartCall(p, f, first) ==
  /\ pc[p] = "idle"
  /\ calls < MaxCalls
  /\ calls' = calls + 1
  /\ frame' = [frame EXCEPT ![p] = f]
  /\ Goto(p, first)
  /\ UNCHANGED <<rowVars, ledgerVars, todo, bal, clockVars>>

\* The handler is over: its locals go.
Return(p) ==
  /\ Goto(p, "idle")
  /\ frame' = [frame EXCEPT ![p] = NoFrame]
  /\ todo' = [todo EXCEPT ![p] = <<>>]
  /\ bal' = [bal EXCEPT ![p] = 0]

\* runManualTransaction rolls back and the handler answers with a refusal or
\* rethrows; with no transaction open there is nothing to undo.
GiveUp(p) ==
  /\ RollbackRows(p)
  /\ open' = [open EXCEPT ![p] = {}]
  /\ held' = [held EXCEPT ![p] = {}]
  /\ Return(p)
  /\ UNCHANGED <<ledger, clockVars, calls>>

\* The instance is killed or loses its connection: Postgres rolls back.
Crash(p) == Crashes /\ pc[p] # "idle" /\ GiveUp(p)

CommitLedger(p) ==
  /\ CommitRows(p)
  /\ ledger' = ledger \cup open[p]
  /\ open' = [open EXCEPT ![p] = {}]
  /\ held' = [held EXCEPT ![p] = {}]

\* The last statement of a handler whose transaction is all it does.
Commit(p) ==
  /\ pc[p] = "commit"
  /\ CommitLedger(p)
  /\ Return(p)
  /\ UNCHANGED <<clockVars, calls>>

-----------------------------------------------------------------------------
\* appendPointsLedger, once for each element of todo[p].  An append is
\*   [user, event, delta, chain]
\* with chain = TRUE when the caller passes knownBalance.

Append1(u, event, delta, chain) ==
  [user |-> u, event |-> event, delta |-> delta, chain |-> chain]

\* ensureManualUserState finds the row, then the balance is read, unlocked.
AppendRead(p) ==
  /\ pc[p] = "append"
  /\ LET a == Head(todo[p]) IN
       /\ Exists(p, StateRow(a.user))
       /\ \E b \in IF a.chain THEN {bal[p]} ELSE Balances(p, a.user) :
            bal' = [bal EXCEPT ![p] = b]
  /\ Goto(p, "insert")
  /\ UNCHANGED <<rowVars, ledgerVars, frame, todo, clockVars, calls>>

AppendNoState(p) ==
  /\ pc[p] = "append"
  /\ ~Exists(p, StateRow(Head(todo[p]).user))
  /\ Goto(p, "makeState")
  /\ UNCHANGED <<rowVars, ledgerVars, frame, todo, bal, clockVars, calls>>

\* ensureManualUserState inserts the user's row inside the transaction.  A
\* duplicate aborts the transaction in Postgres; the error is swallowed, the
\* append answers 0, and the COMMIT that follows can only roll back.
MakeState(p) ==
  LET k == StateRow(Head(todo[p]).user) IN
  /\ pc[p] = "makeState"
  /\ \/ /\ InsertRow(p, k, FreshState)
        /\ Goto(p, "append")
        /\ UNCHANGED <<ledgerVars, frame, todo, bal, clockVars, calls>>
     \/ Refused(p, k) /\ GiveUp(p)

\* idx_manual_points_ledger_singleton
Duplicates(a, r) ==
  a.event \in SingletonEvents /\ r.user = a.user /\ r.event = a.event

\* Mutant of InsertMayRun: the index sees committed rows only.
InsertNeverWaits(p) == TRUE

\* An insert waits for a transaction that has the same singleton pending.
InsertMayRun(p) ==
  \A q \in Procs \ {p} : \A r \in open[q] : ~Duplicates(Head(todo[p]), r)

\* done is the statement that follows the last append.
AppendInsert(p, done) ==
  /\ pc[p] = "insert"
  /\ InsertMayRun(p)
  /\ LET a == Head(todo[p])
         after == bal[p] + a.delta
     IN
       /\ \A r \in Visible(p) : ~Duplicates(a, r)
       /\ \E stamp \in IF MsTies THEN {ms, ms + 1} ELSE {ms + 1} :
            /\ ms' = stamp
            /\ open' = [open EXCEPT ![p] = @ \cup
                 {[id |-> inserted + 1, user |-> a.user, event |-> a.event,
                   delta |-> a.delta, balance |-> after, ts |-> stamp, day |-> day]}]
       /\ bal' = [bal EXCEPT ![p] = after]
  /\ inserted' = inserted + 1
  /\ todo' = [todo EXCEPT ![p] = Tail(@)]
  /\ Goto(p, IF Len(todo[p]) = 1 THEN done ELSE "append")
  /\ UNCHANGED <<rowVars, ledger, held, frame, day, calls>>

\* Mutant of AppendDuplicate: the refused insert is tried again.
RetryDuplicate(p) ==
  /\ pc[p] = "insert"
  /\ InsertMayRun(p)
  /\ \E r \in Visible(p) : Duplicates(Head(todo[p]), r)
  /\ Goto(p, "append")
  /\ UNCHANGED <<rowVars, ledgerVars, frame, todo, bal, clockVars, calls>>

\* The unique index refuses the row: the caller catches the error.
AppendDuplicate(p) ==
  /\ pc[p] = "insert"
  /\ InsertMayRun(p)
  /\ \E r \in Visible(p) : Duplicates(Head(todo[p]), r)
  /\ GiveUp(p)

-----------------------------------------------------------------------------
\* SELECT balance_after ... ORDER BY created_at_ms DESC LIMIT 1 FOR UPDATE.
\* The row is picked from the statement's snapshot; if another transaction
\* holds it the statement waits, and then returns that row all the same: a
\* row appended meanwhile is not in its snapshot.

PickLastRow(p, next) ==
  /\ LET last == LastRows(Visible(p), frame[p].user) IN
       \/ /\ last = {}
          /\ frame' = [frame EXCEPT ![p].row = NoRow]
          /\ bal' = [bal EXCEPT ![p] = 0]
       \/ \E r \in last :
            /\ frame' = [frame EXCEPT ![p].row = r]
            /\ bal' = [bal EXCEPT ![p] = r.balance]
  /\ Goto(p, next)
  /\ UNCHANGED <<rowVars, ledgerVars, todo, clockVars, calls>>

LastRowFree(p) == \A q \in Procs \ {p} : frame[p].row \notin held[q]

HoldLastRow(p) == held' = [held EXCEPT ![p] = {frame[p].row} \ {NoRow}]

-----------------------------------------------------------------------------
\* ensureManualUserState outside a transaction.

\* The SELECT finds no row, so the INSERT is sent next.
EnsureMissing(p) ==
  /\ pc[p] = "ensure"
  /\ db[StateRow(frame[p].user)] = NoRow
  /\ Goto(p, "ensureInsert")
  /\ UNCHANGED <<rowVars, ledgerVars, frame, todo, bal, clockVars, calls>>

\* The INSERT commits by itself; a duplicate key makes the handler answer
\* AUTH_REQUIRED.
EnsureInsert(p, next) ==
  LET k == StateRow(frame[p].user) IN
  /\ pc[p] = "ensureInsert"
  /\ \/ /\ db[k] = NoRow
        /\ AutocommitRow(k, FreshState)
        /\ Goto(p, next)
        /\ UNCHANGED <<ledgerVars, frame, todo, bal, clockVars, calls>>
     \/ Refused(p, k) /\ GiveUp(p)

NextDay ==
  /\ day < MaxDay
  /\ MidCallRollover \/ \A p \in Procs : pc[p] = "idle"
  /\ day' = day + 1
  /\ UNCHANGED <<rowVars, ledgerVars, pc, frame, todo, bal, inserted, ms, calls>>

-----------------------------------------------------------------------------
\* What every module built on this one promises of the ledger: racing handlers,
\* refused inserts, crashes and commits together never do more to it than the
\* abstract ledger allows.
Index == INSTANCE UniqueLedger WITH Singletons <- SingletonEvents

ImplementsUniqueLedger == Index!Spec

\* An instance with nothing to do may wait for ever.
Quiet == (\A p \in Procs : pc[p] = "idle") /\ UNCHANGED vars
=============================================================================
