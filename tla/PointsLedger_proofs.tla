------------------------- MODULE PointsLedger_proofs -------------------------
(***************************************************************************)
(* What the handlers of the points service share: their steps implement    *)
(* those of UniqueLedger, whose own theorems are here too; every statement *)
(* keeps the types of the rows and locals it works on; and the accounting  *)
(* of what open transactions have inserted and still owe, with the lemmas  *)
(* about sums it needs.                                                    *)
(***************************************************************************)
EXTENDS PointsLedger, FiniteSetTheorems, SequenceTheorems, WellFoundedInduction, TLAPS

\* The insert that the unique index lets through appends one row, which is
\* neither committed nor pending anywhere.
LEMMA InsertAppends ==
  ASSUME NEW p \in Procs, NEW done, DOMAIN open = Procs, AppendInsert(p, done)
  PROVE  Index!Append(p)
<1> DEFINE a == Head(todo[p])
<1>1. PICK stamp :
        open' = [open EXCEPT ![p] = @ \cup
          {[id |-> inserted + 1, user |-> a.user, event |-> a.event,
            delta |-> a.delta, balance |-> bal[p] + a.delta, ts |-> stamp, day |-> day]}]
  BY DEF AppendInsert
<1> DEFINE row == [id |-> inserted + 1, user |-> a.user, event |-> a.event,
                   delta |-> a.delta, balance |-> bal[p] + a.delta, ts |-> stamp, day |-> day]
<1>2. row.event = a.event /\ row.user = a.user
  OBVIOUS
<1>3. ASSUME NEW r \in ledger \cup UNION {open[q] : q \in Procs}
      PROVE  ~Index!Clash(row, r)
  <2>1. ~Duplicates(a, r)
    <3>1. CASE r \in Visible(p)
      BY <3>1 DEF AppendInsert
    <3>2. CASE r \notin Visible(p)
      <4>1. PICK q \in Procs \ {p} : r \in open[q]
        BY <1>3, <3>2 DEF Visible
      <4>2. QED
        BY <4>1 DEF AppendInsert, InsertMayRun
    <3>3. QED
      BY <3>1, <3>2
  <2>2. QED
    BY <1>2, <2>1 DEF Duplicates, Index!Clash
<1>4. row \in open'[p]
  BY <1>1
<1>5. UNCHANGED ledger
  BY DEF AppendInsert
<1>6. QED
  BY <1>1, <1>3, <1>4, <1>5 DEF Index!Append

\* A handler that gives up or dies drops the rows its transaction inserted.
LEMMA GiveUpRollsBack ==
  ASSUME NEW p \in Procs, GiveUp(p)
  PROVE  Index!Rollback(p)
BY DEF GiveUp, Index!Rollback

\* A COMMIT publishes the rows of its own transaction and nothing else.
LEMMA CommitCommits ==
  ASSUME NEW p \in Procs, CommitLedger(p)
  PROVE  Index!Commit(p)
BY DEF CommitLedger, Index!Commit

-----------------------------------------------------------------------------
\* The abstract ledger's own theorems.  Unique(ledger) alone is not inductive:
\* a commit publishes rows that were checked when they were inserted, so the
\* invariant speaks of all the rows there are, committed or not.
IndexRows == ledger \cup UNION {open[q] : q \in Procs}

IndexInv ==
  /\ DOMAIN open = Procs
  /\ Index!Unique(IndexRows)

\* An insert is checked against every row there is, so it adds no clash.
LEMMA AppendKeepsIndex ==
  ASSUME NEW p \in Procs, IndexInv, Index!Append(p)
  PROVE  IndexInv'
<1>1. PICK row \in open'[p] :
        /\ \A r \in IndexRows : ~Index!Clash(row, r)
        /\ open' = [open EXCEPT ![p] = @ \cup {row}]
        /\ UNCHANGED ledger
  BY DEF Index!Append, IndexRows
<1>2. DOMAIN open' = Procs
  BY <1>1 DEF IndexInv
<1>3. IndexRows' \subseteq IndexRows \cup {row}
  BY <1>1 DEF IndexInv, IndexRows
<1>4. ASSUME NEW r \in IndexRows', NEW s \in IndexRows', Index!Clash(r, s)
      PROVE  r = s
  <2>1. Index!Clash(s, r)
    BY <1>4 DEF Index!Clash
  <2>2. QED
    BY <1>1, <1>3, <1>4, <2>1 DEF IndexInv, Index!Unique
<1>5. QED
  BY <1>2, <1>4 DEF IndexInv, Index!Unique, Index!Clash

\* A commit only moves rows, a rollback only drops them.
LEMMA EndKeepsIndex ==
  ASSUME NEW p \in Procs, IndexInv, Index!Commit(p) \/ Index!Rollback(p)
  PROVE  IndexInv'
<1>1. DOMAIN open' = Procs
  BY DEF IndexInv, Index!Commit, Index!Rollback
<1>2. IndexRows' \subseteq IndexRows
  BY DEF IndexInv, IndexRows, Index!Commit, Index!Rollback
<1>3. QED
  BY <1>1, <1>2 DEF IndexInv, Index!Unique, Index!Clash

\* A user has at most one committed row of each singleton event, whatever is
\* still open: what idx_manual_points_ledger_singleton is for.
THEOREM IndexAlwaysHolds == Index!Spec => []Index!IndexHolds
<1>1. Index!Init => IndexInv
  BY DEF Index!Init, IndexInv, IndexRows, Index!Unique, Index!Clash
<1>2. IndexInv /\ [Index!Next]_<<ledger, open>> => IndexInv'
  <2> SUFFICES ASSUME IndexInv, [Index!Next]_<<ledger, open>>
               PROVE  IndexInv'
    OBVIOUS
  <2>1. CASE UNCHANGED <<ledger, open>>
    BY <2>1 DEF IndexInv, IndexRows, Index!Unique, Index!Clash
  <2>2. CASE Index!Next
    BY <2>2, AppendKeepsIndex, EndKeepsIndex DEF Index!Next
  <2>3. QED
    BY <2>1, <2>2
<1>3. IndexInv => Index!IndexHolds
  BY DEF IndexInv, Index!IndexHolds, Index!Unique, Index!Clash, IndexRows
<1>4. QED
  BY <1>1, <1>2, <1>3, PTL DEF Index!Spec

\* No step of the abstract ledger takes a committed row away: the service has
\* no UPDATE and no DELETE on manual_points_ledger.
THEOREM AppendOnly == Index!Spec => [][ledger \subseteq ledger']_<<ledger, open>>
<1>1. [Index!Next]_<<ledger, open>> => [ledger \subseteq ledger']_<<ledger, open>>
  BY DEF Index!Next, Index!Append, Index!Commit, Index!Rollback
<1>2. QED
  BY <1>1, PTL DEF Index!Spec

\* A system that implements the abstract ledger has the singleton index.
LEMMA IndexOfImplementation == ImplementsUniqueLedger => []Index!IndexHolds
BY IndexAlwaysHolds, PTL DEF ImplementsUniqueLedger

-----------------------------------------------------------------------------
\* What every statement preserves of the rows it works on.  P[k] is the set of
\* versions a row with key k may have: a row once committed stays, in the
\* committed state and in the view of the transaction that owns it.

RowsInv(P) ==
  /\ db = [k \in DOMAIN P |-> db[k]]
  /\ new = [k \in DOMAIN P |-> new[k]]
  /\ owner \in [DOMAIN P -> Procs \cup {NoProc}]
  /\ \A k \in DOMAIN P :
       /\ db[k] \in P[k] \cup {NoRow}
       /\ new[k] \in P[k] \cup {NoRow}
       /\ db[k] \in P[k] => new[k] \in P[k]

\* No committed row goes away.
RowsStay(P) == \A k \in DOMAIN P : db[k] \in P[k] => db'[k] \in P[k]

\* SELECT ... FOR UPDATE
LEMMA LockKeepsRows ==
  ASSUME NEW P, NEW p \in Procs, NEW k \in DOMAIN P, RowsInv(P), LockRow(p, k)
  PROVE  RowsInv(P)' /\ RowsStay(P)
BY DEF RowsInv, RowsStay, LockRow

\* INSERT and UPDATE inside a transaction
LEMMA WriteKeepsRows ==
  ASSUME NEW P, NEW p \in Procs, NEW k \in DOMAIN P, NEW v \in P[k],
         RowsInv(P), WriteRow(p, k, v)
  PROVE  RowsInv(P)' /\ RowsStay(P)
BY DEF RowsInv, RowsStay, WriteRow

\* A statement that commits by itself
LEMMA AutocommitKeepsRows ==
  ASSUME NEW P, NEW k \in DOMAIN P, NEW v \in P[k], RowsInv(P), AutocommitRow(k, v)
  PROVE  RowsInv(P)' /\ RowsStay(P)
BY DEF RowsInv, RowsStay, AutocommitRow

\* COMMIT
LEMMA CommitKeepsRows ==
  ASSUME NEW P, NEW p \in Procs, RowsInv(P), CommitRows(p)
  PROVE  RowsInv(P)' /\ RowsStay(P)
BY DEF RowsInv, RowsStay, CommitRows, Sees, Unlocked

\* ROLLBACK
LEMMA RollbackKeepsRows ==
  ASSUME NEW P, NEW p \in Procs, RowsInv(P), RollbackRows(p)
  PROVE  RowsInv(P)' /\ RowsStay(P)
BY DEF RowsInv, RowsStay, RollbackRows, Unlocked

\* A statement that only reads
LEMMA ReadKeepsRows ==
  ASSUME NEW P, RowsInv(P), UNCHANGED rowVars
  PROVE  RowsInv(P)' /\ RowsStay(P)
BY DEF RowsInv, RowsStay, rowVars

-----------------------------------------------------------------------------
\* The type of the state every handler shares.  P[k] holds the versions a row
\* with key k may have, E the events, F the frames and C the statements of the
\* handlers.

RowsOf(E) ==
  [id : Nat, user : Users, event : E, delta : Int, balance : Int, ts : Nat, day : 1..MaxDay]

AppendsOf(E) == [user : Users, event : E, delta : Int, chain : BOOLEAN]

Shared(P, E, F, C) ==
  /\ RowsInv(P)
  /\ ledger \subseteq RowsOf(E)
  /\ open \in [Procs -> SUBSET RowsOf(E)]
  /\ held \in [Procs -> SUBSET RowsOf(E)]
  /\ pc \in [Procs -> C]
  /\ frame \in [Procs -> F]
  /\ todo \in [Procs -> Seq(AppendsOf(E))]
  /\ bal \in [Procs -> Int]
  /\ inserted \in Nat /\ ms \in Nat /\ calls \in Nat
  /\ day \in 1..MaxDay
  /\ \A p \in Procs : pc[p] \in {"append", "insert", "makeState"} => todo[p] # <<>>

\* What the others see of a step of p.
OthersKept(p) ==
  \A q \in Procs \ {p} : pc'[q] = pc[q] /\ frame'[q] = frame[q]

\* A call starts.
LEMMA StartKeeps ==
  ASSUME NEW P, NEW E, NEW F, NEW C, NEW p \in Procs, NEW f \in F, NEW first \in C,
         first \notin {"append", "insert", "makeState"},
         Shared(P, E, F, C), StartCall(p, f, first)
  PROVE  /\ Shared(P, E, F, C)'
         /\ RowsStay(P)
         /\ OthersKept(p)
         /\ pc'[p] = first /\ frame'[p] = f
<1>1. RowsInv(P)' /\ RowsStay(P)
  BY ReadKeepsRows DEF Shared, StartCall
<1>2. QED
  BY <1>1 DEF Shared, StartCall, Goto, OthersKept, ledgerVars, clockVars

\* A handler gives up, or its instance dies.
LEMMA GiveUpKeeps ==
  ASSUME NEW P, NEW E, NEW F, NEW C, NEW p \in Procs, NoFrame \in F, "idle" \in C,
         Shared(P, E, F, C), GiveUp(p)
  PROVE  /\ Shared(P, E, F, C)'
         /\ RowsStay(P)
         /\ OthersKept(p)
         /\ pc'[p] = "idle" /\ frame'[p] = NoFrame
<1>1. RowsInv(P)' /\ RowsStay(P)
  BY RollbackKeepsRows DEF Shared, GiveUp
<1>2. <<>> \in Seq(AppendsOf(E))
  OBVIOUS
<1>3. QED
  BY <1>1, <1>2 DEF Shared, GiveUp, Return, Goto, OthersKept, clockVars

\* COMMIT of the tables and of the ledger.
LEMMA CommitLedgerKeeps ==
  ASSUME NEW P, NEW E, NEW F, NEW C, NEW p \in Procs, Shared(P, E, F, C), CommitLedger(p)
  PROVE  /\ RowsInv(P)' /\ RowsStay(P)
         /\ ledger' \subseteq RowsOf(E)
         /\ open' \in [Procs -> SUBSET RowsOf(E)]
         /\ held' \in [Procs -> SUBSET RowsOf(E)]
<1>1. RowsInv(P)' /\ RowsStay(P)
  BY CommitKeepsRows DEF Shared, CommitLedger
<1>2. QED
  BY <1>1 DEF Shared, CommitLedger

\* The last statement of a handler.
LEMMA CommitKeeps ==
  ASSUME NEW P, NEW E, NEW F, NEW C, NEW p \in Procs, NoFrame \in F, "idle" \in C,
         Shared(P, E, F, C), Commit(p)
  PROVE  /\ Shared(P, E, F, C)'
         /\ RowsStay(P)
         /\ OthersKept(p)
         /\ pc'[p] = "idle" /\ frame'[p] = NoFrame
<1>1. RowsInv(P)' /\ RowsStay(P)
  BY CommitLedgerKeeps DEF Commit
<1>2. ledger' \subseteq RowsOf(E) /\ open' \in [Procs -> SUBSET RowsOf(E)]
        /\ held' \in [Procs -> SUBSET RowsOf(E)]
  BY CommitLedgerKeeps DEF Commit
<1>3. <<>> \in Seq(AppendsOf(E))
  OBVIOUS
<1>4. /\ pc' = [pc EXCEPT ![p] = "idle"]
      /\ frame' = [frame EXCEPT ![p] = NoFrame]
      /\ todo' = [todo EXCEPT ![p] = <<>>]
      /\ bal' = [bal EXCEPT ![p] = 0]
      /\ inserted' = inserted /\ ms' = ms /\ day' = day /\ calls' = calls
  BY DEF Commit, Return, Goto, clockVars
<1>5. QED
  BY <1>1, <1>2, <1>3, <1>4 DEF Shared, OthersKept

\* The next append reads the balance.
LEMMA AppendReadKeeps ==
  ASSUME NEW P, NEW E, NEW F, NEW C, NEW p \in Procs, "insert" \in C,
         Shared(P, E, F, C), AppendRead(p)
  PROVE  /\ Shared(P, E, F, C)'
         /\ RowsStay(P)
         /\ OthersKept(p)
         /\ pc'[p] = "insert" /\ frame'[p] = frame[p]
<1>1. RowsInv(P)' /\ RowsStay(P)
  BY ReadKeepsRows DEF Shared, AppendRead
<1>2. \A b \in Balances(p, Head(todo[p]).user) : b \in Int
  BY DEF Shared, Balances, LastRows, Visible, RowsOf
<1>3. bal' \in [Procs -> Int]
  BY <1>2 DEF Shared, AppendRead
<1>4. QED
  BY <1>1, <1>3 DEF Shared, AppendRead, Goto, OthersKept, ledgerVars, clockVars

\* The insert of a ledger row.
LEMMA AppendInsertKeeps ==
  ASSUME NEW P, NEW E, NEW F, NEW C, NEW p \in Procs, NEW done \in C, "append" \in C,
         done \notin {"append", "insert", "makeState"},
         Shared(P, E, F, C), AppendInsert(p, done)
  PROVE  /\ Shared(P, E, F, C)'
         /\ RowsStay(P)
         /\ OthersKept(p)
         /\ pc'[p] \in {done, "append"} /\ frame'[p] = frame[p]
<1> DEFINE a == Head(todo[p])
<1>1. RowsInv(P)' /\ RowsStay(P)
  BY ReadKeepsRows DEF Shared, AppendInsert
<1>2. todo[p] \in Seq(AppendsOf(E)) /\ todo[p] # <<>>
  BY DEF Shared, AppendInsert
<1>3. a \in AppendsOf(E) /\ Tail(todo[p]) \in Seq(AppendsOf(E))
  BY <1>2
<1>4. Len(todo[p]) # 1 => Tail(todo[p]) # <<>>
  <2>1. Len(todo[p]) \in Nat /\ Len(todo[p]) # 0
    BY <1>2, EmptySeq
  <2>2. Len(Tail(todo[p])) = Len(todo[p]) - 1
    BY <1>2, HeadTailProperties
  <2>3. CASE Tail(todo[p]) = <<>>
    <3>1. Len(Tail(todo[p])) = 0
      BY <2>3, EmptySeq
    <3>2. QED
      BY <2>1, <2>2, <3>1
  <2>4. QED
    BY <2>3
<1>5. PICK stamp \in {ms, ms + 1} :
        /\ ms' = stamp
        /\ open' = [open EXCEPT ![p] = @ \cup
             {[id |-> inserted + 1, user |-> a.user, event |-> a.event, delta |-> a.delta,
               balance |-> bal[p] + a.delta, ts |-> stamp, day |-> day]}]
  BY DEF AppendInsert
<1>6. [id |-> inserted + 1, user |-> a.user, event |-> a.event, delta |-> a.delta,
       balance |-> bal[p] + a.delta, ts |-> stamp, day |-> day] \in RowsOf(E)
  BY <1>3, <1>5 DEF Shared, RowsOf, AppendsOf
<1>7. open' \in [Procs -> SUBSET RowsOf(E)] /\ ms' \in Nat
  BY <1>5, <1>6 DEF Shared
<1>8. bal' \in [Procs -> Int]
  BY <1>3 DEF Shared, AppendInsert, AppendsOf
<1>9. todo' \in [Procs -> Seq(AppendsOf(E))]
  BY <1>3 DEF Shared, AppendInsert
<1>10. QED
  BY <1>1, <1>4, <1>7, <1>8, <1>9 DEF Shared, AppendInsert, Goto, OthersKept

\* The singleton index refuses the row.
LEMMA AppendDuplicateKeeps ==
  ASSUME NEW P, NEW E, NEW F, NEW C, NEW p \in Procs, NoFrame \in F, "idle" \in C,
         Shared(P, E, F, C), AppendDuplicate(p)
  PROVE  /\ Shared(P, E, F, C)'
         /\ RowsStay(P)
         /\ OthersKept(p)
         /\ pc'[p] = "idle" /\ frame'[p] = NoFrame
BY GiveUpKeeps DEF AppendDuplicate

\* ensureManualUserState outside a transaction: nothing found.
LEMMA EnsureMissingKeeps ==
  ASSUME NEW P, NEW E, NEW F, NEW C, NEW p \in Procs, "ensureInsert" \in C,
         Shared(P, E, F, C), EnsureMissing(p)
  PROVE  /\ Shared(P, E, F, C)'
         /\ RowsStay(P)
         /\ OthersKept(p)
         /\ pc[p] = "ensure" /\ pc'[p] = "ensureInsert" /\ frame'[p] = frame[p]
<1>1. RowsInv(P)' /\ RowsStay(P)
  BY ReadKeepsRows DEF Shared, EnsureMissing
<1>2. QED
  BY <1>1 DEF Shared, EnsureMissing, Goto, OthersKept, ledgerVars, clockVars

\* Its INSERT makes the row, or finds that somebody else has.
LEMMA EnsureInsertKeeps ==
  ASSUME NEW P, NEW E, NEW F, NEW C, NEW p \in Procs, NEW next \in C, NoFrame \in F,
         "idle" \in C, next \notin {"append", "insert", "makeState"},
         StateRow(frame[p].user) \in DOMAIN P, FreshState \in P[StateRow(frame[p].user)],
         Shared(P, E, F, C), EnsureInsert(p, next)
  PROVE  /\ Shared(P, E, F, C)'
         /\ RowsStay(P)
         /\ OthersKept(p)
         /\ pc[p] = "ensureInsert"
         /\ \/ pc'[p] = "idle" /\ frame'[p] = NoFrame
            \/ /\ pc'[p] = next /\ frame'[p] = frame[p]
               /\ db'[StateRow(frame[p].user)] \in P[StateRow(frame[p].user)]
<1> DEFINE k == StateRow(frame[p].user)
<1>1. CASE GiveUp(p)
  BY <1>1, GiveUpKeeps DEF EnsureInsert
<1>2. CASE /\ AutocommitRow(k, FreshState)
           /\ Goto(p, next)
           /\ UNCHANGED <<ledgerVars, frame, todo, bal, clockVars, calls>>
  <2>1. RowsInv(P)' /\ RowsStay(P)
    BY <1>2, AutocommitKeepsRows DEF Shared
  <2>2. db'[k] = FreshState
    BY <1>2 DEF AutocommitRow, Shared, RowsInv
  <2>3. pc[p] = "ensureInsert"
    BY DEF EnsureInsert
  <2>4. QED
    BY <1>2, <2>1, <2>2, <2>3 DEF Shared, Goto, OthersKept, ledgerVars, clockVars
<1>3. QED
  BY <1>1, <1>2 DEF EnsureInsert

\* A new day.
LEMMA NextDayKeeps ==
  ASSUME NEW P, NEW E, NEW F, NEW C, Shared(P, E, F, C), NextDay
  PROVE  Shared(P, E, F, C)' /\ RowsStay(P)
<1>1. RowsInv(P)' /\ RowsStay(P)
  BY ReadKeepsRows DEF Shared, NextDay
<1>2. day' \in 1..MaxDay
  BY LedgerAssumption DEF Shared, NextDay
<1>3. QED
  BY <1>1, <1>2 DEF Shared, NextDay, ledgerVars

\* A step of something else.
LEMMA StutterKeeps ==
  ASSUME NEW P, NEW E, NEW F, NEW C, Shared(P, E, F, C), UNCHANGED vars
  PROVE  Shared(P, E, F, C)' /\ RowsStay(P)
<1>1. RowsInv(P)' /\ RowsStay(P)
  BY ReadKeepsRows DEF Shared, vars
<1>2. QED
  BY <1>1 DEF Shared, vars, ledgerVars, clockVars

-----------------------------------------------------------------------------
\* The ids of the ledger.  A property that counts rows needs to know that the
\* rows a COMMIT publishes are new: no two transactions, and no transaction
\* and the ledger, share an id.

IdsOK ==
  /\ \A r \in ledger : r.id <= inserted
  /\ \A p \in Procs : \A r \in open[p] :
       /\ r.id <= inserted
       /\ \A s \in ledger : s.id # r.id
       /\ \A q \in Procs \ {p} : \A s \in open[q] : s.id # r.id

\* What a transaction has appended is not in the ledger yet.
LEMMA OpenRowsAreNew ==
  ASSUME IdsOK, NEW p \in Procs, NEW r \in open[p]
  PROVE  r \notin ledger
BY DEF IdsOK

\* Ids are given once and for all.
LEMMA IdsStay ==
  ASSUME NEW P, NEW E, NEW F, NEW C, NEW p \in Procs, NEW done,
         Shared(P, E, F, C), IdsOK,
         \/ UNCHANGED <<ledger, open, inserted>>
         \/ GiveUp(p)
         \/ CommitLedger(p) /\ UNCHANGED inserted
         \/ AppendInsert(p, done)
  PROVE  IdsOK'
<1>1. /\ open \in [Procs -> SUBSET RowsOf(E)] /\ ledger \subseteq RowsOf(E)
      /\ inserted \in Nat
  BY DEF Shared
<1>2. \A r \in RowsOf(E) : r.id \in Nat
  BY DEF RowsOf
<1>3. CASE UNCHANGED <<ledger, open, inserted>>
  BY <1>3 DEF IdsOK
<1>4. CASE GiveUp(p)
  <2>1. open' = [open EXCEPT ![p] = {}] /\ UNCHANGED <<ledger, inserted>>
    BY <1>4 DEF GiveUp, clockVars
  <2>2. QED
    BY <1>1, <2>1 DEF IdsOK
<1>5. CASE CommitLedger(p) /\ UNCHANGED inserted
  <2>1. open' = [open EXCEPT ![p] = {}] /\ ledger' = ledger \cup open[p] /\ inserted' = inserted
    BY <1>5 DEF CommitLedger
  <2>2. QED
    BY <1>1, <2>1 DEF IdsOK
<1>6. CASE AppendInsert(p, done)
  <2>1. PICK row : row.id = inserted + 1 /\ open' = [open EXCEPT ![p] = @ \cup {row}]
    <3>1. PICK stamp :
            open' = [open EXCEPT ![p] = @ \cup
              {[id |-> inserted + 1, user |-> Head(todo[p]).user, event |-> Head(todo[p]).event,
                delta |-> Head(todo[p]).delta, balance |-> bal[p] + Head(todo[p]).delta,
                ts |-> stamp, day |-> day]}]
      BY <1>6 DEF AppendInsert
    <3>2. QED
      BY <3>1
  <2>2. ledger' = ledger /\ inserted' = inserted + 1
    BY <1>6 DEF AppendInsert
  <2>3. /\ open'[p] = open[p] \cup {row} /\ \A q \in Procs \ {p} : open'[q] = open[q]
    BY <1>1, <2>1
  <2>4. \A r \in ledger : r.id <= inserted' /\ r.id # row.id
    BY <1>1, <1>2, <2>1, <2>2 DEF IdsOK
  <2>5. \A q \in Procs : \A r \in open[q] : r.id <= inserted' /\ r.id # row.id
    BY <1>1, <1>2, <2>1, <2>2 DEF IdsOK
  <2>6. row.id <= inserted'
    BY <1>1, <2>1, <2>2
  <2>7. QED
    BY <2>2, <2>3, <2>4, <2>5, <2>6 DEF IdsOK
<1>7. QED
  BY <1>3, <1>4, <1>5, <1>6

\* One more element counts for one more.
LEMMA OneMore ==
  ASSUME NEW S, NEW x, IsFiniteSet(S), x \notin S
  PROVE  /\ IsFiniteSet(S \cup {x})
         /\ Cardinality(S \cup {x}) = Cardinality(S) + 1
BY FS_AddElement

-----------------------------------------------------------------------------
\* What an open transaction owes: the rows of an event it has appended for a
\* user, and those it has still to append.  A handler decides on them, and the
\* other rows they go with, statements before the last of them is inserted.

PaidRows(e, u) == {r \in ledger : r.user = u /\ r.event = e}

Appended(p, e, u) == {r \in open[p] : r.user = u /\ r.event = e}

Due(p, e, u) == {i \in DOMAIN todo[p] : todo[p][i].user = u /\ todo[p][i].event = e}

OwesNone(p, e, u) == Appended(p, e, u) = {} /\ Due(p, e, u) = {}

OwesOne(p, e, u) ==
  \/ Appended(p, e, u) = {} /\ \E i \in DOMAIN todo[p] : Due(p, e, u) = {i}
  \/ Due(p, e, u) = {} /\ \E r \in open[p] : Appended(p, e, u) = {r}

\* A step that touches neither the appends nor the rows of a transaction.
LEMMA OwesStays ==
  ASSUME NEW q, open'[q] = open[q], todo'[q] = todo[q], NEW e, NEW u
  PROVE  (OwesNone(q, e, u)' <=> OwesNone(q, e, u)) /\ (OwesOne(q, e, u)' <=> OwesOne(q, e, u))
BY DEF OwesNone, OwesOne, Appended, Due

\* A transaction that has ended owes nothing.
LEMMA EndedOwesNone ==
  ASSUME NEW p, open'[p] = {}, todo'[p] = <<>>, NEW e, NEW u
  PROVE  OwesNone(p, e, u)'
BY DEF OwesNone, Appended, Due

\* The INSERT of a ledger row moves an append from what is still to be made to
\* what is made.
LEMMA InsertPays ==
  ASSUME NEW P, NEW E, NEW F, NEW C, NEW p \in Procs, NEW done, done # "append",
         Shared(P, E, F, C), AppendInsert(p, done)
  PROVE  /\ pc'[p] \in {"append", done} /\ (pc'[p] = done => todo'[p] = <<>>)
         /\ \A q \in Procs \ {p} : open'[q] = open[q] /\ todo'[q] = todo[q]
         /\ \A e, u : /\ OwesNone(p, e, u) => OwesNone(p, e, u)'
                      /\ OwesOne(p, e, u) => OwesOne(p, e, u)'
<1> DEFINE a == Head(todo[p])
<1>1. todo[p] # <<>> /\ todo[p] \in Seq(AppendsOf(E))
  BY DEF AppendInsert, Shared
<1>2. /\ todo' = [todo EXCEPT ![p] = Tail(@)]
      /\ pc' = [pc EXCEPT ![p] = IF Len(todo[p]) = 1 THEN done ELSE "append"]
  BY DEF AppendInsert, Goto
<1>3. PICK row : row.user = a.user /\ row.event = a.event
                   /\ open' = [open EXCEPT ![p] = @ \cup {row}]
  <2>1. PICK stamp :
          open' = [open EXCEPT ![p] = @ \cup
            {[id |-> inserted + 1, user |-> a.user, event |-> a.event,
              delta |-> a.delta, balance |-> bal[p] + a.delta, ts |-> stamp, day |-> day]}]
    BY DEF AppendInsert
  <2>2. QED
    BY <2>1
<1>4. /\ open'[p] = open[p] \cup {row} /\ todo'[p] = Tail(todo[p])
      /\ pc'[p] = (IF Len(todo[p]) = 1 THEN done ELSE "append")
      /\ \A q \in Procs \ {p} : open'[q] = open[q] /\ todo'[q] = todo[q]
  BY <1>2, <1>3 DEF Shared
<1>5. /\ Tail(todo[p]) \in Seq(AppendsOf(E)) /\ Len(Tail(todo[p])) = Len(todo[p]) - 1
      /\ \A i \in 1..Len(Tail(todo[p])) : Tail(todo[p])[i] = todo[p][i + 1]
  BY <1>1, HeadTailProperties
<1>6. Len(todo[p]) \in Nat \ {0} /\ a = todo[p][1]
  BY <1>1, EmptySeq
<1>7. /\ DOMAIN todo[p] = 1..Len(todo[p]) /\ DOMAIN todo'[p] = 1..(Len(todo[p]) - 1)
      /\ \A i \in DOMAIN todo'[p] : todo'[p][i] = todo[p][i + 1]
  BY <1>1, <1>4, <1>5, <1>6, LenProperties
<1>8. pc'[p] = done => todo'[p] = <<>>
  <2>1. Len(todo[p]) = 1 => Len(Tail(todo[p])) = 0
    BY <1>5, <1>6
  <2>2. Len(Tail(todo[p])) = 0 => Tail(todo[p]) = <<>>
    BY <1>5, EmptySeq
  <2>3. QED
    BY <1>4, <2>1, <2>2
<1>9. ASSUME NEW e, NEW u
      PROVE  /\ OwesNone(p, e, u) => OwesNone(p, e, u)'
             /\ OwesOne(p, e, u) => OwesOne(p, e, u)'
  <2>1. Due(p, e, u)' = {i \in 1..(Len(todo[p]) - 1) : i + 1 \in Due(p, e, u)}
    BY <1>6, <1>7 DEF Due
  <2>2. 1 \in Due(p, e, u) <=> a.user = u /\ a.event = e
    BY <1>6, <1>7 DEF Due
  <2>3. CASE 1 \in Due(p, e, u)
    <3>1. Appended(p, e, u)' = Appended(p, e, u) \cup {row} /\ row \in open'[p]
      BY <1>3, <1>4, <2>2, <2>3 DEF Appended
    <3>2. Due(p, e, u) = {1} => Due(p, e, u)' = {}
      BY <1>6, <2>1
    <3>3. OwesOne(p, e, u) => Due(p, e, u) = {1} /\ Appended(p, e, u) = {}
      BY <2>3 DEF OwesOne
    <3>4. QED
      BY <2>3, <3>1, <3>2, <3>3 DEF OwesNone, OwesOne
  <2>4. CASE 1 \notin Due(p, e, u)
    <3>1. Appended(p, e, u)' = Appended(p, e, u)
      BY <1>3, <1>4, <2>2, <2>4 DEF Appended
    <3>2. Due(p, e, u) = {} => Due(p, e, u)' = {}
      BY <2>1
    <3>3. ASSUME NEW i \in DOMAIN todo[p], Due(p, e, u) = {i}
          PROVE  i - 1 \in DOMAIN todo'[p] /\ Due(p, e, u)' = {i - 1}
      <4>1. i \in 1..Len(todo[p]) /\ i # 1
        BY <1>7, <2>4, <3>3
      <4>2. i - 1 \in 1..(Len(todo[p]) - 1) /\ (i - 1) + 1 = i
        BY <1>6, <4>1
      <4>3. \A j \in 1..(Len(todo[p]) - 1) : j + 1 = i => j = i - 1
        BY <1>6, <4>1
      <4>4. QED
        BY <1>7, <2>1, <3>3, <4>2, <4>3
    <3>4. CASE OwesNone(p, e, u)
      BY <3>1, <3>2, <3>4 DEF OwesNone, OwesOne
    <3>5. CASE OwesOne(p, e, u)
      <4>1. CASE Appended(p, e, u) = {} /\ \E i \in DOMAIN todo[p] : Due(p, e, u) = {i}
        BY <3>1, <3>3, <4>1 DEF OwesOne, OwesNone
      <4>2. CASE Due(p, e, u) = {} /\ \E r \in open[p] : Appended(p, e, u) = {r}
        BY <1>4, <3>1, <3>2, <4>2 DEF OwesOne, OwesNone
      <4>3. QED
        BY <3>5, <4>1, <4>2 DEF OwesOne
    <3>6. QED
      BY <3>4, <3>5
  <2>5. QED
    BY <2>3, <2>4
<1>10. QED
  BY <1>4, <1>8, <1>9

\* COMMIT pays what the transaction owed, by one row if it owed one.
LEMMA CommitPays ==
  ASSUME IdsOK, NEW p \in Procs, todo[p] = <<>>, ledger' = ledger \cup open[p],
         NEW e, NEW u, IsFiniteSet(PaidRows(e, u))
  PROVE  /\ OwesNone(p, e, u) => PaidRows(e, u)' = PaidRows(e, u)
         /\ OwesOne(p, e, u) =>
              /\ IsFiniteSet(PaidRows(e, u)')
              /\ Cardinality(PaidRows(e, u)') = Cardinality(PaidRows(e, u)) + 1
<1>1. PaidRows(e, u)' = PaidRows(e, u) \cup Appended(p, e, u)
  BY DEF PaidRows, Appended
<1>2. Due(p, e, u) = {}
  BY DEF Due
<1>3. ASSUME OwesOne(p, e, u)
      PROVE  \E r : Appended(p, e, u) = {r} /\ r \notin PaidRows(e, u)
  <2>1. PICK r \in open[p] : Appended(p, e, u) = {r}
    BY <1>2, <1>3 DEF OwesOne
  <2>2. QED
    BY <2>1, OpenRowsAreNew DEF PaidRows
<1>4. QED
  BY <1>1, <1>3, OneMore DEF OwesNone

-----------------------------------------------------------------------------
(***************************************************************************)
(* Sums.  MapThenSumSet adds up a finite set in the order in which CHOOSE  *)
(* picks its elements; that the order does not matter, and that one more   *)
(* element adds its value, is what a proof about a sum of rows needs.  The *)
(* library's induction theorems take an operator, so the induction is by a *)
(* least counterexample.                                                   *)
(***************************************************************************)
Picked(s) == CHOOSE x \in s : TRUE

\* it adds up g over every subset of S, as the recursive function of
\* MapThenFoldSet does.
AddsUp(it, g, S) ==
  it = [s \in SUBSET S |-> IF s = {} THEN 0 ELSE g[Picked(s)] + it[s \ {Picked(s)}]]

Total(g, S) == (CHOOSE it : AddsUp(it, g, S))[S]

\* Some subsets of a finite set, if any: one of them has no other inside it.
LEMMA LeastSet ==
  ASSUME NEW S, IsFiniteSet(S), NEW B, B \subseteq SUBSET S, B # {}
  PROVE  \E r \in B : \A q \in B : q \subseteq r => q = r
<1>1. IsWellFoundedOn(StrictSubsetOrdering(S), SUBSET S)
  BY FS_StrictSubsetOrderingWellFounded, FS_FiniteSubsetsOfFinite
<1>2. \E r \in B : \A q \in B : ~(<<q, r>> \in StrictSubsetOrdering(S))
  BY <1>1, WFMin
<1>3. QED
  BY <1>2 DEF StrictSubsetOrdering

\* What is left of a set without the element picked.
LEMMA PickedFacts ==
  ASSUME NEW s, s # {}
  PROVE  Picked(s) \in s /\ s \ {Picked(s)} \subseteq s /\ s \ {Picked(s)} # s
BY DEF Picked

\* Two functions that add up the same values agree.
LEMMA AddsUpOnce ==
  ASSUME NEW S, NEW T, NEW g, NEW h, NEW it, NEW jt, AddsUp(it, g, S), AddsUp(jt, h, T),
         NEW s, s \subseteq S, s \subseteq T, IsFiniteSet(s), \A x \in s : g[x] = h[x]
  PROVE  it[s] = jt[s]
<1> DEFINE Bad == {r \in SUBSET s : it[r] # jt[r]}
<1> SUFFICES ASSUME it[s] # jt[s] PROVE FALSE
  OBVIOUS
<1>1. Bad \subseteq SUBSET s /\ Bad # {}
  OBVIOUS
<1>2. PICK r \in Bad : \A q \in Bad : q \subseteq r => q = r
  <2> HIDE DEF Bad
  <2>1. QED
    BY <1>1, LeastSet
<1>3. r \in SUBSET S /\ r \in SUBSET T /\ r \subseteq s
  OBVIOUS
<1>4. it[r] = IF r = {} THEN 0 ELSE g[Picked(r)] + it[r \ {Picked(r)}]
  BY <1>3 DEF AddsUp
<1>5. jt[r] = IF r = {} THEN 0 ELSE h[Picked(r)] + jt[r \ {Picked(r)}]
  BY <1>3 DEF AddsUp
<1>6. r # {}
  BY <1>4, <1>5
<1>7. Picked(r) \in r /\ r \ {Picked(r)} \subseteq r /\ r \ {Picked(r)} # r
  BY <1>6, PickedFacts
<1>8. g[Picked(r)] = h[Picked(r)]
  BY <1>3, <1>7
<1>9. it[r \ {Picked(r)}] = jt[r \ {Picked(r)}]
  <2>1. r \ {Picked(r)} \notin Bad
    BY <1>2, <1>7
  <2>2. QED
    BY <1>3, <2>1
<1>10. it[r] = jt[r]
  BY <1>4, <1>5, <1>6, <1>8, <1>9
<1>11. QED
  BY <1>10

\* There is such a function.
LEMMA AddsUpExists ==
  ASSUME NEW g, NEW S, IsFiniteSet(S)
  PROVE  \E it : AddsUp(it, g, S)
<1> DEFINE Bad == {r \in SUBSET S : ~\E it : AddsUp(it, g, r)}
<1> SUFFICES ASSUME ~\E it : AddsUp(it, g, S) PROVE FALSE
  OBVIOUS
<1>1. Bad \subseteq SUBSET S /\ Bad # {}
  OBVIOUS
<1>2. PICK r \in Bad : \A q \in Bad : q \subseteq r => q = r
  <2> HIDE DEF Bad
  <2>1. QED
    BY <1>1, LeastSet
<1>3. r \subseteq S /\ ~\E it : AddsUp(it, g, r)
  OBVIOUS
<1>4. ASSUME NEW q, q \subseteq r, q # r
      PROVE  IsFiniteSet(q) /\ AddsUp(CHOOSE it : AddsUp(it, g, q), g, q)
  <2>1. q \in SUBSET S /\ q \notin Bad
    BY <1>2, <1>3, <1>4
  <2>2. \E it : AddsUp(it, g, q)
    BY <2>1
  <2>3. IsFiniteSet(q)
    BY <2>1, FS_Subset
  <2>4. QED
    BY <2>2, <2>3
<1> DEFINE it == [s \in SUBSET r |-> IF s = {} THEN 0
                                    ELSE g[Picked(s)] + Total(g, s \ {Picked(s)})]
<1>5. ASSUME NEW s \in SUBSET r, s # {}
      PROVE  it[s \ {Picked(s)}] = Total(g, s \ {Picked(s)})
  <2> DEFINE t == s \ {Picked(s)}
  <2>1. t \in SUBSET r /\ t # r
    BY <1>5, PickedFacts
  <2>2. PICK jt : jt = CHOOSE j : AddsUp(j, g, t)
    OBVIOUS
  <2>3. AddsUp(jt, g, t) /\ Total(g, t) = jt[t] /\ IsFiniteSet(t)
    BY <1>4, <2>1, <2>2 DEF Total
  <2>4. jt[t] = IF t = {} THEN 0 ELSE g[Picked(t)] + jt[t \ {Picked(t)}]
    BY <2>3 DEF AddsUp
  <2>5. CASE t = {}
    BY <2>1, <2>3, <2>4, <2>5
  <2>6. CASE t # {}
    <3> DEFINE u == t \ {Picked(t)}
    <3>1. Picked(t) \in t /\ u \subseteq t /\ u \in SUBSET r /\ u # r
      BY <2>1, <2>6, PickedFacts
    <3>2. PICK kt : kt = CHOOSE j : AddsUp(j, g, u)
      OBVIOUS
    <3>3. AddsUp(kt, g, u) /\ Total(g, u) = kt[u] /\ IsFiniteSet(u)
      BY <1>4, <3>1, <3>2 DEF Total
    <3>4. jt[u] = kt[u]
      <4> HIDE DEF t, u
      <4>1. u \subseteq u
        OBVIOUS
      <4>2. QED
        BY <2>3, <3>1, <3>3, <4>1, AddsUpOnce
    <3>5. it[t] = g[Picked(t)] + Total(g, u)
      BY <2>1, <2>6
    <3>6. QED
      BY <2>3, <2>4, <2>6, <3>3, <3>4, <3>5
  <2>7. QED
    BY <2>5, <2>6
<1>6. AddsUp(it, g, r)
  BY <1>5 DEF AddsUp
<1>7. QED
  BY <1>3, <1>6

\* A sum does not depend on the function that adds it up, nor on the values
\* outside the set.
LEMMA TotalIs ==
  ASSUME NEW g, NEW S, IsFiniteSet(S), NEW T, S \subseteq T, NEW it, AddsUp(it, g, T)
  PROVE  Total(g, S) = it[S]
<1>1. PICK jt : jt = CHOOSE j : AddsUp(j, g, S)
  OBVIOUS
<1>2. AddsUp(jt, g, S) /\ Total(g, S) = jt[S]
  BY <1>1, AddsUpExists DEF Total
<1>3. S \subseteq S
  OBVIOUS
<1>4. QED
  BY <1>2, <1>3, AddsUpOnce

LEMMA TotalSame ==
  ASSUME NEW g, NEW h, NEW S, IsFiniteSet(S), \A x \in S : g[x] = h[x]
  PROVE  Total(g, S) = Total(h, S)
<1>1. PICK it, jt : AddsUp(it, g, S) /\ AddsUp(jt, h, S)
  BY AddsUpExists
<1>2. S \subseteq S
  OBVIOUS
<1>3. Total(g, S) = it[S] /\ Total(h, S) = jt[S]
  BY <1>1, <1>2, TotalIs
<1>4. QED
  BY <1>1, <1>2, <1>3, AddsUpOnce

\* The recursion, for every finite set.
LEMMA TotalStep ==
  ASSUME NEW g, NEW S, IsFiniteSet(S)
  PROVE  Total(g, S) = IF S = {} THEN 0 ELSE g[Picked(S)] + Total(g, S \ {Picked(S)})
<1>1. PICK it : AddsUp(it, g, S)
  BY AddsUpExists
<1>2. \A t \in SUBSET S : Total(g, t) = it[t]
  BY <1>1, FS_Subset, TotalIs
<1>3. it[S] = IF S = {} THEN 0 ELSE g[Picked(S)] + it[S \ {Picked(S)}]
  BY <1>1 DEF AddsUp
<1>4. QED
  BY <1>2, <1>3

\* A sum of integers is an integer.
LEMMA TotalIsInt ==
  ASSUME NEW g, NEW S, IsFiniteSet(S), \A x \in S : g[x] \in Int
  PROVE  Total(g, S) \in Int
<1> DEFINE Bad == {r \in SUBSET S : Total(g, r) \notin Int}
<1> SUFFICES ASSUME Total(g, S) \notin Int PROVE FALSE
  OBVIOUS
<1>1. Bad \subseteq SUBSET S /\ Bad # {}
  OBVIOUS
<1>2. PICK r \in Bad : \A q \in Bad : q \subseteq r => q = r
  <2> HIDE DEF Bad
  <2>1. QED
    BY <1>1, LeastSet
<1>3. r \in SUBSET S /\ IsFiniteSet(r) /\ Total(g, r) \notin Int
  BY FS_Subset
<1>4. r # {} /\ Total(g, r) = g[Picked(r)] + Total(g, r \ {Picked(r)})
  <2>1. Total(g, r) = IF r = {} THEN 0 ELSE g[Picked(r)] + Total(g, r \ {Picked(r)})
    BY <1>3, TotalStep
  <2>2. QED
    BY <1>3, <2>1
<1>5. Picked(r) \in r /\ r \ {Picked(r)} \subseteq r /\ r \ {Picked(r)} # r
  BY <1>4, PickedFacts
<1>6. r \ {Picked(r)} \notin Bad
  BY <1>2, <1>5
<1>7. Total(g, r \ {Picked(r)}) \in Int /\ g[Picked(r)] \in Int
  BY <1>3, <1>5, <1>6
<1>8. QED
  BY <1>3, <1>4, <1>7

\* One more element adds its value, whichever element is picked first.
LEMMA TotalAdds ==
  ASSUME NEW g, NEW S, IsFiniteSet(S), \A y \in S : g[y] \in Int,
         NEW x \in S
  PROVE  Total(g, S) = g[x] + Total(g, S \ {x})
<1> DEFINE Bad == {r \in SUBSET S : \E y \in r : Total(g, r) # g[y] + Total(g, r \ {y})}
<1> SUFFICES ASSUME Total(g, S) # g[x] + Total(g, S \ {x}) PROVE FALSE
  OBVIOUS
<1>1. Bad \subseteq SUBSET S /\ Bad # {}
  OBVIOUS
<1>2. PICK r \in Bad : \A q \in Bad : q \subseteq r => q = r
  <2> HIDE DEF Bad
  <2>1. QED
    BY <1>1, LeastSet
<1>3. PICK y \in r : Total(g, r) # g[y] + Total(g, r \ {y})
  OBVIOUS
<1>4. \A q \in SUBSET S : IsFiniteSet(q) /\ Total(g, q) \in Int
  BY FS_Subset, TotalIsInt
<1>5. r \in SUBSET S /\ r # {}
  OBVIOUS
<1>6. PICK z : z = Picked(r)
  OBVIOUS
<1>7. z \in r /\ Total(g, r) = g[z] + Total(g, r \ {z})
  BY <1>4, <1>5, <1>6, TotalStep, PickedFacts
<1>8. z # y
  BY <1>3, <1>7
<1>9. /\ y \in r \ {z} /\ r \ {z} \subseteq r /\ r \ {z} # r
      /\ z \in r \ {y} /\ r \ {y} \subseteq r /\ r \ {y} # r
      /\ (r \ {z}) \ {y} = (r \ {y}) \ {z}
  BY <1>7, <1>8
<1>10. Total(g, r \ {z}) = g[y] + Total(g, (r \ {z}) \ {y})
  <2>1. r \ {z} \notin Bad
    BY <1>2, <1>9
  <2>2. QED
    BY <1>5, <1>9, <2>1
<1>11. Total(g, r \ {y}) = g[z] + Total(g, (r \ {y}) \ {z})
  <2>1. r \ {y} \notin Bad
    BY <1>2, <1>9
  <2>2. QED
    BY <1>5, <1>9, <2>1
<1>12. Total(g, (r \ {y}) \ {z}) \in Int /\ g[y] \in Int /\ g[z] \in Int
  BY <1>4, <1>5, <1>7
<1>13. PICK t, a, b \in Int :
         t = Total(g, (r \ {y}) \ {z}) /\ a = Total(g, r \ {y}) /\ b = Total(g, r \ {z})
  <2>1. /\ (r \ {y}) \ {z} \in SUBSET S /\ r \ {y} \in SUBSET S /\ r \ {z} \in SUBSET S
    BY <1>5
  <2>2. QED
    BY <1>4, <2>1
<1>14. a = g[z] + t /\ b = g[y] + t
  BY <1>9, <1>10, <1>11, <1>13
<1>15. Total(g, r) = g[z] + b /\ Total(g, r) # g[y] + a
  BY <1>3, <1>7, <1>13
<1>16. QED
  BY <1>12, <1>14, <1>15

-----------------------------------------------------------------------------
\* Deltas is such a sum.
LEMMA DeltasIsTotal ==
  ASSUME NEW S, IsFiniteSet(S), NEW g, \A r \in S : g[r] = r.delta
  PROVE  Deltas(S) = Total(g, S)
<1> DEFINE plain(it) == it = [s \in SUBSET S |->
                          IF s = {} THEN 0
                          ELSE (CHOOSE x \in s : TRUE).delta + it[s \ {CHOOSE x \in s : TRUE}]]
<1>1. Deltas(S) = (CHOOSE it : plain(it))[S]
  BY DEF Deltas, MapThenSumSet, MapThenFoldSet
<1>2. \A s \in SUBSET S : s # {} => g[Picked(s)] = (CHOOSE x \in s : TRUE).delta
  <2>1. \A s \in SUBSET S : s # {} => Picked(s) \in S
    BY PickedFacts
  <2>2. QED
    BY <2>1 DEF Picked
<1>3. \A it : plain(it) <=> AddsUp(it, g, S)
  BY <1>2 DEF AddsUp, Picked
<1> HIDE DEF plain
<1>4. PICK jt : AddsUp(jt, g, S)
  BY AddsUpExists
<1>5. plain(jt)
  BY <1>3, <1>4
<1>6. PICK it : it = CHOOSE kt : plain(kt)
  OBVIOUS
<1>7. plain(it)
  BY <1>5, <1>6
<1>8. AddsUp(it, g, S) /\ Deltas(S) = it[S] /\ S \subseteq S
  BY <1>1, <1>3, <1>6, <1>7
<1>9. QED
  BY <1>8, TotalIs

\* One more row adds its delta.
LEMMA DeltasAdds ==
  ASSUME NEW S, IsFiniteSet(S), NEW r, r \notin S, r.delta \in Int, \A s \in S : s.delta \in Int
  PROVE  IsFiniteSet(S \cup {r}) /\ Deltas(S \cup {r}) = Deltas(S) + r.delta /\ Deltas(S) \in Int
<1>1. PICK T : T = S \cup {r}
  OBVIOUS
<1>2. PICK g : g = [s \in T |-> s.delta]
  OBVIOUS
<1>3. IsFiniteSet(T) /\ T \ {r} = S /\ r \in T
  BY <1>1, FS_AddElement
<1>4. \A s \in T : g[s] = s.delta /\ g[s] \in Int
  BY <1>1, <1>2
<1>5. \A s \in S : g[s] = s.delta /\ g[s] \in Int
  BY <1>1, <1>4
<1>6. Deltas(T) = Total(g, T) /\ Deltas(S) = Total(g, S)
  BY <1>3, <1>4, <1>5, DeltasIsTotal
<1>7. Total(g, T) = g[r] + Total(g, T \ {r})
  BY <1>3, <1>4, TotalAdds
<1>8. Total(g, S) \in Int
  BY <1>5, TotalIsInt
<1>9. Total(g, T) = r.delta + Total(g, S)
  BY <1>3, <1>4, <1>7
<1>10. Deltas(S \cup {r}) = r.delta + Deltas(S) /\ Deltas(S) \in Int
  BY <1>1, <1>6, <1>8, <1>9
<1>11. QED
  BY <1>1, <1>3, <1>10

LEMMA DeltasOfNone == Deltas({}) = 0
<1>1. PICK g : g = [r \in {} |-> 0]
  OBVIOUS
<1>2. Deltas({}) = Total(g, {}) /\ IsFiniteSet({})
  BY FS_EmptySet, DeltasIsTotal
<1>3. QED
  BY <1>2, TotalStep

-----------------------------------------------------------------------------
\* Two sets of rows that share none.
LEMMA DeltasUnion ==
  ASSUME NEW S, NEW T, IsFiniteSet(S), IsFiniteSet(T), S \cap T = {},
         \A r \in S \cup T : r.delta \in Int
  PROVE  /\ IsFiniteSet(S \cup T)
         /\ Deltas(S \cup T) = Deltas(S) + Deltas(T)
         /\ Deltas(S) \in Int /\ Deltas(T) \in Int
<1> DEFINE Bad == {r \in SUBSET T : Deltas(S \cup r) # Deltas(S) + Deltas(r)}
<1>1. ASSUME NEW R, IsFiniteSet(R), R \subseteq S \cup T PROVE Deltas(R) \in Int
  <2>1. PICK g : g = [r \in R |-> r.delta]
    OBVIOUS
  <2>2. Deltas(R) = Total(g, R) /\ \A r \in R : g[r] \in Int
    BY <1>1, <2>1, DeltasIsTotal
  <2>3. QED
    BY <1>1, <2>2, TotalIsInt
<1>2. IsFiniteSet(S \cup T) /\ Deltas(S) \in Int /\ Deltas(T) \in Int
  BY <1>1, FS_Union
<1> SUFFICES ASSUME Deltas(S \cup T) # Deltas(S) + Deltas(T) PROVE FALSE
  BY <1>2
<1>3. Bad \subseteq SUBSET T /\ Bad # {}
  OBVIOUS
<1>4. PICK r \in Bad : \A q \in Bad : q \subseteq r => q = r
  <2> HIDE DEF Bad
  <2>1. QED
    BY <1>3, LeastSet
<1>5. r \subseteq T /\ Deltas(S \cup r) # Deltas(S) + Deltas(r)
  OBVIOUS
<1>6. r # {}
  <2> SUFFICES ASSUME r = {} PROVE FALSE
    OBVIOUS
  <2>1. S \cup r = S
    OBVIOUS
  <2>2. Deltas(r) = 0
    BY DeltasOfNone
  <2>3. Deltas(S \cup r) = Deltas(S)
    BY <2>1
  <2>4. QED
    BY <1>2, <1>5, <2>2, <2>3
<1>7. PICK z \in r, t \in SUBSET T : t = r \ {z}
  BY <1>5, <1>6
<1>8. r = t \cup {z} /\ z \notin t /\ z \notin S /\ S \cup r = (S \cup t) \cup {z}
  BY <1>5, <1>7
<1>9. t \notin Bad
  BY <1>4, <1>7
<1>10. Deltas(S \cup t) = Deltas(S) + Deltas(t)
  BY <1>9
<1>11. IsFiniteSet(t) /\ IsFiniteSet(S \cup t)
  BY <1>7, FS_Subset, FS_Union
<1>12. z.delta \in Int /\ (\A s \in t : s.delta \in Int) /\ (\A s \in S \cup t : s.delta \in Int)
  BY <1>5, <1>7
<1>13. Deltas(r) = Deltas(t) + z.delta /\ Deltas(t) \in Int
  BY <1>8, <1>11, <1>12, DeltasAdds
<1>14. Deltas(S \cup r) = Deltas(S \cup t) + z.delta
  BY <1>8, <1>11, <1>12, DeltasAdds
<1>15. QED
  BY <1>2, <1>5, <1>10, <1>12, <1>13, <1>14

\* An element that is worth nothing may be left out of a sum.
LEMMA TotalWiden ==
  ASSUME NEW g, NEW S, NEW T, IsFiniteSet(T), S \subseteq T,
         \A x \in T : g[x] \in Int, \A x \in T \ S : g[x] = 0
  PROVE  Total(g, S) = Total(g, T)
<1> DEFINE Bad == {r \in SUBSET (T \ S) : Total(g, S \cup r) # Total(g, S)}
<1> SUFFICES ASSUME Total(g, S) # Total(g, T) PROVE FALSE
  OBVIOUS
<1>1. IsFiniteSet(T \ S)
  BY FS_Subset
<1>2. Bad \subseteq SUBSET (T \ S) /\ Bad # {}
  <2>1. PICK rest \in SUBSET (T \ S) : S \cup rest = T
    OBVIOUS
  <2>2. Total(g, S \cup rest) # Total(g, S)
    BY <2>1
  <2>3. QED
    BY <2>2
<1>3. PICK r \in Bad : \A q \in Bad : q \subseteq r => q = r
  <2> HIDE DEF Bad
  <2>1. QED
    BY <1>1, <1>2, LeastSet
<1>4. r \subseteq T \ S /\ Total(g, S \cup r) # Total(g, S)
  OBVIOUS
<1>5. r # {}
  <2>1. S \cup {} = S
    OBVIOUS
  <2>2. QED
    BY <1>4, <2>1
<1>6. PICK z \in r, t \in SUBSET (T \ S) : t = r \ {z}
  BY <1>4, <1>5
<1>7. t \notin Bad
  BY <1>3, <1>6
<1>8. PICK R \in SUBSET T : R = S \cup r
  BY <1>4
<1>9. /\ IsFiniteSet(R) /\ z \in R /\ R \ {z} = S \cup t
      /\ \A y \in R : g[y] \in Int
  BY <1>4, <1>6, <1>8, FS_Subset
<1>10. Total(g, R) = g[z] + Total(g, R \ {z})
  BY <1>9, TotalAdds
<1>11. Total(g, R \ {z}) \in Int
  <2>1. IsFiniteSet(R \ {z}) /\ \A y \in R \ {z} : g[y] \in Int
    BY <1>9, FS_Subset
  <2>2. QED
    BY <2>1, TotalIsInt
<1>12. Total(g, R) = Total(g, R \ {z})
  BY <1>4, <1>6, <1>10, <1>11
<1>13. QED
  BY <1>4, <1>7, <1>8, <1>9, <1>12

\* A sum changes by as much as one of its values does.
LEMMA TotalMoves ==
  ASSUME NEW g, NEW h, NEW S, IsFiniteSet(S), NEW x \in S,
         \A y \in S : g[y] \in Int /\ h[y] \in Int,
         \A y \in S \ {x} : h[y] = g[y]
  PROVE  Total(h, S) = Total(g, S) + (h[x] - g[x]) /\ Total(g, S) \in Int
<1>1. Total(h, S) = h[x] + Total(h, S \ {x}) /\ Total(g, S) = g[x] + Total(g, S \ {x})
  BY TotalAdds
<1>2. IsFiniteSet(S \ {x})
  BY FS_Subset
<1>3. Total(h, S \ {x}) = Total(g, S \ {x}) /\ Total(g, S \ {x}) \in Int
  <2>1. Total(g, S \ {x}) \in Int
    BY <1>2, TotalIsInt
  <2>2. QED
    BY <1>2, <2>1, TotalSame
<1>4. PICK a, b, t \in Int : a = g[x] /\ b = h[x] /\ t = Total(g, S \ {x})
  BY <1>3
<1>5. Total(h, S) = b + t /\ Total(g, S) = a + t
  BY <1>1, <1>3, <1>4
<1>6. b + t = (a + t) + (b - a) /\ a + t \in Int
  OBVIOUS
<1>7. QED
  BY <1>4, <1>5, <1>6

-----------------------------------------------------------------------------
\* What an open transaction moves: the points of the rows it has appended for
\* a user and some events, and of the one it has still to append.

RowsFor(rows, Ev, u) == {r \in rows : r.user = u /\ r.event \in Ev}

PointsFor(Ev, u) == Deltas(RowsFor(ledger, Ev, u))

NextIsFor(p, Ev, u) ==
  todo[p] # <<>> /\ Head(todo[p]).user = u /\ Head(todo[p]).event \in Ev

NextPoints(p, Ev, u) == IF NextIsFor(p, Ev, u) THEN Head(todo[p]).delta ELSE 0

Moved(p, Ev, u) == Deltas(RowsFor(open[p], Ev, u)) + NextPoints(p, Ev, u)

\* Only the append that comes next may be one of the events.
RestIsNot(p, Ev) == \A i \in 2..Len(todo[p]) : todo[p][i].event \notin Ev

FiniteFor(p, Ev, u) == IsFiniteSet(RowsFor(open[p], Ev, u))

\* The deltas of typed rows.
LEMMA RowDeltas ==
  ASSUME NEW P, NEW E, NEW F, NEW C, Shared(P, E, F, C), NEW Ev, NEW u
  PROVE  /\ \A r \in RowsFor(ledger, Ev, u) : r.delta \in Int
         /\ \A p \in Procs : \A r \in RowsFor(open[p], Ev, u) : r.delta \in Int
BY DEF Shared, RowsOf, RowsFor

\* The delta of the next append.
LEMMA NextAppend ==
  ASSUME NEW P, NEW E, NEW F, NEW C, Shared(P, E, F, C), NEW p \in Procs, todo[p] # <<>>
  PROVE  /\ Len(todo[p]) \in Nat \ {0}
         /\ Head(todo[p]) = todo[p][1] /\ Head(todo[p]) \in AppendsOf(E)
         /\ Len(Tail(todo[p])) = Len(todo[p]) - 1
         /\ Tail(todo[p]) \in Seq(AppendsOf(E))
         /\ \A i \in 1..(Len(todo[p]) - 1) : Tail(todo[p])[i] = todo[p][i + 1]
<1>1. todo[p] \in Seq(AppendsOf(E))
  BY DEF Shared
<1>2. QED
  BY <1>1, HeadTailProperties, EmptySeq

\* What a transaction moves is a whole number.
LEMMA MovedIsInt ==
  ASSUME NEW P, NEW E, NEW F, NEW C, Shared(P, E, F, C), NEW p \in Procs, NEW Ev, NEW u,
         FiniteFor(p, Ev, u)
  PROVE  Deltas(RowsFor(open[p], Ev, u)) \in Int /\ NextPoints(p, Ev, u) \in Int
           /\ Moved(p, Ev, u) \in Int
<1>1. NextPoints(p, Ev, u) \in Int
  <2>1. todo[p] # <<>> => Head(todo[p]) \in AppendsOf(E)
    BY NextAppend
  <2>2. todo[p] # <<>> => Head(todo[p]).delta \in Int
    BY <2>1 DEF AppendsOf
  <2>3. QED
    BY <2>2 DEF NextPoints, NextIsFor
<1>2. Deltas(RowsFor(open[p], Ev, u)) \in Int
  BY RowDeltas, DeltasUnion, FS_EmptySet DEF FiniteFor
<1>3. QED
  BY <1>1, <1>2 DEF Moved

\* The INSERT moves what was to be moved next.
LEMMA InsertMoves ==
  ASSUME NEW P, NEW E, NEW F, NEW C, NEW p \in Procs, NEW done,
         Shared(P, E, F, C), IdsOK, AppendInsert(p, done), NEW Ev, NEW u,
         FiniteFor(p, Ev, u), RestIsNot(p, Ev)
  PROVE  /\ FiniteFor(p, Ev, u)' /\ RestIsNot(p, Ev)'
         /\ Moved(p, Ev, u)' = Moved(p, Ev, u)
<1> DEFINE a == Head(todo[p])
           old == RowsFor(open[p], Ev, u)
<1>1. todo[p] # <<>>
  BY DEF AppendInsert, Shared
<1>2. PICK row :
        /\ row.user = a.user /\ row.event = a.event /\ row.delta = a.delta
        /\ row.id = inserted + 1
        /\ open' = [open EXCEPT ![p] = @ \cup {row}]
  <2>1. PICK stamp :
          open' = [open EXCEPT ![p] = @ \cup
            {[id |-> inserted + 1, user |-> a.user, event |-> a.event,
              delta |-> a.delta, balance |-> bal[p] + a.delta, ts |-> stamp, day |-> day]}]
    BY DEF AppendInsert
  <2>2. QED
    BY <2>1
<1>3. open'[p] = open[p] \cup {row} /\ todo'[p] = Tail(todo[p])
  BY <1>2 DEF AppendInsert, Shared
<1>4. row \notin open[p]
  <2>1. \A r \in open[p] : r.id \in Nat /\ r.id <= inserted
    BY DEF Shared, RowsOf, IdsOK
  <2>2. inserted \in Nat
    BY DEF Shared
  <2>3. QED
    BY <1>2, <2>1, <2>2
<1>5. /\ Len(todo[p]) \in Nat \ {0} /\ a = todo[p][1] /\ a.delta \in Int
      /\ Len(Tail(todo[p])) = Len(todo[p]) - 1 /\ Tail(todo[p]) \in Seq(AppendsOf(E))
      /\ \A i \in 1..(Len(todo[p]) - 1) : Tail(todo[p])[i] = todo[p][i + 1]
  BY <1>1, NextAppend DEF AppendsOf
<1>6. RestIsNot(p, Ev)'
  BY <1>3, <1>5 DEF RestIsNot
<1>7. NextPoints(p, Ev, u)' = 0
  <2>1. ASSUME todo'[p] # <<>> PROVE Head(todo'[p]).event \notin Ev
    <3>1. Len(todo[p]) - 1 \in Nat \ {0}
      BY <1>3, <1>5, <2>1, EmptySeq
    <3>2. Head(todo'[p]) = Tail(todo[p])[1]
      <4>1. PICK t \in Seq(AppendsOf(E)) : t = todo'[p] /\ t = Tail(todo[p]) /\ t # <<>>
        BY <1>3, <1>5, <2>1
      <4>2. Head(t) = t[1]
        BY <4>1, HeadTailProperties
      <4>3. QED
        BY <4>1, <4>2
    <3>3. PICK n : n = Len(todo[p])
      OBVIOUS
    <3>4. n \in Nat \ {0} /\ n - 1 \in Nat \ {0}
      BY <1>5, <3>1, <3>3
    <3>5. 1 \in 1..(n - 1) /\ 1 + 1 \in 2..n
      BY <3>4
    <3>6. QED
      BY <1>5, <3>2, <3>3, <3>5 DEF RestIsNot
  <2>2. QED
    BY <2>1 DEF NextPoints, NextIsFor
<1>8. (\A r \in old : r.delta \in Int) /\ IsFiniteSet(old) /\ Deltas(old) \in Int
  BY RowDeltas, MovedIsInt DEF FiniteFor
<1>9. CASE NextIsFor(p, Ev, u)
  <2>1. RowsFor(open'[p], Ev, u) = old \cup {row} /\ row \notin old
    BY <1>2, <1>3, <1>4, <1>9 DEF RowsFor, NextIsFor
  <2>2. IsFiniteSet(old \cup {row}) /\ Deltas(old \cup {row}) = Deltas(old) + row.delta
    <3> HIDE DEF old
    <3>1. QED
      BY <1>2, <1>5, <1>8, <2>1, DeltasAdds
  <2>3. Moved(p, Ev, u) = Deltas(old) + a.delta
    BY <1>9 DEF Moved, NextPoints
  <2>4. Moved(p, Ev, u)' = Deltas(old \cup {row}) + 0
    BY <1>7, <2>1 DEF Moved
  <2>5. Moved(p, Ev, u)' = Moved(p, Ev, u)
    <3> HIDE DEF old
    <3>1. QED
      BY <1>2, <1>5, <1>8, <2>2, <2>3, <2>4
  <2>6. QED
    BY <1>6, <2>1, <2>2, <2>5 DEF FiniteFor
<1>10. CASE ~NextIsFor(p, Ev, u)
  <2>1. RowsFor(open'[p], Ev, u) = old
    BY <1>1, <1>2, <1>3, <1>10 DEF RowsFor, NextIsFor
  <2>2. QED
    BY <1>6, <1>7, <1>8, <1>10, <2>1 DEF FiniteFor, Moved, NextPoints
<1>11. QED
  BY <1>9, <1>10

\* COMMIT moves it all.
LEMMA CommitMoves ==
  ASSUME NEW P, NEW E, NEW F, NEW C, NEW p \in Procs, Shared(P, E, F, C), IdsOK,
         todo[p] = <<>>, ledger' = ledger \cup open[p], NEW Ev, NEW u,
         FiniteFor(p, Ev, u), IsFiniteSet(RowsFor(ledger, Ev, u))
  PROVE  /\ IsFiniteSet(RowsFor(ledger', Ev, u))
         /\ PointsFor(Ev, u)' = PointsFor(Ev, u) + Moved(p, Ev, u)
         /\ PointsFor(Ev, u) \in Int /\ Moved(p, Ev, u) \in Int
<1>1. PICK S, T : S = RowsFor(ledger, Ev, u) /\ T = RowsFor(open[p], Ev, u)
  OBVIOUS
<1>2. RowsFor(ledger', Ev, u) = S \cup T
  BY <1>1 DEF RowsFor
<1>3. S \cap T = {} /\ \A r \in S \cup T : r.delta \in Int
  BY <1>1, OpenRowsAreNew, RowDeltas DEF RowsFor
<1>4. /\ IsFiniteSet(S \cup T) /\ Deltas(S \cup T) = Deltas(S) + Deltas(T)
      /\ Deltas(S) \in Int /\ Deltas(T) \in Int
  BY <1>1, <1>3, DeltasUnion DEF FiniteFor
<1>5. Moved(p, Ev, u) = Deltas(T)
  BY <1>1, <1>4 DEF Moved, NextPoints, NextIsFor
<1>6. QED
  BY <1>1, <1>2, <1>4, <1>5 DEF PointsFor

\* A transaction that has ended moves nothing.
LEMMA EndedMovesNone ==
  ASSUME NEW p, open'[p] = {}, todo'[p] = <<>>, NEW Ev, NEW u
  PROVE  FiniteFor(p, Ev, u)' /\ RestIsNot(p, Ev)' /\ Moved(p, Ev, u)' = 0
<1>1. RowsFor(open'[p], Ev, u) = {}
  BY DEF RowsFor
<1>2. Len(<<>>) = 0
  BY EmptySeq
<1>3. QED
  BY <1>1, <1>2, DeltasOfNone, FS_EmptySet
  DEF FiniteFor, RestIsNot, Moved, NextPoints, NextIsFor
=============================================================================
