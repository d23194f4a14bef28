----------------------- MODULE BillingWebhooks_proofs -----------------------
(***************************************************************************)
(* What is proved of BillingWebhooks, for any number of instances,         *)
(* checkouts, events and crashes: its types, that an event that was        *)
(* answered 200 is recorded, and, from a stronger invariant (RefInv), that *)
(* the committed tables implement BillingMirror.                           *)
(***************************************************************************)
EXTENDS BillingWebhooks, TLAPS

-----------------------------------------------------------------------------
\* What every statement preserves of the rows it works on.  P[k] is the set of
\* versions a row with key k may have: a row once committed stays, in the
\* committed state and in the view of the transaction that owns it.
\* PointsLedger_proofs has the same lemmas for the rows of the points service.

RowsInv(P) ==
  /\ db = [k \in DOMAIN P |-> db[k]]
  /\ new = [k \in DOMAIN P |-> new[k]]
  /\ owner \in [DOMAIN P -> Procs \cup {NoProc}]
  /\ \A k \in DOMAIN P :
       /\ db[k] \in P[k] \cup {NoRow}
       /\ new[k] \in P[k] \cup {NoRow}
       /\ db[k] \in P[k] => new[k] \in P[k]

\* No committed row goes away.
RowsStay(P) == \A k \in DOMAIN P : db[k] \in P[k] => db'[k] \in P[k]

\* SELECT ... FOR UPDATE
LEMMA LockKeepsRows ==
  ASSUME NEW P, NEW p \in Procs, NEW k \in DOMAIN P, RowsInv(P), LockRow(p, k)
  PROVE  RowsInv(P)' /\ RowsStay(P)
BY DEF RowsInv, RowsStay, LockRow

\* INSERT and UPDATE inside a transaction
LEMMA WriteKeepsRows ==
  ASSUME NEW P, NEW p \in Procs, NEW k \in DOMAIN P, NEW v \in P[k],
         RowsInv(P), WriteRow(p, k, v)
  PROVE  RowsInv(P)' /\ RowsStay(P)
BY DEF RowsInv, RowsStay, WriteRow

\* A statement that commits by itself
LEMMA AutocommitKeepsRows ==
  ASSUME NEW P, NEW k \in DOMAIN P, NEW v \in P[k], RowsInv(P), AutocommitRow(k, v)
  PROVE  RowsInv(P)' /\ RowsStay(P)
BY DEF RowsInv, RowsStay, AutocommitRow

\* COMMIT
LEMMA CommitKeepsRows ==
  ASSUME NEW P, NEW p \in Procs, RowsInv(P), CommitRows(p)
  PROVE  RowsInv(P)' /\ RowsStay(P)
BY DEF RowsInv, RowsStay, CommitRows, Sees, Unlocked

\* ROLLBACK
LEMMA RollbackKeepsRows ==
  ASSUME NEW P, NEW p \in Procs, RowsInv(P), RollbackRows(p)
  PROVE  RowsInv(P)' /\ RowsStay(P)
BY DEF RowsInv, RowsStay, RollbackRows, Unlocked

\* A statement that only reads
LEMMA ReadKeepsRows ==
  ASSUME NEW P, RowsInv(P), UNCHANGED rowVars
  PROVE  RowsInv(P)' /\ RowsStay(P)
BY DEF RowsInv, RowsStay, rowVars

\* What the rows of each table hold.
Tables ==
  [k \in Keys |->
     CASE k[1] = "customer" -> [linked : BOOLEAN]
       [] k[1] = "subscription" -> [status : SubStatuses]
       [] k[1] = "session" -> [status : SessionStatuses]
       [] k[1] = "event" -> [done : {TRUE}]]

Opers == {"none", "webhook", "checkout", "view", "cancel"}

Frames == [op : Opers, checkout : Checkouts \cup {NoEvent}, event : sent \cup {NoEvent},
           found : SUBSET Checkouts]

HandlerPcs == {"seen", "record", "customer", "sessionRead", "sessionWrite", "paidRead",
               "paidWrite", "failedRead", "failedWrite", "cancelOthers", "takeOthers", "subRead",
               "subInsert", "subUpdate", "answer"}

\* What a request at this statement is about.
LocalOK(at, f) ==
  /\ at \in Pcs
  /\ f \in Frames
  /\ at \in HandlerPcs => f.op = "webhook"
  /\ f.op = "webhook" => f.event \in sent /\ f.checkout = f.event.checkout
  /\ at \in {"newCustomer", "newSession", "viewRead", "viewExpire"} => f.checkout \in Checkouts
  /\ at \in {"newCustomer", "newSession"} => f.op = "checkout"
  /\ at \in {"sessionRead", "sessionWrite"} =>
       f.event.type \in {"completed", "expired", "async_failed", "subscription"}
  /\ at \in {"cancelOthers", "takeOthers", "subRead", "subInsert", "subUpdate"} =>
       f.event.type = "subscription"

\* The event of a webhook that is past recordWebhookEvent is recorded, as its
\* own transaction sees it; when the answer is due it is committed.
RecordedOK(p) ==
  frame[p].op = "webhook" =>
    LET k == EventRow(frame[p].event.id) IN
    /\ pc[p] \notin {"idle", "seen", "record"} => Sees(p, k) \in Tables[k]
    /\ pc[p] = "answer" => db[k] \in Tables[k]

Locals ==
  /\ pc \in [Procs -> Pcs]
  /\ frame \in [Procs -> Frames]
  /\ \A p \in Procs : LocalOK(pc[p], frame[p]) /\ RecordedOK(p)

Globals ==
  /\ RowsInv(Tables)
  /\ sent \in Outboxes
  /\ acked \subseteq sent
  /\ \A e \in acked : db[EventRow(e.id)] \in Tables[EventRow(e.id)]
  /\ stripe \in [Checkouts -> {"none", "created", "offered"}]
  /\ \A c \in Checkouts :
       stripe[c] = "offered" => db[SessionRow(c)] \in Tables[SessionRow(c)]

IInv == Locals /\ Globals

-----------------------------------------------------------------------------
\* Which table a key belongs to.

LEMMA KeyTables ==
  /\ CustomerRow \in Keys /\ Tables[CustomerRow] = [linked : BOOLEAN]
  /\ \A c \in Checkouts :
       /\ SubRow(c) \in Keys /\ Tables[SubRow(c)] = [status : SubStatuses]
       /\ SessionRow(c) \in Keys /\ Tables[SessionRow(c)] = [status : SessionStatuses]
  /\ \A n \in EventIds : EventRow(n) \in Keys /\ Tables[EventRow(n)] = [done : {TRUE}]
<1>1. CustomerRow \in Keys /\ Tables[CustomerRow] = [linked : BOOLEAN]
  BY DEF Keys, Tables, CustomerRow
<1>2. ASSUME NEW c \in Checkouts
      PROVE  SubRow(c) \in Keys /\ Tables[SubRow(c)] = [status : SubStatuses]
  BY DEF Keys, Tables, SubRow
<1>3. ASSUME NEW c \in Checkouts
      PROVE  SessionRow(c) \in Keys /\ Tables[SessionRow(c)] = [status : SessionStatuses]
  BY DEF Keys, Tables, SessionRow
<1>4. ASSUME NEW n \in EventIds
      PROVE  EventRow(n) \in Keys /\ Tables[EventRow(n)] = [done : {TRUE}]
  BY DEF Keys, Tables, EventRow
<1>5. QED
  BY <1>1, <1>2, <1>3, <1>4

\* No row is taken for an absent one.
LEMMA NoRowInTables == \A k \in Keys : NoRow \notin Tables[k]
<1>1. SUFFICES ASSUME NEW k \in Keys PROVE NoRow \notin Tables[k]
  OBVIOUS
<1>2. Tables[k] \subseteq TableRows
  <2>1. CASE k = CustomerRow
    BY <2>1, KeyTables DEF TableRows
  <2>2. ASSUME NEW c \in Checkouts, k = SubRow(c)
        PROVE  Tables[k] \subseteq TableRows
    <3>1. [status : SubStatuses] \subseteq TableRows
      BY DEF TableRows
    <3>2. QED
      BY <2>2, <3>1, KeyTables
  <2>3. ASSUME NEW c \in Checkouts, k = SessionRow(c)
        PROVE  Tables[k] \subseteq TableRows
    <3>1. [status : SessionStatuses] \subseteq TableRows
      BY DEF TableRows
    <3>2. QED
      BY <2>3, <3>1, KeyTables
  <2>4. CASE \E n \in EventIds : k = EventRow(n)
    BY <2>4, KeyTables DEF TableRows
  <2>5. QED
    BY <2>1, <2>2, <2>3, <2>4 DEF Keys
<1>3. QED
  BY <1>2, BillingAssumption

\* A statement that finds a row finds one of its table.
LEMMA FoundTyped ==
  ASSUME RowsInv(Tables), NEW p \in Procs, NEW k \in Keys
  PROVE  /\ Exists(p, k) <=> Sees(p, k) \in Tables[k]
         /\ db[k] # NoRow <=> db[k] \in Tables[k]
         /\ db[k] \in Tables[k] => Sees(p, k) \in Tables[k]
<1>1. DOMAIN Tables = Keys
  BY DEF Tables
<1>2. NoRow \notin Tables[k]
  BY NoRowInTables
<1>3. QED
  BY <1>1, <1>2 DEF RowsInv, Exists, Sees

\* Stripe's events are about known checkouts.
LEMMA SentTyped ==
  ASSUME sent \in Outboxes, NEW e \in sent
  PROVE  /\ e \in StripeEvents /\ e.checkout \in Checkouts /\ e.type \in EventTypes
         /\ e.type = "subscription" => e.status \in SubStatuses
         /\ e.id \in EventIds
BY BillingAssumption DEF StripeEvents, EventIds

-----------------------------------------------------------------------------
\* What a step of request p leaves of the rows and of what the others see.

ViewStays(q) == \A k \in Keys : Sees(q, k) \in Tables[k] => Sees(q, k)' \in Tables[k]

Kept(p) == RowsInv(Tables)' /\ RowsStay(Tables) /\ \A q \in Procs \ {p} : ViewStays(q)

LEMMA WriteKeeps ==
  ASSUME RowsInv(Tables), NEW p \in Procs, NEW k \in Keys, NEW v \in Tables[k], WriteRow(p, k, v)
  PROVE  Kept(p) /\ ViewStays(p)
<1>1. DOMAIN Tables = Keys
  BY DEF Tables
<1>2. RowsInv(Tables)' /\ RowsStay(Tables)
  BY <1>1, WriteKeepsRows
<1>3. ASSUME NEW q \in Procs PROVE ViewStays(q)
  BY <1>1, BillingAssumption DEF RowsInv, WriteRow, Free, Sees, ViewStays
<1>4. QED
  BY <1>2, <1>3 DEF Kept

LEMMA AutocommitKeeps ==
  ASSUME RowsInv(Tables), NEW p \in Procs, NEW k \in Keys, NEW v \in Tables[k], AutocommitRow(k, v)
  PROVE  Kept(p) /\ ViewStays(p)
<1>1. DOMAIN Tables = Keys
  BY DEF Tables
<1>2. RowsInv(Tables)' /\ RowsStay(Tables)
  BY <1>1, AutocommitKeepsRows
<1>3. ASSUME NEW q \in Procs PROVE ViewStays(q)
  BY <1>1, BillingAssumption DEF RowsInv, AutocommitRow, Sees, ViewStays
<1>4. QED
  BY <1>2, <1>3 DEF Kept

\* An UPDATE whose condition no row meets
LEMMA AutocommitNothing ==
  ASSUME RowsInv(Tables), NEW p \in Procs, NEW k \in Keys, AutocommitRow(k, db[k])
  PROVE  Kept(p) /\ ViewStays(p)
<1>1. DOMAIN Tables = Keys
  BY DEF Tables
<1>2. /\ db' = db /\ owner' = owner /\ owner[k] = NoProc
      /\ new' = [new EXCEPT ![k] = db[k]]
  BY <1>1 DEF RowsInv, AutocommitRow
<1>3. RowsInv(Tables)' /\ RowsStay(Tables)
  BY <1>1, <1>2 DEF RowsInv, RowsStay
<1>4. ASSUME NEW q \in Procs PROVE ViewStays(q)
  BY <1>1, <1>2, BillingAssumption DEF RowsInv, Sees, ViewStays
<1>5. QED
  BY <1>3, <1>4 DEF Kept

LEMMA CommitKeeps ==
  ASSUME RowsInv(Tables), NEW p \in Procs, CommitRows(p)
  PROVE  /\ Kept(p) /\ ViewStays(p)
         /\ \A k \in Keys : Sees(p, k) \in Tables[k] => db'[k] \in Tables[k]
<1>1. DOMAIN Tables = Keys
  BY DEF Tables
<1>2. RowsInv(Tables)' /\ RowsStay(Tables)
  BY <1>1, CommitKeepsRows
<1>3. ASSUME NEW q \in Procs PROVE ViewStays(q)
  BY <1>1, BillingAssumption DEF RowsInv, CommitRows, Unlocked, Sees, ViewStays
<1>4. \A k \in Keys : Sees(p, k) \in Tables[k] => db'[k] \in Tables[k]
  BY <1>1 DEF RowsInv, CommitRows, Sees
<1>5. QED
  BY <1>2, <1>3, <1>4 DEF Kept

LEMMA RollbackKeeps ==
  ASSUME RowsInv(Tables), NEW p \in Procs, RollbackRows(p)
  PROVE  Kept(p)
<1>1. DOMAIN Tables = Keys
  BY DEF Tables
<1>2. RowsInv(Tables)' /\ RowsStay(Tables)
  BY RollbackKeepsRows
<1>3. ASSUME NEW q \in Procs \ {p} PROVE ViewStays(q)
  BY <1>1, BillingAssumption DEF RowsInv, RollbackRows, Unlocked, Sees, ViewStays
<1>4. QED
  BY <1>2, <1>3 DEF Kept

LEMMA ReadKeeps ==
  ASSUME RowsInv(Tables), NEW p \in Procs, UNCHANGED rowVars
  PROVE  Kept(p) /\ ViewStays(p)
<1>1. RowsInv(Tables)' /\ RowsStay(Tables)
  BY ReadKeepsRows
<1>2. ASSUME NEW q \in Procs PROVE ViewStays(q)
  BY DEF rowVars, Sees, ViewStays
<1>3. QED
  BY <1>1, <1>2 DEF Kept

-----------------------------------------------------------------------------
\* What a step of p leaves of the whole state, by the shape of the step.

Others(p) == \A q \in Procs \ {p} : pc'[q] = pc[q] /\ frame'[q] = frame[q]

\* A statement after which the request goes on with the next one.
Quietly(p, next) ==
  /\ Kept(p) /\ ViewStays(p)
  /\ pc' = [pc EXCEPT ![p] = next]
  /\ UNCHANGED <<frame, stripe, sent, acked>>

LEMMA SentKeys ==
  ASSUME sent \in Outboxes, NEW e \in sent
  PROVE  EventRow(e.id) \in Keys /\ Tables[EventRow(e.id)] = [done : {TRUE}]
BY SentTyped, KeyTables

LEMMA OthersKeep ==
  ASSUME IInv, NEW p \in Procs, Kept(p), Others(p), sent' = sent, NEW q \in Procs \ {p}
  PROVE  LocalOK(pc[q], frame[q])' /\ RecordedOK(q)'
<1>1. LocalOK(pc[q], frame[q]) /\ RecordedOK(q)
  BY DEF IInv, Locals
<1>2. pc'[q] = pc[q] /\ frame'[q] = frame[q]
  BY DEF Others
<1>3. LocalOK(pc[q], frame[q])'
  BY <1>1, <1>2 DEF LocalOK, Frames
<1>4. RecordedOK(q)'
  <2>1. SUFFICES ASSUME frame[q].op = "webhook" PROVE RecordedOK(q)'
    BY <1>2 DEF RecordedOK
  <2>2. PICK k \in Keys : k = EventRow(frame[q].event.id)
    BY <1>1, <2>1, SentKeys DEF LocalOK, IInv, Globals
  <2>3. k \in DOMAIN Tables
    BY <2>2 DEF Tables
  <2>4. ViewStays(q) /\ RowsStay(Tables)
    BY DEF Kept
  <2>5. pc[q] \notin {"idle", "seen", "record"} => Sees(q, k)' \in Tables[k]
    BY <1>1, <2>1, <2>2, <2>4 DEF RecordedOK, ViewStays
  <2>6. pc[q] = "answer" => db'[k] \in Tables[k]
    BY <1>1, <2>1, <2>2, <2>3, <2>4 DEF RecordedOK, RowsStay
  <2>7. QED
    BY <1>2, <2>2, <2>5, <2>6 DEF RecordedOK, Sees
<1>5. QED
  BY <1>3, <1>4

\* A step that acknowledges only what is committed and offers only what is stored.
LEMMA GlobalsKeep ==
  ASSUME Globals, NEW p \in Procs, Kept(p), sent' = sent,
         stripe' \in [Checkouts -> {"none", "created", "offered"}],
         \A c \in Checkouts : stripe'[c] = "offered" =>
           stripe[c] = "offered" \/ db'[SessionRow(c)] \in Tables[SessionRow(c)],
         acked' \subseteq sent,
         \A e \in acked' : e \in acked \/ db'[EventRow(e.id)] \in Tables[EventRow(e.id)]
  PROVE  Globals'
<1>1. DOMAIN Tables = Keys
  BY DEF Tables
<1>2. \A e \in acked' : db'[EventRow(e.id)] \in Tables[EventRow(e.id)]
  BY <1>1, SentKeys DEF Globals, Kept, RowsStay
<1>3. \A c \in Checkouts :
        stripe'[c] = "offered" => db'[SessionRow(c)] \in Tables[SessionRow(c)]
  BY <1>1, KeyTables DEF Globals, Kept, RowsStay
<1>4. QED
  BY <1>2, <1>3 DEF Globals, Kept

LEMMA QuietKeeps ==
  ASSUME IInv, NEW p \in Procs, NEW next, Quietly(p, next), LocalOK(next, frame[p]),
         ASSUME frame[p].op = "webhook", NEW k \in Keys, k = EventRow(frame[p].event.id)
         PROVE  /\ \/ next \in {"seen", "record"}
                   \/ pc[p] \notin {"idle", "seen", "record"}
                   \/ Sees(p, k)' \in Tables[k]
                /\ next = "answer" => db'[k] \in Tables[k]
  PROVE  IInv'
<1>1. Kept(p) /\ Others(p) /\ sent' = sent
  BY DEF Quietly, Others, IInv, Locals
<1>2. Globals'
  BY <1>1, GlobalsKeep DEF IInv, Globals, Quietly
<1>3. pc' \in [Procs -> Pcs] /\ frame' \in [Procs -> Frames]'
  BY DEF IInv, Locals, Quietly, LocalOK, Frames
<1>4. pc'[p] = next /\ frame'[p] = frame[p]
  BY DEF IInv, Locals, Quietly
<1>5. LocalOK(pc[p], frame[p])'
  BY <1>1, <1>4 DEF LocalOK, Frames
<1>6. RecordedOK(p)'
  <2>1. SUFFICES ASSUME frame[p].op = "webhook" PROVE RecordedOK(p)'
    BY <1>4 DEF RecordedOK
  <2>2. frame[p].event \in sent /\ RecordedOK(p)
    BY <2>1 DEF IInv, Locals, LocalOK
  <2>3. PICK k \in Keys : k = EventRow(frame[p].event.id)
    BY <2>2, SentKeys DEF IInv, Globals
  <2>4. next \notin {"idle", "seen", "record"} => Sees(p, k)' \in Tables[k]
    BY <2>1, <2>2, <2>3 DEF RecordedOK, Quietly, ViewStays
  <2>5. next = "answer" => db'[k] \in Tables[k]
    BY <2>1, <2>3
  <2>6. QED
    BY <1>4, <2>3, <2>4, <2>5 DEF RecordedOK, Sees
<1>7. \A q \in Procs : LocalOK(pc[q], frame[q])' /\ RecordedOK(q)'
  BY <1>1, <1>5, <1>6, OthersKeep
<1>8. QED
  BY <1>2, <1>3, <1>7 DEF IInv, Locals

\* A statement of cancelActiveSubscriptions, which changes what it has found.
LEMMA SearchKeeps ==
  ASSUME IInv, NEW p \in Procs, NEW next, NEW S \in SUBSET Checkouts, Kept(p), ViewStays(p),
         pc' = [pc EXCEPT ![p] = next], frame' = [frame EXCEPT ![p].found = S],
         UNCHANGED <<stripe, sent, acked>>,
         LocalOK(next, frame[p]), next # "answer", pc[p] \notin {"idle", "seen", "record"}
  PROVE  IInv'
<1> DEFINE f == [frame[p] EXCEPT !.found = S]
<1>1. /\ pc \in [Procs -> Pcs] /\ frame \in [Procs -> Frames] /\ frame[p] \in Frames
      /\ RecordedOK(p)
  BY DEF IInv, Locals
<1>2. /\ f \in Frames /\ f.op = frame[p].op /\ f.event = frame[p].event
      /\ f.checkout = frame[p].checkout
  BY <1>1 DEF Frames
<1>3. frame' = [frame EXCEPT ![p] = f]
  OBVIOUS
<1> HIDE DEF f
<1>4. pc'[p] = next /\ frame'[p] = f /\ Others(p)
  BY <1>1, <1>3 DEF Others
<1>5. Globals'
  BY GlobalsKeep DEF IInv, Globals
<1>6. Frames' = Frames
  BY DEF Frames
<1>7. LocalOK(next, f)
  BY <1>2 DEF LocalOK
<1>8. LocalOK(pc[p], frame[p])'
  BY <1>4, <1>6, <1>7 DEF LocalOK
<1>9. pc' \in [Procs -> Pcs] /\ frame' \in [Procs -> Frames]'
  BY <1>1, <1>2, <1>3, <1>6 DEF LocalOK
<1>10. RecordedOK(p)'
  <2>1. SUFFICES ASSUME frame[p].op = "webhook" PROVE RecordedOK(p)'
    BY <1>2, <1>4 DEF RecordedOK
  <2>2. frame[p].event \in sent
    BY <2>1 DEF LocalOK
  <2>3. PICK k \in Keys : k = EventRow(frame[p].event.id)
    BY <2>2, SentKeys DEF IInv, Globals
  <2>4. Sees(p, k)' \in Tables[k]
    BY <1>1, <2>1, <2>3 DEF RecordedOK, ViewStays
  <2>5. QED
    BY <1>2, <1>4, <2>3, <2>4 DEF RecordedOK, Sees
<1>11. \A q \in Procs : LocalOK(pc[q], frame[q])' /\ RecordedOK(q)'
  BY <1>4, <1>8, <1>10, OthersKeep
<1>12. QED
  BY <1>5, <1>9, <1>11 DEF IInv, Locals

\* A request that ends, by itself, with an error or with its instance.
LEMMA EndKeeps ==
  ASSUME IInv, NEW p \in Procs, Kept(p), Return(p), sent' = sent,
         stripe' \in [Checkouts -> {"none", "created", "offered"}],
         \A c \in Checkouts : stripe'[c] = "offered" =>
           stripe[c] = "offered" \/ db'[SessionRow(c)] \in Tables[SessionRow(c)],
         acked' \subseteq sent,
         \A e \in acked' : e \in acked \/ db'[EventRow(e.id)] \in Tables[EventRow(e.id)]
  PROVE  IInv'
<1>1. Others(p)
  BY DEF Others, Return, Goto, IInv, Locals
<1>2. Globals'
  BY GlobalsKeep DEF IInv
<1>3. pc'[p] = "idle" /\ frame'[p] = NoFrame
  BY DEF Return, Goto, IInv, Locals
<1>4. NoFrame \in Frames'
  BY DEF NoFrame, Frames, Opers
<1>5. pc' \in [Procs -> Pcs] /\ frame' \in [Procs -> Frames]'
  <2>1. Frames' = Frames
    BY DEF Frames
  <2>2. QED
    BY <1>4, <2>1 DEF Return, Goto, IInv, Locals, Pcs
<1>6. LocalOK(pc[p], frame[p])' /\ RecordedOK(p)'
  BY <1>3, <1>4 DEF LocalOK, RecordedOK, NoFrame, HandlerPcs, Pcs
<1>7. \A q \in Procs : LocalOK(pc[q], frame[q])' /\ RecordedOK(q)'
  BY <1>1, <1>6, OthersKeep
<1>8. QED
  BY <1>2, <1>5, <1>7 DEF IInv, Locals

\* A request that begins.
LEMMA CallKeeps ==
  ASSUME IInv, NEW p \in Procs, NEW f, NEW first, Kept(p),
         pc' = [pc EXCEPT ![p] = first], frame' = [frame EXCEPT ![p] = f],
         LocalOK(first, f), f.op # "webhook" \/ first = "seen", sent' = sent, acked' = acked,
         stripe' \in [Checkouts -> {"none", "created", "offered"}],
         \A c \in Checkouts : stripe'[c] = "offered" => stripe[c] = "offered"
  PROVE  IInv'
<1>1. Others(p)
  BY DEF Others, IInv, Locals
<1>2. Globals'
  BY GlobalsKeep DEF IInv, Globals
<1>3. pc'[p] = first /\ frame'[p] = f
  BY DEF IInv, Locals
<1>4. Frames' = Frames
  BY DEF Frames
<1>5. pc' \in [Procs -> Pcs] /\ frame' \in [Procs -> Frames]'
  BY <1>4 DEF IInv, Locals, LocalOK
<1>6. LocalOK(pc[p], frame[p])' /\ RecordedOK(p)'
  BY <1>3, <1>4 DEF LocalOK, RecordedOK
<1>7. \A q \in Procs : LocalOK(pc[q], frame[q])' /\ RecordedOK(q)'
  BY <1>1, <1>6, OthersKeep
<1>8. QED
  BY <1>2, <1>5, <1>7 DEF IInv, Locals

-----------------------------------------------------------------------------
\* One statement of a request.

LEMMA LocalFacts ==
  ASSUME IInv, NEW p \in Procs
  PROVE  /\ LocalOK(pc[p], frame[p]) /\ RecordedOK(p)
         /\ RowsInv(Tables) /\ sent \in Outboxes
         /\ acked \subseteq sent
         /\ stripe \in [Checkouts -> {"none", "created", "offered"}]
BY DEF IInv, Locals, Globals

LEMMA ProceedKeeps ==
  ASSUME IInv, NEW p \in Procs, NEW next, Proceed(p, next), LocalOK(next, frame[p]),
         next # "answer", next \in {"seen", "record"} \/ pc[p] \notin {"idle", "seen", "record"}
  PROVE  IInv'
<1>1. Kept(p) /\ ViewStays(p)
  BY LocalFacts, ReadKeeps DEF Proceed
<1>2. Quietly(p, next)
  BY <1>1 DEF Quietly, Proceed, Goto, stripeVars
<1>3. QED
  BY <1>2, QuietKeeps

LEMMA WriteGoesOn ==
  ASSUME IInv, NEW p \in Procs, NEW k \in Keys, NEW v \in Tables[k], NEW next,
         Write(p, k, v, next), LocalOK(next, frame[p]), next # "answer",
         pc[p] \notin {"idle", "seen", "record"}
  PROVE  IInv'
<1>1. Kept(p) /\ ViewStays(p)
  BY LocalFacts, WriteKeeps DEF Write
<1>2. Quietly(p, next)
  BY <1>1 DEF Quietly, Write, Goto, stripeVars
<1>3. QED
  BY <1>2, QuietKeeps

LEMMA AbortKeeps ==
  ASSUME IInv, NEW p \in Procs, Abort(p)
  PROVE  IInv'
<1>1. Kept(p)
  BY LocalFacts, RollbackKeeps DEF Abort
<1>2. Return(p) /\ UNCHANGED <<stripe, sent, acked>>
  BY DEF Abort, stripeVars
<1>3. QED
  BY <1>1, <1>2, LocalFacts, EndKeeps

\* A request that has only read returns.
LEMMA ReturnKeeps ==
  ASSUME IInv, NEW p \in Procs, Kept(p), Return(p), UNCHANGED <<stripe, sent, acked>>
  PROVE  IInv'
BY LocalFacts, EndKeeps

\* The webhook is answered.
LEMMA AckKeeps ==
  ASSUME IInv, NEW p \in Procs, frame[p].op = "webhook",
         db[EventRow(Event(p).id)] \in Tables[EventRow(Event(p).id)],
         Ack(p), Return(p), UNCHANGED <<rowVars, stripe, sent>>
  PROVE  IInv'
<1>1. Event(p) \in sent
  BY LocalFacts DEF LocalOK, Event
<1>2. Kept(p)
  BY LocalFacts, ReadKeeps
<1>3. acked' \subseteq sent
  BY <1>1, LocalFacts DEF Ack
<1>4. \A e \in acked' : e \in acked \/ db'[EventRow(e.id)] \in Tables[EventRow(e.id)]
  BY DEF Ack, rowVars
<1>5. QED
  BY <1>2, <1>3, <1>4, LocalFacts, EndKeeps

\* What a webhook knows at each of its statements.
LEMMA WebhookFacts ==
  ASSUME IInv, NEW p \in Procs, frame[p].op = "webhook"
  PROVE  /\ Event(p) \in sent /\ Event(p) \in StripeEvents /\ Event(p).type \in EventTypes
         /\ Event(p).type = "subscription" => Event(p).status \in SubStatuses
         /\ frame[p].checkout \in Checkouts /\ frame[p].checkout = Event(p).checkout
         /\ EventRow(Event(p).id) \in Keys
         /\ Tables[EventRow(Event(p).id)] = [done : {TRUE}]
         /\ SubRow(frame[p].checkout) \in Keys
         /\ Tables[SubRow(frame[p].checkout)] = [status : SubStatuses]
         /\ SessionRow(frame[p].checkout) \in Keys
         /\ Tables[SessionRow(frame[p].checkout)] = [status : SessionStatuses]
<1>1. Event(p) \in sent /\ frame[p].checkout = Event(p).checkout
  BY LocalFacts DEF LocalOK, Event
<1>2. QED
  BY <1>1, LocalFacts, SentTyped, SentKeys, KeyTables

LEMMA SeenKeeps == ASSUME IInv, NEW p \in Procs, Seen(p) PROVE IInv'
<1>1. frame[p].op = "webhook"
  BY LocalFacts DEF Seen, LocalOK, HandlerPcs
<1>2. CASE Proceed(p, "record")
  <2>1. LocalOK("record", frame[p])
    BY <1>1, LocalFacts DEF LocalOK, Pcs, HandlerPcs
  <2>2. QED
    BY <1>2, <2>1, ProceedKeeps
<1>3. CASE db[EventRow(Event(p).id)] # NoRow /\ Ack(p) /\ Return(p) /\ UNCHANGED <<rowVars, stripeVars, crashes>>
  <2>1. db[EventRow(Event(p).id)] \in Tables[EventRow(Event(p).id)]
    BY <1>1, <1>3, LocalFacts, WebhookFacts, FoundTyped
  <2>2. QED
    BY <1>1, <1>3, <2>1, AckKeeps DEF stripeVars
<1>4. QED
  BY <1>2, <1>3 DEF Seen

LEMMA FirstOK ==
  ASSUME IInv, NEW p \in Procs, frame[p].op = "webhook"
  PROVE  LocalOK(First[Event(p).type], frame[p]) /\ First[Event(p).type] # "answer"
<1>1. Event(p).type \in EventTypes /\ Event(p) = frame[p].event
  BY WebhookFacts DEF Event
<1>2. LocalOK(pc[p], frame[p])
  BY LocalFacts
<1>3. CASE Event(p).type \in {"completed", "expired", "async_failed"}
  <2>1. First[Event(p).type] = "sessionRead"
    BY <1>3 DEF First
  <2>2. QED
    BY <1>1, <1>2, <1>3, <2>1 DEF LocalOK, Pcs, HandlerPcs
<1>4. CASE Event(p).type \in {"paid", "failed", "subscription"}
  <2>1. First[Event(p).type] \in {"paidRead", "failedRead", "customer"}
    BY <1>4 DEF First
  <2>2. QED
    BY <1>2, <2>1 DEF LocalOK, Pcs, HandlerPcs
<1>5. QED
  BY <1>1, <1>3, <1>4 DEF EventTypes

LEMMA RecordKeeps == ASSUME IInv, NEW p \in Procs, Record(p) PROVE IInv'
<1> DEFINE next == First[Event(p).type]
<1>1. frame[p].op = "webhook"
  BY LocalFacts DEF Record, LocalOK, HandlerPcs
<1>2. PICK k \in Keys : k = EventRow(Event(p).id)
  BY <1>1, WebhookFacts
<1>3. Tables[k] = [done : {TRUE}]
  BY <1>1, <1>2, WebhookFacts
<1>4. CASE InsertRow(p, k, [done |-> TRUE]) /\ Goto(p, next) /\ UNCHANGED <<frame, stripeVars, acked, crashes>>
  <2>1. WriteRow(p, k, [done |-> TRUE]) /\ [done |-> TRUE] \in Tables[k]
    BY <1>3, <1>4 DEF InsertRow
  <2>2. Quietly(p, next)
    BY <1>4, <2>1, LocalFacts, WriteKeeps DEF Quietly, Goto, stripeVars
  <2>3. Sees(p, k)' \in Tables[k]
    <3>1. DOMAIN Tables = Keys
      BY DEF Tables
    <3>2. QED
      BY <2>1, <3>1, LocalFacts DEF WriteRow, Sees, RowsInv
  <2>4. QED
    BY <1>1, <1>2, <2>2, <2>3, FirstOK, QuietKeeps DEF Event
<1>5. CASE Refused(p, k) /\ Proceed(p, next)
  <2>1. db[k] \in Tables[k]
    BY <1>5, LocalFacts, FoundTyped DEF Refused
  <2>2. Sees(p, k) \in Tables[k]
    BY <2>1, LocalFacts, FoundTyped
  <2>3. Kept(p) /\ ViewStays(p)
    BY <1>5, LocalFacts, ReadKeeps DEF Proceed
  <2>4. Quietly(p, next)
    BY <1>5, <2>3 DEF Quietly, Proceed, Goto, stripeVars
  <2>5. Sees(p, k)' \in Tables[k]
    BY <2>2, <2>3 DEF ViewStays
  <2>6. QED
    BY <1>1, <1>2, <2>4, <2>5, FirstOK, QuietKeeps DEF Event
<1>6. QED
  BY <1>2, <1>4, <1>5 DEF Record

\* The statements that only look something up.
LEMMA ReadsKeep ==
  ASSUME IInv, NEW p \in Procs, SessionRead(p) \/ PaidRead(p) \/ FailedRead(p) \/ SubRead(p)
  PROVE  IInv'
<1>1. frame[p].op = "webhook" /\ pc[p] \in {"sessionRead", "paidRead", "failedRead", "subRead"}
  BY LocalFacts DEF SessionRead, PaidRead, FailedRead, SubRead, LocalOK, HandlerPcs
<1>2. LocalOK(pc[p], frame[p])
  BY LocalFacts
<1>3. CASE SessionRead(p)
  <2>1. PICK next \in {"sessionWrite", "commit", "customer"} : Proceed(p, next)
    BY <1>3 DEF SessionRead
  <2>2. LocalOK(next, frame[p])
    BY <1>1, <1>2, <1>3, <2>1 DEF SessionRead, LocalOK, Pcs, HandlerPcs
  <2>3. QED
    BY <1>1, <2>1, <2>2, ProceedKeeps
<1>4. CASE PaidRead(p) \/ FailedRead(p)
  <2>1. PICK next \in {"paidWrite", "failedWrite", "commit"} : Proceed(p, next)
    BY <1>4 DEF PaidRead, FailedRead
  <2>2. LocalOK(next, frame[p])
    BY <1>1, <1>2, <2>1 DEF LocalOK, Pcs, HandlerPcs
  <2>3. QED
    BY <1>1, <2>1, <2>2, ProceedKeeps
<1>5. CASE SubRead(p)
  <2>1. PICK next \in {"subUpdate", "subInsert"} : Proceed(p, next)
    BY <1>5 DEF SubRead
  <2>2. LocalOK(next, frame[p])
    BY <1>1, <1>2, <1>5, <2>1 DEF SubRead, LocalOK, Pcs, HandlerPcs
  <2>3. QED
    BY <1>1, <2>1, <2>2, ProceedKeeps
<1>6. QED
  BY <1>3, <1>4, <1>5

LEMMA CustomerKeeps == ASSUME IInv, NEW p \in Procs, Customer(p) PROVE IInv'
<1>1. frame[p].op = "webhook" /\ pc[p] = "customer"
  BY LocalFacts DEF Customer, LocalOK, HandlerPcs
<1>2. PICK next \in {"commit", "cancelOthers", "subRead"} :
        /\ next = AfterCustomer(Event(p))
        /\ next # "commit" => Event(p).type = "subscription"
  BY DEF AfterCustomer
<1>3. LocalOK(next, frame[p])
  BY <1>1, <1>2, LocalFacts DEF LocalOK, Pcs, HandlerPcs, Event
<1>4. CustomerRow \in Keys /\ [linked |-> TRUE] \in Tables[CustomerRow]
  BY KeyTables
<1>5. CASE Write(p, CustomerRow, [linked |-> TRUE], next)
  BY <1>1, <1>2, <1>3, <1>4, <1>5, WriteGoesOn
<1>6. CASE Proceed(p, next)
  BY <1>1, <1>2, <1>3, <1>6, ProceedKeeps
<1>7. QED
  BY <1>2, <1>5, <1>6 DEF Customer

LEMMA SessionWriteKeeps == ASSUME IInv, NEW p \in Procs, SessionWrite(p) PROVE IInv'
<1>1. frame[p].op = "webhook" /\ pc[p] = "sessionWrite"
  BY LocalFacts DEF SessionWrite, LocalOK, HandlerPcs
<1>2. Event(p).type \in {"completed", "expired", "async_failed", "subscription"}
  BY <1>1, LocalFacts DEF LocalOK, Event
<1>3. NewSessionStatus(Event(p)) \in SessionStatuses
  BY <1>2 DEF NewSessionStatus, SessionStatuses
<1>4. PICK next \in {"commit", "customer"} :
        Write(p, SessionRow(frame[p].checkout), [status |-> NewSessionStatus(Event(p))], next)
  BY DEF SessionWrite
<1>5. LocalOK(next, frame[p])
  BY <1>1, <1>4, LocalFacts DEF LocalOK, Pcs, HandlerPcs
<1>6. QED
  BY <1>1, <1>3, <1>4, <1>5, WebhookFacts, WriteGoesOn

LEMMA PaidWriteKeeps == ASSUME IInv, NEW p \in Procs, PaidWrite(p) PROVE IInv'
<1>1. frame[p].op = "webhook" /\ pc[p] = "paidWrite"
  BY LocalFacts DEF PaidWrite, LocalOK, HandlerPcs
<1>2. PICK status \in SubStatuses : Write(p, SubRow(frame[p].checkout), [status |-> status], "customer")
  BY DEF PaidWrite, SubStatuses
<1>3. LocalOK("customer", frame[p])
  BY <1>1, LocalFacts DEF LocalOK, Pcs, HandlerPcs
<1>4. QED
  BY <1>1, <1>2, <1>3, WebhookFacts, WriteGoesOn

LEMMA FailedWriteKeeps == ASSUME IInv, NEW p \in Procs, FailedWrite(p) PROVE IInv'
<1>1. frame[p].op = "webhook" /\ pc[p] = "failedWrite"
  BY LocalFacts DEF FailedWrite, LocalOK, HandlerPcs
<1>2. LocalOK("commit", frame[p])
  BY <1>1, LocalFacts DEF LocalOK, Pcs, HandlerPcs
<1>3. CASE Write(p, SubRow(frame[p].checkout), [status |-> "PENDING"], "commit")
  <2>1. [status |-> "PENDING"] \in Tables[SubRow(frame[p].checkout)]
    BY <1>1, WebhookFacts DEF SubStatuses
  <2>2. QED
    BY <1>1, <1>2, <1>3, <2>1, WebhookFacts, WriteGoesOn
<1>4. CASE Proceed(p, "commit")
  BY <1>1, <1>2, <1>4, ProceedKeeps
<1>5. QED
  BY <1>3, <1>4 DEF FailedWrite

LEMMA FindKeeps ==
  ASSUME IInv, NEW p \in Procs, CancelOthers(p) \/ CancelSubscriptions(p)
  PROVE  IInv'
<1>1. PICK next \in {"takeOthers", "takeAll"} : FindActive(p, next) /\ LocalOK(next, frame[p])
  <2>1. CASE CancelOthers(p)
    <3>1. LocalOK("takeOthers", frame[p])
      BY <2>1, LocalFacts DEF CancelOthers, LocalOK, Pcs, HandlerPcs
    <3>2. QED
      BY <2>1, <3>1 DEF CancelOthers
  <2>2. CASE CancelSubscriptions(p)
    <3>1. LocalOK("takeAll", frame[p])
      BY <2>2, LocalFacts DEF CancelSubscriptions, LocalOK, Pcs, HandlerPcs
    <3>2. QED
      BY <2>2, <3>1 DEF CancelSubscriptions
  <2>3. QED
    BY <2>1, <2>2
<1>2. pc[p] \in {"cancelOthers", "cancelAll"}
  BY DEF CancelOthers, CancelSubscriptions
<1>3. Kept(p) /\ ViewStays(p)
  BY <1>1, LocalFacts, ReadKeeps DEF FindActive
<1>4. ActiveSubs(p) \in SUBSET Checkouts
  BY DEF ActiveSubs
<1>5. /\ pc' = [pc EXCEPT ![p] = next] /\ frame' = [frame EXCEPT ![p].found = ActiveSubs(p)]
      /\ UNCHANGED <<stripe, sent, acked>>
  BY <1>1 DEF FindActive, Goto, stripeVars
<1>6. QED
  BY <1>1, <1>2, <1>3, <1>4, <1>5, SearchKeeps

LEMMA TakeKeeps ==
  ASSUME IInv, NEW p \in Procs, TakeActive(p), pc[p] \in {"takeOthers", "takeAll"}
  PROVE  IInv'
<1>1. PICK c \in frame[p].found :
        /\ WriteRow(p, SubRow(c), [status |-> "CANCELLED"]) \/ UNCHANGED rowVars
        /\ frame' = [frame EXCEPT ![p].found = frame[p].found \ {c}]
        /\ UNCHANGED <<pc, stripeVars, acked, crashes>>
  BY DEF TakeActive
<1>2. pc \in [Procs -> Pcs] /\ frame[p] \in Frames
  BY DEF IInv, Locals
<1>3. frame[p].found \ {c} \in SUBSET Checkouts /\ c \in Checkouts
  BY <1>2 DEF Frames
<1>4. SubRow(c) \in Keys /\ [status |-> "CANCELLED"] \in Tables[SubRow(c)]
  BY <1>3, KeyTables DEF SubStatuses
<1>5. Kept(p) /\ ViewStays(p)
  BY <1>1, <1>4, LocalFacts, WriteKeeps, ReadKeeps
<1>6. pc' = [pc EXCEPT ![p] = pc[p]] /\ UNCHANGED <<stripe, sent, acked>>
  BY <1>1, <1>2 DEF stripeVars
<1>7. QED
  BY <1>1, <1>3, <1>5, <1>6, LocalFacts, SearchKeeps

LEMMA TakesKeep ==
  ASSUME IInv, NEW p \in Procs, TakeOthers(p) \/ TakeAll(p)
  PROVE  IInv'
<1>1. pc[p] \in {"takeOthers", "takeAll"}
  BY DEF TakeOthers, TakeAll
<1>2. CASE TakeActive(p)
  BY <1>1, <1>2, TakeKeeps
<1>3. CASE TakeOthers(p) /\ Proceed(p, "subRead")
  <2>1. LocalOK("subRead", frame[p])
    BY <1>3, LocalFacts DEF TakeOthers, LocalOK, Pcs, HandlerPcs
  <2>2. QED
    BY <1>1, <1>3, <2>1, ProceedKeeps
<1>4. CASE TakeAll(p) /\ Proceed(p, "commit")
  <2>1. LocalOK("commit", frame[p])
    BY <1>4, LocalFacts DEF TakeAll, LocalOK, Pcs, HandlerPcs
  <2>2. QED
    BY <1>1, <1>4, <2>1, ProceedKeeps
<1>5. QED
  BY <1>2, <1>3, <1>4 DEF TakeOthers, TakeAll

LEMMA SubInsertKeeps == ASSUME IInv, NEW p \in Procs, SubInsert(p) PROVE IInv'
<1> DEFINE k == SubRow(frame[p].checkout)
<1>1. frame[p].op = "webhook" /\ pc[p] = "subInsert" /\ Event(p).type = "subscription"
  BY LocalFacts DEF SubInsert, LocalOK, HandlerPcs, Event
<1>2. LocalOK("sessionRead", frame[p])
  BY <1>1, LocalFacts DEF LocalOK, Pcs, HandlerPcs, Event
<1>3. CASE /\ InsertRow(p, k, [status |-> Event(p).status])
           /\ Goto(p, "sessionRead") /\ UNCHANGED <<frame, stripeVars, acked, crashes>>
  <2>1. Write(p, k, [status |-> Event(p).status], "sessionRead")
    BY <1>3 DEF Write, InsertRow
  <2>2. QED
    BY <1>1, <1>2, <2>1, WebhookFacts, WriteGoesOn
<1>4. CASE Abort(p)
  BY <1>4, AbortKeeps
<1>5. QED
  BY <1>3, <1>4 DEF SubInsert

LEMMA SubUpdateKeeps == ASSUME IInv, NEW p \in Procs, SubUpdate(p) PROVE IInv'
<1>1. frame[p].op = "webhook" /\ pc[p] = "subUpdate" /\ Event(p).type = "subscription"
  BY LocalFacts DEF SubUpdate, LocalOK, HandlerPcs, Event
<1>2. LocalOK("sessionRead", frame[p])
  BY <1>1, LocalFacts DEF LocalOK, Pcs, HandlerPcs, Event
<1>3. QED
  BY <1>1, <1>2, WebhookFacts, WriteGoesOn DEF SubUpdate

LEMMA CommitStepKeeps == ASSUME IInv, NEW p \in Procs, Commit(p) PROVE IInv'
<1>1. Kept(p) /\ ViewStays(p) /\ \A k \in Keys : Sees(p, k) \in Tables[k] => db'[k] \in Tables[k]
  BY LocalFacts, CommitKeeps DEF Commit
<1>2. CASE frame[p].op = "webhook"
  <2>1. Quietly(p, "answer")
    BY <1>1, <1>2 DEF Commit, Quietly, Goto, stripeVars
  <2>2. LocalOK("answer", frame[p])
    BY <1>2, LocalFacts DEF LocalOK, Pcs, HandlerPcs
  <2>3. ASSUME NEW k \in Keys, k = EventRow(frame[p].event.id)
        PROVE  db'[k] \in Tables[k]
    BY <1>1, <1>2, <2>3, LocalFacts DEF RecordedOK, Commit
  <2>4. QED
    BY <2>1, <2>2, <2>3, QuietKeeps DEF Commit
<1>3. CASE frame[p].op # "webhook"
  BY <1>1, <1>3, ReturnKeeps DEF Commit, stripeVars
<1>4. QED
  BY <1>2, <1>3

LEMMA AnswerKeeps == ASSUME IInv, NEW p \in Procs, Answer(p) PROVE IInv'
<1>1. frame[p].op = "webhook"
  BY LocalFacts DEF Answer, LocalOK, HandlerPcs
<1>2. db[EventRow(Event(p).id)] \in Tables[EventRow(Event(p).id)]
  BY <1>1, LocalFacts DEF Answer, RecordedOK, Event
<1>3. QED
  BY <1>1, <1>2, AckKeeps DEF Answer, stripeVars

LEMMA NewCustomerKeeps == ASSUME IInv, NEW p \in Procs, NewCustomer(p) PROVE IInv'
<1> DEFINE v == [linked |-> IF db[CustomerRow] = NoRow THEN FALSE ELSE db[CustomerRow].linked]
<1>1. CustomerRow \in Keys /\ Tables[CustomerRow] = [linked : BOOLEAN]
  BY KeyTables
<1>2. v \in Tables[CustomerRow]
  <2>1. db[CustomerRow] # NoRow => db[CustomerRow] \in [linked : BOOLEAN]
    BY <1>1, LocalFacts, FoundTyped
  <2>2. QED
    BY <1>1, <2>1
<1>3. AutocommitRow(CustomerRow, v)
  BY DEF NewCustomer
<1> HIDE DEF v
<1>4. Quietly(p, "newSession")
  BY <1>1, <1>2, <1>3, LocalFacts, AutocommitKeeps DEF Quietly, NewCustomer, Goto, stripeVars
<1>5. LocalOK("newSession", frame[p])
  BY LocalFacts DEF NewCustomer, LocalOK, Pcs, HandlerPcs
<1>6. QED
  BY <1>4, <1>5, QuietKeeps DEF NewCustomer

LEMMA NewSessionKeeps == ASSUME IInv, NEW p \in Procs, NewSession(p) PROVE IInv'
<1>1. PICK c \in Checkouts : c = frame[p].checkout
  BY LocalFacts DEF NewSession, LocalOK
<1>2. SessionRow(c) \in Keys /\ [status |-> "OPEN"] \in Tables[SessionRow(c)]
  BY KeyTables DEF SessionStatuses
<1>3. AutocommitRow(SessionRow(c), [status |-> "OPEN"])
      /\ stripe' = [stripe EXCEPT ![c] = "offered"]
  BY <1>1 DEF NewSession
<1>4. Kept(p)
  BY <1>2, <1>3, LocalFacts, AutocommitKeeps
<1>5. db'[SessionRow(c)] \in Tables[SessionRow(c)]
  <2>1. DOMAIN Tables = Keys
    BY DEF Tables
  <2>2. QED
    BY <1>2, <1>3, <2>1, LocalFacts DEF AutocommitRow, RowsInv
<1>6. \A d \in Checkouts : stripe'[d] = "offered" =>
        stripe[d] = "offered" \/ db'[SessionRow(d)] \in Tables[SessionRow(d)]
  BY <1>3, <1>5, LocalFacts
<1>7. stripe' \in [Checkouts -> {"none", "created", "offered"}]
  BY <1>3, LocalFacts
<1>8. Return(p) /\ sent' = sent /\ acked' = acked
  BY DEF NewSession
<1>9. QED
  BY <1>4, <1>6, <1>7, <1>8, LocalFacts, EndKeeps

LEMMA ViewReadKeeps == ASSUME IInv, NEW p \in Procs, ViewRead(p) PROVE IInv'
<1>1. CASE Proceed(p, "viewExpire")
  <2>1. LocalOK("viewExpire", frame[p])
    BY LocalFacts DEF ViewRead, LocalOK, Pcs, HandlerPcs
  <2>2. QED
    BY <1>1, <2>1, ProceedKeeps DEF ViewRead
<1>2. CASE Return(p) /\ UNCHANGED <<rowVars, stripeVars, acked, crashes>>
  BY <1>2, LocalFacts, ReadKeeps, ReturnKeeps DEF stripeVars
<1>3. QED
  BY <1>1, <1>2 DEF ViewRead

LEMMA ViewExpireKeeps == ASSUME IInv, NEW p \in Procs, ViewExpire(p) PROVE IInv'
<1>1. PICK c \in Checkouts : c = frame[p].checkout
  BY LocalFacts DEF ViewExpire, LocalOK
<1>2. SessionRow(c) \in Keys /\ [status |-> "EXPIRED"] \in Tables[SessionRow(c)]
  BY KeyTables DEF SessionStatuses
<1>3. \/ AutocommitRow(SessionRow(c), [status |-> "EXPIRED"])
      \/ AutocommitRow(SessionRow(c), db[SessionRow(c)])
  BY <1>1 DEF ViewExpire
<1>4. Kept(p)
  BY <1>2, <1>3, LocalFacts, AutocommitKeeps, AutocommitNothing
<1>5. QED
  BY <1>4, ReturnKeeps DEF ViewExpire, stripeVars

LEMMA CancelReadKeeps == ASSUME IInv, NEW p \in Procs, CancelRead(p) PROVE IInv'
<1>1. CASE Proceed(p, "cancelAll")
  <2>1. LocalOK("cancelAll", frame[p])
    BY LocalFacts DEF CancelRead, LocalOK, Pcs, HandlerPcs
  <2>2. QED
    BY <1>1, <2>1, ProceedKeeps DEF CancelRead
<1>2. CASE Return(p) /\ UNCHANGED <<rowVars, stripeVars, acked, crashes>>
  BY <1>2, LocalFacts, ReadKeeps, ReturnKeeps DEF stripeVars
<1>3. QED
  BY <1>1, <1>2 DEF CancelRead

LEMMA StepKeeps == ASSUME IInv, NEW p \in Procs, Step(p) PROVE IInv'
<1>1. CASE DeadlockVictim(p)
  BY <1>1, AbortKeeps DEF DeadlockVictim
<1>2. QED
  BY <1>1, SeenKeeps, RecordKeeps, ReadsKeep, CustomerKeeps, SessionWriteKeeps, PaidWriteKeeps,
     FailedWriteKeeps, FindKeeps, TakesKeep, SubInsertKeeps, SubUpdateKeeps, CommitStepKeeps,
     AnswerKeeps, NewCustomerKeeps, NewSessionKeeps, ViewReadKeeps, ViewExpireKeeps,
     CancelReadKeeps DEF Step

-----------------------------------------------------------------------------
\* Requests that begin and instances that die.

LEMMA CallsKeep ==
  ASSUME IInv, NEW p \in Procs, NEW f, NEW first, Call(p, f, first), LocalOK(first, f),
         f.op # "webhook" \/ first = "seen"
  PROVE  IInv'
<1>1. Kept(p)
  BY LocalFacts, ReadKeeps DEF Call
<1>2. pc' = [pc EXCEPT ![p] = first] /\ frame' = [frame EXCEPT ![p] = f]
      /\ UNCHANGED <<stripe, sent, acked>>
  BY DEF Call, Goto, stripeVars
<1>3. QED
  BY <1>1, <1>2, LocalFacts, CallKeeps

LEMMA DeliverKeeps == ASSUME IInv, NEW p \in Procs, Deliver(p) PROVE IInv'
<1>1. PICK e \in sent \ acked :
        Call(p, [NoFrame EXCEPT !.op = "webhook", !.checkout = e.checkout, !.event = e], "seen")
  BY DEF Deliver
<1> DEFINE f == [NoFrame EXCEPT !.op = "webhook", !.checkout = e.checkout, !.event = e]
<1>2. e.checkout \in Checkouts
  BY LocalFacts, SentTyped
<1>3. LocalOK("seen", f)
  BY <1>2 DEF LocalOK, Frames, Opers, Pcs, HandlerPcs, NoFrame
<1>4. QED
  BY <1>1, <1>3, CallsKeep

LEMMA ViewKeeps == ASSUME IInv, NEW p \in Procs, NEW c \in Checkouts, View(p, c) PROVE IInv'
<1> DEFINE f == [NoFrame EXCEPT !.op = "view", !.checkout = c]
<1>1. LocalOK("viewRead", f) /\ f.op # "webhook"
  BY DEF LocalOK, Frames, Opers, Pcs, HandlerPcs, NoFrame
<1>2. QED
  BY <1>1, CallsKeep DEF View

LEMMA CancelCallKeeps == ASSUME IInv, NEW p \in Procs, Cancel(p) PROVE IInv'
<1> DEFINE f == [NoFrame EXCEPT !.op = "cancel"]
<1>1. LocalOK("cancelRead", f) /\ f.op # "webhook"
  BY DEF LocalOK, Frames, Opers, Pcs, HandlerPcs, NoFrame
<1>2. QED
  BY <1>1, CallsKeep DEF Cancel

LEMMA OpenKeeps == ASSUME IInv, NEW p \in Procs, NEW c \in Checkouts, OpenCheckout(p, c) PROVE IInv'
<1> DEFINE f == [NoFrame EXCEPT !.op = "checkout", !.checkout = c]
<1>1. LocalOK("newCustomer", f) /\ f.op # "webhook"
  BY DEF LocalOK, Frames, Opers, Pcs, HandlerPcs, NoFrame
<1>2. Kept(p)
  BY LocalFacts, ReadKeeps DEF OpenCheckout
<1>3. stripe' = [stripe EXCEPT ![c] = "created"]
  BY DEF OpenCheckout
<1>4. /\ stripe' \in [Checkouts -> {"none", "created", "offered"}]
      /\ \A d \in Checkouts : stripe'[d] = "offered" => stripe[d] = "offered"
  BY <1>3, LocalFacts
<1>5. pc' = [pc EXCEPT ![p] = "newCustomer"] /\ frame' = [frame EXCEPT ![p] = f]
      /\ sent' = sent /\ acked' = acked
  BY DEF OpenCheckout, Goto
<1>6. QED
  BY <1>1, <1>2, <1>4, <1>5, CallKeeps

LEMMA CrashKeeps == ASSUME IInv, NEW p \in Procs, Crash(p) PROVE IInv'
<1>1. Abort(p)
  BY DEF Crash, Abort
<1>2. QED
  BY <1>1, AbortKeeps

LEMMA NothingKeeps == ASSUME IInv, UNCHANGED vars PROVE IInv'
<1>1. Globals'
  BY DEF vars, rowVars, stripeVars, IInv, Globals, RowsInv
<1>2. Locals'
  BY DEF vars, rowVars, stripeVars, localVars, IInv, Locals, LocalOK, RecordedOK, Frames, Sees
<1>3. QED
  BY <1>1, <1>2 DEF IInv

LEMMA InvStep == IInv /\ [Next]_vars => IInv'
<1> SUFFICES ASSUME IInv, [Next]_vars PROVE IInv'
  OBVIOUS
<1>1. CASE UNCHANGED vars
  BY <1>1, NothingKeeps
<1>2. CASE Next
  BY <1>2, NothingKeeps, StepKeeps, CrashKeeps, CancelCallKeeps, DeliverKeeps, OpenKeeps, ViewKeeps
     DEF Next, Quiet
<1>3. QED
  BY <1>1, <1>2

LEMMA InitHolds == Init => IInv
<1> SUFFICES ASSUME Init PROVE IInv
  OBVIOUS
<1> DEFINE opened == {SessionRow(c) : c \in Opened}
<1> DEFINE initial == [k \in Keys |-> IF k \in opened THEN [status |-> "OPEN"] ELSE NoRow]
<1>1. DOMAIN Tables = Keys
  BY DEF Tables
<1>2. db = initial /\ new = initial /\ owner = [k \in Keys |-> NoProc]
  BY DEF Init, RowsInit
<1>3. \A k \in opened : k \in Keys /\ [status |-> "OPEN"] \in Tables[k]
  BY BillingAssumption, KeyTables DEF SessionStatuses
<1> HIDE DEF opened
<1>4. RowsInv(Tables)
  <2>1. db = [k \in DOMAIN Tables |-> db[k]] /\ new = [k \in DOMAIN Tables |-> new[k]]
    BY <1>1, <1>2
  <2>2. owner \in [DOMAIN Tables -> Procs \cup {NoProc}]
    BY <1>1, <1>2
  <2>3. ASSUME NEW k \in DOMAIN Tables
        PROVE  /\ db[k] \in Tables[k] \cup {NoRow}
               /\ new[k] \in Tables[k] \cup {NoRow}
               /\ db[k] \in Tables[k] => new[k] \in Tables[k]
    BY <1>1, <1>2, <1>3
  <2>4. QED
    BY <2>1, <2>2, <2>3 DEF RowsInv
<1>5. \A c \in Checkouts : stripe[c] = "offered" => db[SessionRow(c)] \in Tables[SessionRow(c)]
  <2>1. SUFFICES ASSUME NEW c \in Checkouts, c \in Opened
                 PROVE  db[SessionRow(c)] \in Tables[SessionRow(c)]
    BY DEF Init
  <2>2. SessionRow(c) \in opened
    BY <2>1 DEF opened
  <2>3. QED
    BY <1>2, <1>3, <2>2
<1>6. Globals
  BY <1>4, <1>5 DEF Globals, Init
<1>7. Locals
  <2>1. NoFrame \in Frames
    BY DEF NoFrame, Frames, Opers
  <2>2. LocalOK("idle", NoFrame)
    BY <2>1 DEF LocalOK, NoFrame, Pcs, HandlerPcs
  <2>3. \A p \in Procs : pc[p] = "idle" /\ frame[p] = NoFrame
    BY DEF Init
  <2>4. pc \in [Procs -> Pcs] /\ frame \in [Procs -> Frames]
    BY <2>1 DEF Init, Pcs
  <2>5. QED
    BY <2>2, <2>3, <2>4 DEF Locals, RecordedOK, NoFrame
<1>8. QED
  BY <1>6, <1>7 DEF IInv

LEMMA Invariance == Spec => []IInv
BY InitHolds, InvStep, PTL DEF Spec

-----------------------------------------------------------------------------
\* Every row satisfies its table's CHECK constraints, committed or not, and
\* every request is about events Stripe has.
THEOREM TypesHold == Spec => []TypeOK
<1>1. IInv => TypeOK
  <2> SUFFICES ASSUME IInv PROVE TypeOK
    OBVIOUS
  <2>1. ASSUME NEW k \in Keys, NEW row \in {db[k], new[k]} \ {NoRow}
        PROVE  CASE k[1] = "customer" -> row \in [linked : BOOLEAN]
                 [] k[1] = "subscription" -> row \in [status : SubStatuses]
                 [] k[1] = "session" -> row \in [status : SessionStatuses]
                 [] k[1] = "event" -> row \in [done : {TRUE}]
    <3>1. row \in Tables[k]
      BY DEF IInv, Globals, RowsInv, Tables
    <3>2. CASE k = CustomerRow
      BY <3>1, <3>2, KeyTables DEF CustomerRow
    <3>3. ASSUME NEW c \in Checkouts, k = SubRow(c)
          PROVE  k[1] = "subscription" /\ row \in [status : SubStatuses]
      BY <3>1, <3>3, KeyTables DEF SubRow
    <3>4. ASSUME NEW c \in Checkouts, k = SessionRow(c)
          PROVE  k[1] = "session" /\ row \in [status : SessionStatuses]
      BY <3>1, <3>4, KeyTables DEF SessionRow
    <3>5. ASSUME NEW n \in EventIds, k = EventRow(n)
          PROVE  k[1] = "event" /\ row \in [done : {TRUE}]
      BY <3>1, <3>5, KeyTables DEF EventRow
    <3>6. QED
      BY <3>2, <3>3, <3>4, <3>5 DEF Keys
  <2>2. owner \in [Keys -> Procs \cup {NoProc}]
    BY DEF IInv, Globals, RowsInv, Tables
  <2>3. \A p \in Procs :
          frame[p].event \in sent \cup {NoEvent} /\ frame[p].found \subseteq Checkouts
    BY DEF IInv, Locals, Frames
  <2>4. QED
    BY <2>1, <2>2, <2>3 DEF TypeOK, IInv, Locals, Globals
<1>2. QED
  BY <1>1, Invariance, PTL

\* An event is answered 200 only once its row is committed, and with it, in
\* the same transaction, all it changed.
THEOREM AcknowledgedIsRecorded == Spec => []AckedMeansRecorded
<1>1. IInv => AckedMeansRecorded
  BY SentKeys, NoRowInTables DEF IInv, Globals, AckedMeansRecorded
<1>2. QED
  BY <1>1, Invariance, PTL

-----------------------------------------------------------------------------
(***************************************************************************)
(* The refinement of BillingMirror.  RefInv says what each request has     *)
(* written and not committed, related to what is committed: the row lock   *)
(* on a subscription keeps what an invoice read true until it commits, and *)
(* the lock on the customer row keeps subscriptions from becoming active   *)
(* between cancelActiveSubscriptions and the commit.                       *)
(***************************************************************************)

AfterCancel == {"takeOthers", "subRead", "subInsert", "subUpdate", "sessionRead", "sessionWrite", "commit"}
AfterUpsert == {"sessionRead", "sessionWrite", "commit"}
SessionTypes == {"completed", "expired", "async_failed"}

\* p handles a customer.subscription event; one that reports it active.
Reports(p) == frame[p].op = "webhook" /\ Event(p).type = "subscription"
Activates(p) == Reports(p) /\ Event(p).status = "ACTIVE"

IsActive(k) == db[k] = [status |-> "ACTIVE"]
Renewed(row) == [status |-> IF row.status \in {"CANCELLED", "EXPIRED"} THEN row.status ELSE "ACTIVE"]

\* What a request may have written of the subscription of c.
PaidPending(p, c) ==
  /\ frame[p].op = "webhook" /\ Event(p).type = "paid" /\ c = frame[p].checkout
  /\ pc[p] \in {"customer", "commit"}
  /\ db[SubRow(c)] # NoRow /\ new[SubRow(c)] = Renewed(db[SubRow(c)])
  /\ pc[p] = "commit" => owner[CustomerRow] = p

FailedPending(p, c) ==
  /\ frame[p].op = "webhook" /\ Event(p).type = "failed" /\ c = frame[p].checkout
  /\ pc[p] = "commit"
  /\ IsActive(SubRow(c)) /\ new[SubRow(c)] = [status |-> "PENDING"]

ReportPending(p, c) ==
  /\ Reports(p) /\ c = frame[p].checkout
  /\ pc[p] \in AfterUpsert
  /\ new[SubRow(c)] = [status |-> Event(p).status]

CancelPending(p, c) ==
  /\ \/ Activates(p) /\ pc[p] \in AfterCancel /\ (c = frame[p].checkout => pc[p] \notin AfterUpsert)
     \/ frame[p].op = "cancel" /\ pc[p] \in {"takeAll", "commit"}
  /\ IsActive(SubRow(c)) /\ new[SubRow(c)] = [status |-> "CANCELLED"]

SubPending(p, c) ==
  PaidPending(p, c) \/ FailedPending(p, c) \/ ReportPending(p, c) \/ CancelPending(p, c)

\* What it may have written of a checkout session.
SessionPending(p, c) ==
  /\ frame[p].op = "webhook" /\ c = frame[p].checkout
  /\ stripe[c] = "offered"
  /\ new[SessionRow(c)] = [status |-> NewSessionStatus(Event(p))]
  /\ \/ Event(p).type \in SessionTypes /\ pc[p] \in {"customer", "commit"}
     \/ Event(p).type = "subscription" /\ pc[p] = "commit"

\* What a subscription event has done by each of its statements.
ReportOK(p) ==
  Reports(p) =>
    /\ pc[p] \in AfterCancel \cup {"cancelOthers"} => owner[CustomerRow] = p
    /\ pc[p] \in AfterUpsert => owner[SubRow(frame[p].checkout)] = p
    /\ pc[p] = "commit" => owner[SessionRow(frame[p].checkout)] = p
    /\ Event(p).status = "ACTIVE" /\ pc[p] \in AfterCancel =>
         \A c \in Checkouts \ {frame[p].checkout} :
           IsActive(SubRow(c)) =>
             owner[SubRow(c)] = p \/ (pc[p] = "takeOthers" /\ c \in frame[p].found)

\* Which requests come to which statements.
FlowOK(p) ==
  /\ pc[p] \in {"paidRead", "paidWrite"} => Event(p).type = "paid"
  /\ pc[p] \in {"failedRead", "failedWrite"} => Event(p).type = "failed"
  /\ pc[p] = "customer" => Event(p).type # "failed"
  /\ pc[p] \in {"cancelOthers", "takeOthers"} => Activates(p)
  /\ pc[p] \in {"cancelRead", "cancelAll", "takeAll"} => frame[p].op = "cancel"

\* What an event has found is still there when it is written.
FoundOK(p) ==
  /\ pc[p] \in {"paidWrite", "failedWrite"} => db[SubRow(frame[p].checkout)] # NoRow
  /\ pc[p] = "sessionWrite" => stripe[frame[p].checkout] = "offered"

PendingOK(p) ==
  /\ FlowOK(p) /\ FoundOK(p)
  /\ \A c \in Checkouts : owner[SubRow(c)] = p => SubPending(p, c)
  /\ \A c \in Checkouts : owner[SessionRow(c)] = p => SessionPending(p, c)
  /\ ReportOK(p)

Opening(p) == pc[p] \in {"newCustomer", "newSession"}

CheckoutOK(p) ==
  /\ Opening(p) => stripe[frame[p].checkout] = "created"
  /\ frame[p].op = "webhook" => Event(p).type = "expired" \/ stripe[frame[p].checkout] = "offered"
  /\ pc[p] = "viewExpire" => db[SessionRow(frame[p].checkout)] # NoRow

\* A checkout is opened by one request, and its row appears with its URL.
CheckoutsOK ==
  /\ \A p \in Procs : CheckoutOK(p)
  /\ \A p, q \in Procs :
       Opening(p) /\ Opening(q) /\ frame[p].checkout = frame[q].checkout => p = q
  /\ \A c \in Checkouts : stripe[c] # "offered" => db[SessionRow(c)] = NoRow

RefInv == IInv /\ CheckoutsOK /\ \A p \in Procs : PendingOK(p)

-----------------------------------------------------------------------------
LEMMA KeysDiffer ==
  /\ \A c \in Checkouts : SubRow(c) # CustomerRow /\ SessionRow(c) # CustomerRow
  /\ \A c, d \in Checkouts :
       /\ SubRow(c) # SessionRow(d)
       /\ SubRow(c) = SubRow(d) => c = d
       /\ SessionRow(c) = SessionRow(d) => c = d
  /\ \A n \in EventIds :
       /\ EventRow(n) # CustomerRow
       /\ \A c \in Checkouts : EventRow(n) # SubRow(c) /\ EventRow(n) # SessionRow(c)
BY DEF SubRow, SessionRow, CustomerRow, EventRow

\* What a step of p leaves of the rows the others have locked.
LocksStay(p) ==
  \A k \in Keys, q \in Procs \ {p} :
    /\ owner'[k] = q <=> owner[k] = q
    /\ owner[k] = q => new'[k] = new[k] /\ db'[k] = db[k]

\* What it leaves of the rows of p itself, k aside.
RestStays(k) ==
  \A j \in Keys \ {k} : owner'[j] = owner[j] /\ new'[j] = new[j] /\ db'[j] = db[j]

LEMMA WriteFacts ==
  ASSUME RowsInv(Tables), NEW p \in Procs, NEW k \in Keys, NEW v, WriteRow(p, k, v)
  PROVE  /\ LocksStay(p) /\ RestStays(k)
         /\ db' = db /\ owner'[k] = p /\ new'[k] = v
<1>1. DOMAIN Tables = Keys
  BY DEF Tables
<1>2. QED
  BY <1>1, BillingAssumption DEF RowsInv, WriteRow, Free, LocksStay, RestStays

LEMMA AutocommitFacts ==
  ASSUME RowsInv(Tables), NEW p \in Procs, NEW k \in Keys, NEW v, AutocommitRow(k, v)
  PROVE  /\ LocksStay(p) /\ RestStays(k)
         /\ db'[k] = v /\ owner'[k] = NoProc
<1>1. DOMAIN Tables = Keys
  BY DEF Tables
<1>2. QED
  BY <1>1, BillingAssumption DEF RowsInv, AutocommitRow, LocksStay, RestStays

LEMMA CommitFacts ==
  ASSUME RowsInv(Tables), NEW p \in Procs, CommitRows(p)
  PROVE  /\ LocksStay(p)
         /\ \A k \in Keys : owner'[k] # p /\ db'[k] = IF owner[k] = p THEN new[k] ELSE db[k]
<1>1. DOMAIN Tables = Keys
  BY DEF Tables
<1>2. QED
  BY <1>1, BillingAssumption DEF RowsInv, CommitRows, Unlocked, Sees, LocksStay

LEMMA RollbackFacts ==
  ASSUME RowsInv(Tables), NEW p \in Procs, RollbackRows(p)
  PROVE  LocksStay(p) /\ db' = db /\ \A k \in Keys : owner'[k] # p
<1>1. DOMAIN Tables = Keys
  BY DEF Tables
<1>2. QED
  BY <1>1, BillingAssumption DEF RowsInv, RollbackRows, Unlocked, LocksStay

LEMMA ReadFacts ==
  ASSUME NEW p \in Procs, UNCHANGED rowVars
  PROVE  LocksStay(p) /\ \A k : RestStays(k)
BY DEF rowVars, LocksStay, RestStays

-----------------------------------------------------------------------------
\* What a step of p leaves true of the others.

LEMMA OthersPending ==
  ASSUME IInv, NEW p \in Procs, NEW q \in Procs \ {p}, PendingOK(q), LocksStay(p), Others(p),
         \A c \in Checkouts : db[SubRow(c)] # NoRow => db'[SubRow(c)] # NoRow,
         \A c \in Checkouts : stripe[c] = "offered" => stripe'[c] = "offered",
         Activates(q) /\ pc[q] \in AfterCancel =>
           \A c \in Checkouts \ {frame[q].checkout} : IsActive(SubRow(c))' => IsActive(SubRow(c))
  PROVE  PendingOK(q)'
<1>1. pc'[q] = pc[q] /\ frame'[q] = frame[q]
  BY DEF Others
<1>2. FlowOK(q)'
  BY <1>1 DEF PendingOK, FlowOK, Activates, Reports, Event
<1>7. FoundOK(q)'
  <2>1. SUFFICES ASSUME pc[q] \in {"paidWrite", "failedWrite", "sessionWrite"} PROVE FoundOK(q)'
    BY <1>1 DEF FoundOK
  <2>2. FoundOK(q) /\ frame[q].checkout \in Checkouts
    BY <2>1, LocalFacts, WebhookFacts DEF PendingOK, LocalOK, HandlerPcs
  <2>3. QED
    BY <1>1, <2>1, <2>2 DEF FoundOK
<1>3. ASSUME NEW c \in Checkouts, owner'[SubRow(c)] = q
      PROVE  SubPending(q, c)'
  <2>1. SubRow(c) \in Keys /\ CustomerRow \in Keys
    BY KeyTables
  <2>2. owner[SubRow(c)] = q /\ new'[SubRow(c)] = new[SubRow(c)] /\ db'[SubRow(c)] = db[SubRow(c)]
    BY <1>3, <2>1 DEF LocksStay
  <2>3. owner[CustomerRow] = q => owner'[CustomerRow] = q
    BY <2>1 DEF LocksStay
  <2>4. SubPending(q, c)
    BY <2>2 DEF PendingOK
  <2>5. CASE PaidPending(q, c)
    BY <1>1, <2>2, <2>3, <2>5 DEF SubPending, PaidPending, Event
  <2>6. CASE FailedPending(q, c)
    BY <1>1, <2>2, <2>6 DEF SubPending, FailedPending, IsActive, Event
  <2>7. CASE ReportPending(q, c)
    BY <1>1, <2>2, <2>7 DEF SubPending, ReportPending, Reports, Event
  <2>8. CASE CancelPending(q, c)
    BY <1>1, <2>2, <2>8 DEF SubPending, CancelPending, Activates, Reports, IsActive, Event
  <2>9. QED
    BY <2>4, <2>5, <2>6, <2>7, <2>8 DEF SubPending
<1>4. ASSUME NEW c \in Checkouts, owner'[SessionRow(c)] = q
      PROVE  SessionPending(q, c)'
  <2>1. SessionRow(c) \in Keys
    BY KeyTables
  <2>2. owner[SessionRow(c)] = q /\ new'[SessionRow(c)] = new[SessionRow(c)]
    BY <1>4, <2>1 DEF LocksStay
  <2>3. SessionPending(q, c)
    BY <2>2 DEF PendingOK
  <2>4. QED
    BY <1>1, <2>2, <2>3 DEF SessionPending, Event
<1>5. ReportOK(q)'
  <2>1. SUFFICES ASSUME Reports(q) PROVE ReportOK(q)'
    BY <1>1 DEF ReportOK, Reports, Event
  <2>2. frame[q].checkout \in Checkouts
    BY <2>1, WebhookFacts DEF Reports
  <2>3. /\ CustomerRow \in Keys /\ SubRow(frame[q].checkout) \in Keys
        /\ SessionRow(frame[q].checkout) \in Keys
        /\ \A c \in Checkouts : SubRow(c) \in Keys
    BY <2>2, KeyTables
  <2>4. ReportOK(q)
    BY DEF PendingOK
  <2>5. ASSUME Event(q).status = "ACTIVE", pc[q] \in AfterCancel,
               NEW c \in Checkouts \ {frame[q].checkout}, IsActive(SubRow(c))'
        PROVE  owner'[SubRow(c)] = q \/ (pc'[q] = "takeOthers" /\ c \in frame'[q].found)
    <3>1. IsActive(SubRow(c))
      BY <2>1, <2>5 DEF Activates
    <3>2. QED
      BY <1>1, <2>1, <2>3, <2>4, <2>5, <3>1 DEF ReportOK, LocksStay
  <2>6. QED
    BY <1>1, <2>1, <2>3, <2>4, <2>5 DEF ReportOK, LocksStay, Reports, Event
<1>6. QED
  BY <1>2, <1>3, <1>4, <1>5, <1>7 DEF PendingOK

\* A step that publishes nothing of subscriptions
LEMMA QuietOthers ==
  ASSUME RefInv, NEW p \in Procs, LocksStay(p), Others(p),
         \A c \in Checkouts : db'[SubRow(c)] = db[SubRow(c)],
         \A c \in Checkouts : stripe[c] = "offered" => stripe'[c] = "offered"
  PROVE  \A q \in Procs \ {p} : PendingOK(q)'
BY OthersPending DEF RefInv, IsActive

\* The checkouts of a step that neither opens one nor stores a session.
LEMMA CheckoutsStay ==
  ASSUME RefInv, NEW p \in Procs, Others(p), stripe' = stripe,
         Opening(p)' => Opening(p) /\ frame'[p].checkout = frame[p].checkout,
         CheckoutOK(p)',
         \A c \in Checkouts : db'[SessionRow(c)] = NoRow <=> db[SessionRow(c)] = NoRow
  PROVE  CheckoutsOK'
<1>1. ASSUME NEW q \in Procs \ {p} PROVE CheckoutOK(q)'
  <2>1. CheckoutOK(q) /\ pc'[q] = pc[q] /\ frame'[q] = frame[q] /\ LocalOK(pc[q], frame[q])
    BY LocalFacts DEF RefInv, CheckoutsOK, Others
  <2>2. QED
    BY <2>1 DEF CheckoutOK, Opening, LocalOK, Event
<1>2. \A q, r \in Procs :
        Opening(q)' /\ Opening(r)' /\ frame'[q].checkout = frame'[r].checkout => q = r
  BY DEF RefInv, CheckoutsOK, Opening, Others
<1>3. \A c \in Checkouts : stripe'[c] # "offered" => db'[SessionRow(c)] = NoRow
  BY DEF RefInv, CheckoutsOK
<1>4. QED
  BY <1>1, <1>2, <1>3 DEF CheckoutsOK

\* One statement of a request that goes on: it reads, or writes one row.
LEMMA SearchGoesOn ==
  ASSUME RefInv, IInv', NEW p \in Procs, NEW next, NEW S, LocksStay(p), stripe' = stripe,
         \A c \in Checkouts : db'[SubRow(c)] = db[SubRow(c)] /\ db'[SessionRow(c)] = db[SessionRow(c)],
         pc' = [pc EXCEPT ![p] = next], frame' = [frame EXCEPT ![p].found = S], PendingOK(p)',
         next \in {"takeOthers", "takeAll"}
  PROVE  RefInv'
<1>1. pc \in [Procs -> Pcs] /\ frame \in [Procs -> Frames] /\ frame[p] \in Frames
  BY DEF RefInv, IInv, Locals
<1>2. /\ Others(p) /\ pc'[p] = next /\ frame'[p].op = frame[p].op
      /\ frame'[p].checkout = frame[p].checkout /\ frame'[p].event = frame[p].event
  BY <1>1 DEF Others, Frames
<1>3. ~ Opening(p)'
  BY <1>2 DEF Opening
<1>4. CheckoutOK(p)'
  BY <1>2, <1>3 DEF RefInv, CheckoutsOK, CheckoutOK, Event
<1>5. CheckoutsOK'
  BY <1>2, <1>3, <1>4, CheckoutsStay
<1>6. \A q \in Procs \ {p} : PendingOK(q)'
  BY <1>2, QuietOthers
<1>7. QED
  BY <1>5, <1>6 DEF RefInv

LEMMA GoesOn ==
  ASSUME RefInv, IInv', NEW p \in Procs, NEW next, LocksStay(p), stripe' = stripe,
         \A c \in Checkouts : db'[SubRow(c)] = db[SubRow(c)] /\ db'[SessionRow(c)] = db[SessionRow(c)],
         pc' = [pc EXCEPT ![p] = next], frame' = frame, PendingOK(p)',
         next \in {"newCustomer", "newSession"} => Opening(p),
         next = "viewExpire" => db[SessionRow(frame[p].checkout)] # NoRow
  PROVE  RefInv'
<1>1. pc \in [Procs -> Pcs]
  BY DEF RefInv, IInv, Locals
<1>2. Others(p) /\ pc'[p] = next
  BY <1>1 DEF Others
<1>3. Opening(p)' => Opening(p) /\ frame'[p].checkout = frame[p].checkout
  BY <1>2 DEF Opening
<1>4. CheckoutOK(p)'
  <2>1. next = "viewExpire" => frame[p].checkout \in Checkouts
    BY <1>2 DEF IInv, Locals, LocalOK
  <2>2. QED
    BY <1>2, <2>1 DEF RefInv, CheckoutsOK, CheckoutOK, Opening, Event
<1>5. CheckoutsOK'
  BY <1>2, <1>3, <1>4, CheckoutsStay
<1>6. \A q \in Procs \ {p} : PendingOK(q)'
  BY <1>2, QuietOthers
<1>7. QED
  BY <1>5, <1>6 DEF RefInv

\* A request that ends with nothing locked.
LEMMA EndsClean ==
  ASSUME NEW p \in Procs, pc'[p] = "idle",
         \A c \in Checkouts : owner'[SubRow(c)] # p /\ owner'[SessionRow(c)] # p
  PROVE  PendingOK(p)'
<1>1. FlowOK(p)' /\ FoundOK(p)'
  BY DEF FlowOK, FoundOK
<1>2. ReportOK(p)'
  BY DEF ReportOK, AfterCancel, AfterUpsert
<1>3. QED
  BY <1>1, <1>2 DEF PendingOK

LEMMA Ends ==
  ASSUME RefInv, IInv', NEW p \in Procs, LocksStay(p), stripe' = stripe, Return(p),
         \A c \in Checkouts : owner'[SubRow(c)] # p /\ owner'[SessionRow(c)] # p,
         \A c \in Checkouts : db'[SubRow(c)] = db[SubRow(c)],
         \A c \in Checkouts : db'[SessionRow(c)] = NoRow <=> db[SessionRow(c)] = NoRow
  PROVE  RefInv'
<1>1. pc \in [Procs -> Pcs] /\ frame \in [Procs -> Frames]
  BY DEF RefInv, IInv, Locals
<1>2. Others(p) /\ pc'[p] = "idle" /\ frame'[p] = NoFrame
  BY <1>1 DEF Others, Return, Goto
<1>3. ~ Opening(p)' /\ CheckoutOK(p)'
  BY <1>2 DEF Opening, CheckoutOK, NoFrame
<1>4. CheckoutsOK'
  BY <1>2, <1>3, CheckoutsStay
<1>5. \A q \in Procs \ {p} : PendingOK(q)'
  BY <1>2, QuietOthers
<1>6. PendingOK(p)'
  BY <1>2, EndsClean
<1>7. QED
  BY <1>4, <1>5, <1>6 DEF RefInv

\* A request that has written nothing of subscriptions and sessions yet.
Unwritten(p) == \A c \in Checkouts : owner[SubRow(c)] # p /\ owner[SessionRow(c)] # p

\* The statements before its first write there.
Early(p) ==
  \/ pc[p] \in {"idle", "seen", "record", "paidRead", "paidWrite", "failedRead", "failedWrite",
                "cancelOthers", "answer", "newCustomer", "newSession", "viewRead", "viewExpire",
                "cancelRead", "cancelAll"}
  \/ pc[p] \in {"sessionRead", "sessionWrite"} /\ ~ Reports(p)
  \/ pc[p] = "customer" /\ Reports(p)

LEMMA NothingPending ==
  ASSUME NEW p \in Procs, PendingOK(p), Early(p)
  PROVE  Unwritten(p)
<1>1. ASSUME NEW c \in Checkouts PROVE ~ SubPending(p, c)
  BY DEF SubPending, PaidPending, FailedPending, ReportPending, CancelPending, Activates, Reports,
     AfterCancel, AfterUpsert, Early
<1>2. ASSUME NEW c \in Checkouts PROVE ~ SessionPending(p, c)
  BY DEF SessionPending, SessionTypes, Reports, Early
<1>3. QED
  BY <1>1, <1>2 DEF PendingOK, Unwritten

\* One statement more of such a request, of which no subscription event has
\* come to the subscriptions yet.
LEMMA UnwrittenGoesOn ==
  ASSUME RefInv, IInv', NEW p \in Procs, NEW next, LocksStay(p), stripe' = stripe,
         \A c \in Checkouts : db'[SubRow(c)] = db[SubRow(c)] /\ db'[SessionRow(c)] = db[SessionRow(c)],
         \A c \in Checkouts : owner'[SubRow(c)] # p /\ owner'[SessionRow(c)] # p,
         pc' = [pc EXCEPT ![p] = next], frame' = frame, FlowOK(p)', FoundOK(p)',
         Reports(p) => next \notin AfterCancel \cup {"cancelOthers"},
         next \in {"newCustomer", "newSession"} => Opening(p),
         next = "viewExpire" => db[SessionRow(frame[p].checkout)] # NoRow
  PROVE  RefInv'
<1>1. pc'[p] = next
  BY DEF RefInv, IInv, Locals
<1>2. ReportOK(p)'
  BY <1>1 DEF ReportOK, Reports, Event, AfterUpsert, AfterCancel
<1>3. PendingOK(p)'
  BY <1>2 DEF PendingOK
<1>4. QED
  BY <1>3, GoesOn

LEMMA UnwrittenProceeds ==
  ASSUME RefInv, IInv', NEW p \in Procs, NEW next, Proceed(p, next), Unwritten(p), FlowOK(p)', FoundOK(p)',
         Reports(p) => next \notin AfterCancel \cup {"cancelOthers"},
         next \notin {"newCustomer", "newSession"},
         next = "viewExpire" => db[SessionRow(frame[p].checkout)] # NoRow
  PROVE  RefInv'
<1>1. /\ pc' = [pc EXCEPT ![p] = next] /\ UNCHANGED <<rowVars, frame, stripe>>
  BY DEF Proceed, Goto, stripeVars
<1>2. LocksStay(p) /\ db' = db /\ owner' = owner
  BY <1>1, ReadFacts DEF rowVars
<1>3. QED
  BY <1>1, <1>2, UnwrittenGoesOn DEF Unwritten

LEMMA UnwrittenReturns ==
  ASSUME RefInv, IInv', NEW p \in Procs, Unwritten(p), Return(p), UNCHANGED <<rowVars, stripe>>
  PROVE  RefInv'
<1>1. LocksStay(p) /\ db' = db /\ owner' = owner
  BY ReadFacts DEF rowVars
<1>2. QED
  BY <1>1, Ends DEF Unwritten

\* What a statement may assume of its request.
LEMMA RefFacts ==
  ASSUME RefInv, NEW p \in Procs
  PROVE  /\ IInv /\ PendingOK(p) /\ FlowOK(p) /\ FoundOK(p) /\ ReportOK(p) /\ CheckoutOK(p)
         /\ LocalOK(pc[p], frame[p]) /\ RowsInv(Tables)
         /\ pc \in [Procs -> Pcs] /\ frame \in [Procs -> Frames]
         /\ DOMAIN Tables = Keys
BY LocalFacts DEF RefInv, PendingOK, CheckoutsOK, IInv, Locals, Tables

-----------------------------------------------------------------------------
\* The statements of a webhook before it comes to the subscriptions.

LEMMA SeenRefines == ASSUME RefInv, IInv', NEW p \in Procs, Seen(p) PROVE RefInv'
<1>1. pc[p] = "seen" /\ Unwritten(p)
  BY RefFacts, NothingPending DEF Seen, Early
<1>2. CASE Proceed(p, "record")
  <2>1. FlowOK(p)' /\ FoundOK(p)'
    BY <1>2, RefFacts DEF FlowOK, FoundOK, Proceed, Goto
  <2>2. QED
    BY <1>1, <1>2, <2>1, UnwrittenProceeds DEF AfterCancel
<1>3. CASE Return(p) /\ UNCHANGED <<rowVars, stripeVars, crashes>>
  BY <1>1, <1>3, UnwrittenReturns DEF stripeVars
<1>4. QED
  BY <1>2, <1>3 DEF Seen

LEMMA RecordRefines == ASSUME RefInv, IInv', NEW p \in Procs, Record(p) PROVE RefInv'
<1> DEFINE next == First[Event(p).type]
<1>1. pc[p] = "record" /\ Unwritten(p) /\ frame[p].op = "webhook"
  BY RefFacts, NothingPending DEF Record, Early, LocalOK, HandlerPcs
<1>2. PICK k \in Keys : k = EventRow(Event(p).id)
  BY <1>1, RefFacts, WebhookFacts
<1>3. Event(p).type \in EventTypes /\ Event(p).id \in EventIds
  BY <1>1, RefFacts, LocalFacts, WebhookFacts, SentTyped
<1>4. /\ next \in {"sessionRead", "paidRead", "failedRead", "customer"}
      /\ next = "paidRead" => Event(p).type = "paid"
      /\ next = "failedRead" => Event(p).type = "failed"
      /\ next = "customer" => Event(p).type = "subscription"
      /\ next = "sessionRead" => Event(p).type # "subscription"
  BY <1>3 DEF First, EventTypes
<1> HIDE DEF next
<1>5. \A c \in Checkouts : SubRow(c) \in Keys \ {k} /\ SessionRow(c) \in Keys \ {k}
  BY <1>2, <1>3, KeyTables, KeysDiffer
<1>6. ASSUME pc' = [pc EXCEPT ![p] = next], frame' = frame
      PROVE  FlowOK(p)' /\ FoundOK(p)'
  BY <1>4, <1>6, RefFacts DEF FlowOK, FoundOK, Event
<1>7. CASE InsertRow(p, k, [done |-> TRUE]) /\ Goto(p, next) /\ UNCHANGED <<frame, stripeVars, acked, crashes>>
  <2>1. LocksStay(p) /\ RestStays(k) /\ db' = db
    BY <1>7, RefFacts, WriteFacts DEF InsertRow
  <2>2. \A c \in Checkouts : owner'[SubRow(c)] # p /\ owner'[SessionRow(c)] # p
    BY <1>1, <1>5, <2>1 DEF RestStays, Unwritten
  <2>3. stripe' = stripe /\ pc' = [pc EXCEPT ![p] = next] /\ frame' = frame
    BY <1>7 DEF Goto, stripeVars
  <2>4. QED
    BY <1>4, <1>6, <2>1, <2>2, <2>3, UnwrittenGoesOn DEF AfterCancel, Reports
<1>8. CASE Proceed(p, next)
  <2>1. FlowOK(p)' /\ FoundOK(p)'
    BY <1>6, <1>8 DEF Proceed, Goto
  <2>2. QED
    BY <1>1, <1>4, <1>8, <2>1, UnwrittenProceeds DEF AfterCancel, Reports
<1>9. QED
  BY <1>2, <1>7, <1>8 DEF Record, next

LEMMA EarlyReadsRefine ==
  ASSUME RefInv, IInv', NEW p \in Procs,
         PaidRead(p) \/ FailedRead(p) \/ (SessionRead(p) /\ ~ Reports(p))
  PROVE  RefInv'
<1>1. frame[p].op = "webhook" /\ pc[p] \in {"sessionRead", "paidRead", "failedRead"}
  BY RefFacts DEF SessionRead, PaidRead, FailedRead, LocalOK, HandlerPcs
<1>2. Event(p).type # "subscription"
  BY <1>1, RefFacts DEF SessionRead, PaidRead, FailedRead, FlowOK, Reports
<1>3. Unwritten(p)
  BY <1>1, <1>2, RefFacts, NothingPending DEF Early, Reports
<1>4. PICK next \in {"sessionWrite", "customer", "paidWrite", "failedWrite", "commit"} :
        /\ Proceed(p, next)
        /\ next = "paidWrite" => Event(p).type = "paid"
        /\ next = "failedWrite" => Event(p).type = "failed"
        /\ next = "customer" => Event(p).type # "failed"
        /\ next \in {"paidWrite", "failedWrite"} => db[SubRow(frame[p].checkout)] # NoRow
        /\ next = "sessionWrite" => stripe[frame[p].checkout] = "offered"
  <2>4. Exists(p, SubRow(frame[p].checkout)) => db[SubRow(frame[p].checkout)] # NoRow
    BY <1>1, <1>3, RefFacts, WebhookFacts DEF Unwritten, Exists, Sees
  <2>1. CASE PaidRead(p)
    BY <2>1, <2>4, RefFacts DEF PaidRead, FlowOK
  <2>2. CASE FailedRead(p)
    BY <2>2, <2>4, RefFacts DEF FailedRead, FlowOK
  <2>3. CASE SessionRead(p)
    <3>1. Exists(p, SessionRow(frame[p].checkout)) => stripe[frame[p].checkout] = "offered"
      BY <1>1, <1>3, RefFacts, WebhookFacts
         DEF Unwritten, Exists, Sees, RefInv, CheckoutsOK
    <3>2. QED
      BY <2>3, <3>1, RefFacts DEF SessionRead, LocalOK, Event
  <2>5. QED
    BY <2>1, <2>2, <2>3
<1>5. FlowOK(p)' /\ FoundOK(p)'
  BY <1>4, RefFacts DEF FlowOK, FoundOK, Proceed, Goto, Event, rowVars, stripeVars
<1>6. QED
  BY <1>2, <1>3, <1>4, <1>5, UnwrittenProceeds DEF Reports

LEMMA AnswerRefines == ASSUME RefInv, IInv', NEW p \in Procs, Answer(p) PROVE RefInv'
<1>1. Unwritten(p)
  BY RefFacts, NothingPending DEF Answer, Early
<1>2. QED
  BY <1>1, UnwrittenReturns DEF Answer, stripeVars

-----------------------------------------------------------------------------
\* What invoices and checkout events write, up to their commit.

LEMMA SessionWriteRefines ==
  ASSUME RefInv, IInv', NEW p \in Procs, SessionWrite(p), ~ Reports(p)
  PROVE  RefInv'
<1>1. frame[p].op = "webhook" /\ pc[p] = "sessionWrite"
  BY RefFacts DEF SessionWrite, LocalOK, HandlerPcs
<1>2. Event(p).type \in SessionTypes
  BY <1>1, RefFacts DEF LocalOK, Reports, Event, SessionTypes
<1>3. Unwritten(p)
  BY <1>1, <1>2, RefFacts, NothingPending DEF Early, Reports, SessionTypes
<1>4. PICK c \in Checkouts : c = frame[p].checkout
  BY <1>1, RefFacts, WebhookFacts
<1>5. SessionRow(c) \in Keys
  BY KeyTables
<1>6. /\ WriteRow(p, SessionRow(c), [status |-> NewSessionStatus(Event(p))])
      /\ pc' = [pc EXCEPT ![p] = "customer"] /\ frame' = frame /\ stripe' = stripe
  BY <1>2, <1>4 DEF SessionWrite, Write, Goto, stripeVars, SessionTypes
<1>7. /\ LocksStay(p) /\ RestStays(SessionRow(c)) /\ db' = db
      /\ owner'[SessionRow(c)] = p /\ new'[SessionRow(c)] = [status |-> NewSessionStatus(Event(p))]
  BY <1>5, <1>6, RefFacts, WriteFacts
<1>8. pc'[p] = "customer"
  BY <1>6, RefFacts
<1>9. \A d \in Checkouts : owner'[SubRow(d)] # p
  BY <1>3, <1>7, KeyTables, KeysDiffer DEF Unwritten, RestStays
<1>10. ASSUME NEW d \in Checkouts, owner'[SessionRow(d)] = p
       PROVE  SessionPending(p, d)'
  <2>1. d = c
    BY <1>3, <1>7, <1>10, KeyTables, KeysDiffer DEF Unwritten, RestStays
  <2>2. QED
    BY <1>1, <1>2, <1>4, <1>6, <1>7, <1>8, <2>1, RefFacts DEF SessionPending, FoundOK, Event
<1>11. FlowOK(p)' /\ FoundOK(p)' /\ ReportOK(p)'
  BY <1>2, <1>6, <1>8 DEF FlowOK, FoundOK, ReportOK, Reports, Event, SessionTypes, AfterCancel, AfterUpsert
<1>12. PendingOK(p)'
  BY <1>9, <1>10, <1>11 DEF PendingOK
<1>13. QED
  BY <1>6, <1>7, <1>12, GoesOn

LEMMA PaidWriteRefines == ASSUME RefInv, IInv', NEW p \in Procs, PaidWrite(p) PROVE RefInv'
<1>1. frame[p].op = "webhook" /\ pc[p] = "paidWrite" /\ Event(p).type = "paid"
  BY RefFacts DEF PaidWrite, LocalOK, HandlerPcs, FlowOK
<1>2. Unwritten(p)
  BY <1>1, RefFacts, NothingPending DEF Early, Reports
<1>3. PICK c \in Checkouts : c = frame[p].checkout
  BY <1>1, RefFacts, WebhookFacts
<1>4. SubRow(c) \in Keys
  BY KeyTables
<1>5. Sees(p, SubRow(c)) = db[SubRow(c)]
  BY <1>2 DEF Sees, Unwritten
<1>6. /\ WriteRow(p, SubRow(c), Renewed(db[SubRow(c)]))
      /\ pc' = [pc EXCEPT ![p] = "customer"] /\ frame' = frame /\ stripe' = stripe
  BY <1>3, <1>5 DEF PaidWrite, Write, Goto, stripeVars, Renewed
<1>7. /\ LocksStay(p) /\ RestStays(SubRow(c)) /\ db' = db
      /\ owner'[SubRow(c)] = p /\ new'[SubRow(c)] = Renewed(db[SubRow(c)])
  BY <1>4, <1>6, RefFacts, WriteFacts
<1>8. pc'[p] = "customer"
  BY <1>6, RefFacts
<1>9. db[SubRow(c)] # NoRow
  BY <1>1, <1>3, RefFacts DEF FoundOK
<1>10. ASSUME NEW d \in Checkouts, owner'[SubRow(d)] = p
       PROVE  SubPending(p, d)'
  <2>1. d = c
    BY <1>2, <1>7, <1>10, KeyTables, KeysDiffer DEF Unwritten, RestStays
  <2>2. PaidPending(p, d)'
    BY <1>1, <1>3, <1>6, <1>7, <1>8, <1>9, <2>1 DEF PaidPending, Event
  <2>3. QED
    BY <2>2 DEF SubPending
<1>11. \A d \in Checkouts : owner'[SessionRow(d)] # p
  BY <1>2, <1>7, KeyTables, KeysDiffer DEF Unwritten, RestStays
<1>12. FlowOK(p)' /\ FoundOK(p)' /\ ReportOK(p)'
  BY <1>1, <1>6, <1>8 DEF FlowOK, FoundOK, ReportOK, Reports, Event, AfterCancel, AfterUpsert
<1>13. PendingOK(p)'
  BY <1>10, <1>11, <1>12 DEF PendingOK
<1>14. QED
  BY <1>6, <1>7, <1>13, GoesOn

\* A subscription that is found and says it is active, is.
LEMMA ActiveRow ==
  ASSUME RefInv, NEW c \in Checkouts, db[SubRow(c)] # NoRow, db[SubRow(c)].status = "ACTIVE"
  PROVE  IsActive(SubRow(c))
<1>1. SubRow(c) \in Keys /\ Tables[SubRow(c)] = [status : SubStatuses]
  BY KeyTables
<1>2. db[SubRow(c)] \in [status : SubStatuses]
  BY <1>1 DEF RefInv, IInv, Globals, RowsInv, Tables
<1>3. QED
  BY <1>2 DEF IsActive

LEMMA FailedWriteRefines == ASSUME RefInv, IInv', NEW p \in Procs, FailedWrite(p) PROVE RefInv'
<1>1. frame[p].op = "webhook" /\ pc[p] = "failedWrite" /\ Event(p).type = "failed"
  BY RefFacts DEF FailedWrite, LocalOK, HandlerPcs, FlowOK
<1>2. Unwritten(p)
  BY <1>1, RefFacts, NothingPending DEF Early
<1>3. PICK c \in Checkouts : c = frame[p].checkout
  BY <1>1, RefFacts, WebhookFacts
<1>4. SubRow(c) \in Keys
  BY KeyTables
<1>5. Sees(p, SubRow(c)) = db[SubRow(c)]
  BY <1>2 DEF Sees, Unwritten
<1>6. CASE Sees(p, SubRow(c)).status = "ACTIVE" /\ Write(p, SubRow(c), [status |-> "PENDING"], "commit")
  <2>1. /\ WriteRow(p, SubRow(c), [status |-> "PENDING"])
        /\ pc' = [pc EXCEPT ![p] = "commit"] /\ frame' = frame /\ stripe' = stripe
    BY <1>6 DEF Write, Goto, stripeVars
  <2>2. /\ LocksStay(p) /\ RestStays(SubRow(c)) /\ db' = db
        /\ owner'[SubRow(c)] = p /\ new'[SubRow(c)] = [status |-> "PENDING"]
    BY <1>4, <2>1, RefFacts, WriteFacts
  <2>3. pc'[p] = "commit"
    BY <2>1, RefFacts
  <2>4. IsActive(SubRow(c))
    BY <1>1, <1>3, <1>5, <1>6, RefFacts, ActiveRow DEF FoundOK
  <2>5. ASSUME NEW d \in Checkouts, owner'[SubRow(d)] = p
        PROVE  SubPending(p, d)'
    <3>1. d = c
      BY <1>2, <2>2, <2>5, KeyTables, KeysDiffer DEF Unwritten, RestStays
    <3>2. FailedPending(p, d)'
      BY <1>1, <1>3, <2>1, <2>2, <2>3, <2>4, <3>1 DEF FailedPending, IsActive, Event
    <3>3. QED
      BY <3>2 DEF SubPending
  <2>6. \A d \in Checkouts : owner'[SessionRow(d)] # p
    BY <1>2, <2>2, KeyTables, KeysDiffer DEF Unwritten, RestStays
  <2>7. FlowOK(p)' /\ FoundOK(p)' /\ ReportOK(p)'
    BY <1>1, <2>1, <2>3 DEF FlowOK, FoundOK, ReportOK, Reports, Event
  <2>8. PendingOK(p)'
    BY <2>5, <2>6, <2>7 DEF PendingOK
  <2>9. QED
    BY <2>1, <2>2, <2>8, GoesOn
<1>7. CASE Proceed(p, "commit")
  <2>1. FlowOK(p)' /\ FoundOK(p)'
    BY <1>7, RefFacts DEF FlowOK, FoundOK, Proceed, Goto
  <2>2. QED
    BY <1>1, <1>2, <1>7, <2>1, UnwrittenProceeds DEF Reports
<1>8. QED
  BY <1>3, <1>6, <1>7 DEF FailedWrite

\* upsertBillingCustomer ends an invoice or a checkout event and begins a
\* subscription event.
LEMMA CustomerRefines == ASSUME RefInv, IInv', NEW p \in Procs, Customer(p) PROVE RefInv'
<1>1. frame[p].op = "webhook" /\ pc[p] = "customer"
  BY RefFacts DEF Customer, LocalOK, HandlerPcs
<1>2. PICK next \in {"commit", "cancelOthers", "subRead"} :
        /\ next = AfterCustomer(Event(p))
        /\ Event(p).type # "subscription" => next = "commit"
        /\ Event(p).type = "subscription" =>
             next = IF Event(p).status = "ACTIVE" THEN "cancelOthers" ELSE "subRead"
  BY DEF AfterCustomer
<1>3. CustomerRow \in Keys /\ \A c \in Checkouts :
        SubRow(c) \in Keys \ {CustomerRow} /\ SessionRow(c) \in Keys \ {CustomerRow}
  BY KeyTables, KeysDiffer
<1>4. /\ pc' = [pc EXCEPT ![p] = next] /\ frame' = frame /\ stripe' = stripe
      /\ \/ Event(p).customer /\ WriteRow(p, CustomerRow, [linked |-> TRUE])
         \/ ~Event(p).customer /\ UNCHANGED rowVars
  BY <1>2 DEF Customer, Write, Proceed, Goto, stripeVars
<1>5. LocksStay(p) /\ RestStays(CustomerRow) /\ db' = db
  BY <1>3, <1>4, RefFacts, WriteFacts, ReadFacts DEF rowVars
<1>12. Event(p).type \in {"paid", "subscription"} => owner'[CustomerRow] = p
  <2>1. Event(p).type \in {"paid", "subscription"} => Event(p).customer
    BY <1>1, RefFacts, WebhookFacts DEF StripeEvents
  <2>2. QED
    BY <1>3, <1>4, <2>1, RefFacts, WriteFacts
<1>6. pc'[p] = next
  BY <1>4, RefFacts
<1>7. ASSUME NEW c \in Checkouts
      PROVE  /\ owner'[SubRow(c)] = owner[SubRow(c)] /\ new'[SubRow(c)] = new[SubRow(c)]
             /\ owner'[SessionRow(c)] = owner[SessionRow(c)]
             /\ new'[SessionRow(c)] = new[SessionRow(c)]
  BY <1>3, <1>5 DEF RestStays
<1>8. FlowOK(p)' /\ FoundOK(p)'
  BY <1>1, <1>2, <1>4, <1>6 DEF FlowOK, FoundOK, Activates, Reports, Event
<1>9. CASE Reports(p)
  <2>1. Unwritten(p)
    BY <1>1, <1>9, RefFacts, NothingPending DEF Early
  <2>2. ReportOK(p)'
    BY <1>2, <1>4, <1>6, <1>9, <1>12 DEF ReportOK, Reports, Event, AfterCancel, AfterUpsert
  <2>3. PendingOK(p)'
    BY <1>7, <1>8, <2>1, <2>2 DEF PendingOK, Unwritten
  <2>4. QED
    BY <1>2, <1>4, <1>5, <2>3, GoesOn
<1>10. CASE ~ Reports(p)
  <2>1. next = "commit"
    BY <1>1, <1>2, <1>10 DEF Reports
  <2>2. ASSUME NEW c \in Checkouts, owner'[SubRow(c)] = p
        PROVE  SubPending(p, c)'
    <3>1. SubPending(p, c)
      BY <1>7, <2>2, RefFacts DEF PendingOK
    <3>2. PaidPending(p, c)
      BY <1>1, <1>10, <3>1 DEF SubPending, FailedPending, ReportPending, CancelPending,
         Activates, AfterCancel
    <3>3. PaidPending(p, c)'
      BY <1>4, <1>5, <1>6, <1>7, <1>12, <2>1, <3>2 DEF PaidPending, Event
    <3>4. QED
      BY <3>3 DEF SubPending
  <2>3. ASSUME NEW c \in Checkouts, owner'[SessionRow(c)] = p
        PROVE  SessionPending(p, c)'
    <3>1. SessionPending(p, c)
      BY <1>7, <2>3, RefFacts DEF PendingOK
    <3>2. QED
      BY <1>4, <1>6, <1>7, <1>10, <2>1, <3>1 DEF SessionPending, Reports, Event
  <2>4. ReportOK(p)'
    BY <1>4, <1>10 DEF ReportOK, Reports, Event
  <2>5. PendingOK(p)'
    BY <1>8, <2>2, <2>3, <2>4 DEF PendingOK
  <2>6. QED
    BY <1>4, <1>5, <2>1, <2>5, GoesOn
<1>11. QED
  BY <1>9, <1>10

-----------------------------------------------------------------------------
\* cancelActiveSubscriptions finds exactly the subscriptions that are active.
LEMMA FindsActive ==
  ASSUME RefInv, NEW p \in Procs, NEW c \in Checkouts, owner[SubRow(c)] # p
  PROVE  c \in ActiveSubs(p) <=> IsActive(SubRow(c))
<1>1. Sees(p, SubRow(c)) = db[SubRow(c)]
  BY DEF Sees
<1>2. c \in ActiveSubs(p) => IsActive(SubRow(c))
  BY <1>1, ActiveRow DEF ActiveSubs, Exists
<1>3. IsActive(SubRow(c)) => c \in ActiveSubs(p)
  <2>1. [status |-> "ACTIVE"] # NoRow
    BY KeyTables, NoRowInTables DEF SubStatuses
  <2>2. QED
    BY <1>1, <2>1 DEF ActiveSubs, Exists, IsActive
<1>4. QED
  BY <1>2, <1>3

LEMMA FindRefines ==
  ASSUME RefInv, IInv', NEW p \in Procs, CancelOthers(p) \/ CancelSubscriptions(p)
  PROVE  RefInv'
<1>1. PICK next \in {"takeOthers", "takeAll"} :
        /\ FindActive(p, next)
        /\ next = "takeOthers" => pc[p] = "cancelOthers" /\ Activates(p)
        /\ next = "takeAll" => pc[p] = "cancelAll" /\ frame[p].op = "cancel"
  BY RefFacts DEF CancelOthers, CancelSubscriptions, FlowOK
<1>2. Unwritten(p)
  BY <1>1, RefFacts, NothingPending DEF Early
<1>3. /\ pc' = [pc EXCEPT ![p] = next] /\ frame' = [frame EXCEPT ![p].found = ActiveSubs(p)]
      /\ stripe' = stripe /\ UNCHANGED rowVars
  BY <1>1 DEF FindActive, Goto, stripeVars
<1>4. LocksStay(p) /\ db' = db /\ owner' = owner
  BY <1>3, ReadFacts DEF rowVars
<1>5. /\ pc'[p] = next /\ frame'[p].op = frame[p].op /\ frame'[p].checkout = frame[p].checkout
      /\ frame'[p].event = frame[p].event /\ frame'[p].found = ActiveSubs(p)
  BY <1>3, RefFacts DEF Frames
<1>6. \A c \in Checkouts : IsActive(SubRow(c)) => c \in ActiveSubs(p)
  BY <1>2, FindsActive DEF Unwritten
<1>7. FlowOK(p)' /\ FoundOK(p)'
  BY <1>1, <1>5 DEF FlowOK, FoundOK, Activates, Reports, Event
<1>8. ReportOK(p)'
  <2>1. Reports(p) => owner[CustomerRow] = p
    BY <1>1, RefFacts DEF ReportOK, Reports
  <2>2. QED
    BY <1>1, <1>4, <1>5, <1>6, <2>1 DEF ReportOK, Reports, Event, IsActive, AfterUpsert
<1>9. PendingOK(p)'
  BY <1>2, <1>4, <1>7, <1>8 DEF PendingOK, Unwritten
<1>10. QED
  BY <1>3, <1>4, <1>9, SearchGoesOn

\* One row of that UPDATE: it is cancelled if it is active still.
LEMMA TakeRefines ==
  ASSUME RefInv, IInv', NEW p \in Procs, TakeActive(p), pc[p] \in {"takeOthers", "takeAll"}
  PROVE  RefInv'
<1>1. PICK c \in frame[p].found :
        /\ \/ c \in ActiveSubs(p) /\ WriteRow(p, SubRow(c), [status |-> "CANCELLED"])
           \/ c \notin ActiveSubs(p) /\ UNCHANGED rowVars
        /\ frame' = [frame EXCEPT ![p].found = frame[p].found \ {c}]
        /\ UNCHANGED <<pc, stripeVars, acked, crashes>>
  BY DEF TakeActive
<1>2. c \in Checkouts /\ frame[p] \in Frames
  <2>1. frame[p] \in Frames
    BY RefFacts
  <2>2. QED
    BY <2>1 DEF Frames
<1>3. SubRow(c) \in Keys
  BY <1>2, KeyTables
<1>4. /\ pc' = [pc EXCEPT ![p] = pc[p]] /\ pc' = pc /\ stripe' = stripe
      /\ frame' = [frame EXCEPT ![p].found = frame[p].found \ {c}]
  BY <1>1, RefFacts DEF stripeVars
<1>5. /\ frame'[p].op = frame[p].op /\ frame'[p].checkout = frame[p].checkout
      /\ frame'[p].event = frame[p].event /\ frame'[p].found = frame[p].found \ {c}
  BY <1>2, <1>4, RefFacts DEF Frames
<1>6. LocksStay(p) /\ RestStays(SubRow(c)) /\ db' = db
  BY <1>1, <1>3, RefFacts, WriteFacts, ReadFacts DEF rowVars
<1>7. \A d \in Checkouts \ {c} :
        owner'[SubRow(d)] = owner[SubRow(d)] /\ new'[SubRow(d)] = new[SubRow(d)]
  BY <1>2, <1>6, KeyTables, KeysDiffer DEF RestStays
<1>8. /\ owner'[CustomerRow] = owner[CustomerRow]
      /\ \A d \in Checkouts : owner'[SessionRow(d)] = owner[SessionRow(d)]
  BY <1>2, <1>6, KeyTables, KeysDiffer DEF RestStays
<1>9. \/ Activates(p) /\ pc[p] = "takeOthers"
      \/ frame[p].op = "cancel" /\ pc[p] = "takeAll"
  BY RefFacts DEF FlowOK
\* A row of p's own it has cancelled already, and passes over.
<1>10. ASSUME NEW d \in Checkouts, owner[SubRow(d)] = p
       PROVE  CancelPending(p, d)
  <2>1. SubPending(p, d)
    BY <1>10, RefFacts DEF PendingOK
  <2>2. QED
    BY <1>9, <2>1 DEF SubPending, PaidPending, FailedPending, ReportPending, AfterUpsert
<1>11. owner[SubRow(c)] = p => c \notin ActiveSubs(p)
  BY <1>2, <1>10 DEF CancelPending, ActiveSubs, Sees
<1>12. IsActive(SubRow(c)) => owner'[SubRow(c)] = p
  <2>1. CASE c \in ActiveSubs(p)
    BY <1>1, <1>3, <2>1, RefFacts, WriteFacts
  <2>2. CASE c \notin ActiveSubs(p)
    BY <1>1, <1>2, <2>2, FindsActive DEF rowVars
  <2>3. QED
    BY <2>1, <2>2
<1>13. ASSUME NEW d \in Checkouts, owner'[SubRow(d)] = p
       PROVE  CancelPending(p, d)'
  <2>1. CASE c \in ActiveSubs(p) /\ d = c
    <3>1. IsActive(SubRow(c))
      BY <1>2, <1>11, <2>1, FindsActive
    <3>2. new'[SubRow(c)] = [status |-> "CANCELLED"]
      BY <1>1, <1>3, <2>1, RefFacts, WriteFacts
    <3>3. QED
      BY <1>4, <1>5, <1>6, <1>9, <2>1, <3>1, <3>2
         DEF CancelPending, Activates, Reports, Event, IsActive, AfterCancel, AfterUpsert
  <2>2. CASE ~ (c \in ActiveSubs(p) /\ d = c)
    <3>1. owner'[SubRow(d)] = owner[SubRow(d)] /\ new'[SubRow(d)] = new[SubRow(d)]
      BY <1>1, <1>7, <2>2 DEF rowVars
    <3>2. CancelPending(p, d)
      BY <1>10, <1>13, <3>1
    <3>3. QED
      BY <1>4, <1>5, <1>6, <3>1, <3>2 DEF CancelPending, Activates, Reports, Event, IsActive
  <2>3. QED
    BY <2>1, <2>2
<1>14. \A d \in Checkouts : owner'[SessionRow(d)] # p
  BY <1>8, <1>9, RefFacts DEF PendingOK, SessionPending, Activates, Reports
<1>15. FlowOK(p)' /\ FoundOK(p)'
  BY <1>4, <1>5, <1>9 DEF FlowOK, FoundOK, Activates, Reports, Event
<1>16. ReportOK(p)'
  <2>1. SUFFICES ASSUME Reports(p) PROVE ReportOK(p)'
    BY <1>5 DEF ReportOK, Reports, Event
  <2>2. pc[p] = "takeOthers" /\ Activates(p) /\ ReportOK(p)
    BY <1>9, <2>1, RefFacts DEF Reports
  <2>3. ASSUME NEW d \in Checkouts \ {frame[p].checkout}, IsActive(SubRow(d))'
        PROVE  owner'[SubRow(d)] = p \/ d \in frame'[p].found
    <3>1. IsActive(SubRow(d))
      BY <1>6, <2>3 DEF IsActive
    <3>2. owner[SubRow(d)] = p \/ d \in frame[p].found
      BY <2>1, <2>2, <3>1 DEF ReportOK, Activates, AfterCancel
    <3>3. QED
      BY <1>5, <1>7, <1>12, <3>1, <3>2
  <2>4. owner'[CustomerRow] = p
    BY <1>8, <2>1, <2>2 DEF ReportOK, AfterCancel
  <2>5. QED
    BY <1>4, <1>5, <2>2, <2>3, <2>4 DEF ReportOK, Activates, Reports, Event, AfterUpsert
<1>17. PendingOK(p)'
  BY <1>13, <1>14, <1>15, <1>16 DEF PendingOK, SubPending
<1>18. QED
  BY <1>4, <1>6, <1>17, SearchGoesOn

\* The end of the UPDATE of a request of the user.
LEMMA TakesRefine ==
  ASSUME RefInv, IInv', NEW p \in Procs, TakeOthers(p) \/ TakeAll(p)
  PROVE  RefInv'
<1>1. pc[p] \in {"takeOthers", "takeAll"}
  BY DEF TakeOthers, TakeAll
<1>2. CASE TakeActive(p)
  BY <1>1, <1>2, TakeRefines
<1>3. ASSUME NEW next, Proceed(p, next), frame[p].found = {},
             \/ pc[p] = "takeOthers" /\ next = "subRead"
             \/ pc[p] = "takeAll" /\ next = "commit"
      PROVE  RefInv'
  <2>1. /\ pc' = [pc EXCEPT ![p] = next] /\ frame' = frame /\ stripe' = stripe /\ pc'[p] = next
        /\ db' = db /\ owner' = owner /\ new' = new /\ LocksStay(p)
    BY <1>3, RefFacts, ReadFacts DEF Proceed, Goto, stripeVars, rowVars
  <2>2. \/ Activates(p) /\ pc[p] = "takeOthers" /\ next = "subRead"
        \/ frame[p].op = "cancel" /\ pc[p] = "takeAll" /\ next = "commit"
    BY <1>3, RefFacts DEF FlowOK
  <2>3. ASSUME NEW c \in Checkouts, owner'[SubRow(c)] = p
        PROVE  SubPending(p, c)'
    <3>1. SubPending(p, c)
      BY <2>1, <2>3, RefFacts DEF PendingOK
    <3>2. CancelPending(p, c)
      BY <2>2, <3>1 DEF SubPending, PaidPending, FailedPending, ReportPending, AfterUpsert
    <3>3. CancelPending(p, c)'
      BY <2>1, <2>2, <3>2 DEF CancelPending, Activates, Reports, Event, IsActive, AfterCancel, AfterUpsert
    <3>4. QED
      BY <3>3 DEF SubPending
  <2>4. \A c \in Checkouts : owner'[SessionRow(c)] # p
    BY <2>1, <2>2, RefFacts DEF PendingOK, SessionPending, Activates, Reports
  <2>5. ReportOK(p)'
    BY <1>3, <2>1, <2>2, RefFacts DEF ReportOK, Activates, Reports, Event, IsActive, AfterCancel, AfterUpsert
  <2>6. FlowOK(p)' /\ FoundOK(p)'
    BY <2>1, <2>2 DEF FlowOK, FoundOK
  <2>7. PendingOK(p)'
    BY <2>3, <2>4, <2>5, <2>6 DEF PendingOK
  <2>8. QED
    BY <2>1, <2>2, <2>7, GoesOn
<1>4. QED
  BY <1>2, <1>3 DEF TakeOthers, TakeAll

\* A subscription event that has come to the subscriptions, and its next read.
LEMMA ReportReads ==
  ASSUME RefInv, IInv', NEW p \in Procs, NEW next, Proceed(p, next), Reports(p),
         \/ pc[p] = "subRead" /\ next \in {"subUpdate", "subInsert"}
         \/ /\ pc[p] = "sessionRead" /\ next = "sessionWrite"
            /\ stripe[frame[p].checkout] = "offered"
  PROVE  RefInv'
<1>1. /\ pc' = [pc EXCEPT ![p] = next] /\ frame' = frame /\ stripe' = stripe /\ pc'[p] = next
      /\ db' = db /\ owner' = owner /\ new' = new /\ LocksStay(p)
  BY RefFacts, ReadFacts DEF Proceed, Goto, stripeVars, rowVars
<1>2. ASSUME NEW c \in Checkouts, owner'[SubRow(c)] = p
      PROVE  SubPending(p, c)'
  <2>1. SubPending(p, c)
    BY <1>1, <1>2, RefFacts DEF PendingOK
  <2>2. CancelPending(p, c) \/ ReportPending(p, c)
    BY <2>1 DEF SubPending, PaidPending, FailedPending
  <2>3. CASE ReportPending(p, c)
    BY <1>1, <2>3 DEF SubPending, ReportPending, Reports, Event, AfterUpsert
  <2>4. CASE CancelPending(p, c)
    BY <1>1, <2>4 DEF SubPending, CancelPending, Activates, Reports, Event, IsActive,
       AfterCancel, AfterUpsert
  <2>5. QED
    BY <2>2, <2>3, <2>4
<1>3. ASSUME NEW c \in Checkouts PROVE owner'[SessionRow(c)] # p
  BY <1>1, RefFacts DEF PendingOK, SessionPending
<1>4. ReportOK(p)'
  BY <1>1, RefFacts DEF ReportOK, Reports, Event, IsActive, AfterCancel, AfterUpsert
<1>5. FlowOK(p)' /\ FoundOK(p)'
  BY <1>1 DEF FlowOK, FoundOK
<1>6. PendingOK(p)'
  BY <1>2, <1>3, <1>4, <1>5 DEF PendingOK
<1>7. QED
  BY <1>1, <1>6, GoesOn

LEMMA SubReadRefines == ASSUME RefInv, IInv', NEW p \in Procs, SubRead(p) PROVE RefInv'
<1>1. Reports(p) /\ pc[p] = "subRead"
  BY RefFacts DEF SubRead, LocalOK, HandlerPcs, Reports, Event
<1>2. QED
  BY <1>1, ReportReads DEF SubRead

\* The session of a checkout Stripe has something to say of is always found.
LEMMA ReportSessionRead ==
  ASSUME RefInv, IInv', NEW p \in Procs, SessionRead(p), Reports(p)
  PROVE  RefInv'
<1>1. PICK c \in Checkouts : c = frame[p].checkout
  BY RefFacts, WebhookFacts DEF Reports
<1>2. SessionRow(c) \in Keys
  BY KeyTables
<1>3. stripe[c] = "offered" /\ db[SessionRow(c)] \in Tables[SessionRow(c)]
  BY <1>1, RefFacts DEF CheckoutOK, Reports, IInv, Globals
<1>4. Exists(p, SessionRow(c))
  BY <1>2, <1>3, RefFacts, FoundTyped
<1>5. QED
  BY <1>1, <1>3, <1>4, ReportReads DEF SessionRead

\* The statement that writes the subscription the event is about.
LEMMA UpsertRefines ==
  ASSUME RefInv, IInv', NEW p \in Procs,
         Write(p, SubRow(frame[p].checkout), [status |-> Event(p).status], "sessionRead"),
         Reports(p), pc[p] \in {"subInsert", "subUpdate"}
  PROVE  RefInv'
<1>1. PICK c \in Checkouts : c = frame[p].checkout
  BY RefFacts, WebhookFacts DEF Reports
<1>2. /\ WriteRow(p, SubRow(c), [status |-> Event(p).status])
      /\ pc' = [pc EXCEPT ![p] = "sessionRead"] /\ frame' = frame /\ stripe' = stripe
  BY <1>1 DEF Write, Goto, stripeVars
<1>3. SubRow(c) \in Keys
  BY KeyTables
<1>4. /\ LocksStay(p) /\ RestStays(SubRow(c)) /\ db' = db
      /\ owner'[SubRow(c)] = p /\ new'[SubRow(c)] = [status |-> Event(p).status]
  BY <1>2, <1>3, RefFacts, WriteFacts
<1>5. pc'[p] = "sessionRead"
  BY <1>2, RefFacts
<1>6. ASSUME NEW d \in Checkouts \ {c}
      PROVE  owner'[SubRow(d)] = owner[SubRow(d)] /\ new'[SubRow(d)] = new[SubRow(d)]
  BY <1>4, KeyTables, KeysDiffer DEF RestStays
<1>7. ASSUME NEW d \in Checkouts, owner'[SubRow(d)] = p
      PROVE  SubPending(p, d)'
  <2>1. CASE d = c
    BY <1>1, <1>2, <1>4, <1>5, <2>1 DEF SubPending, ReportPending, Reports, Event, AfterUpsert
  <2>2. CASE d # c
    <3>1. SubPending(p, d)
      BY <1>6, <1>7, <2>2, RefFacts DEF PendingOK
    <3>2. CancelPending(p, d)
      BY <3>1 DEF SubPending, PaidPending, FailedPending, ReportPending, AfterUpsert
    <3>3. QED
      BY <1>1, <1>2, <1>4, <1>5, <1>6, <2>2, <3>2
         DEF SubPending, CancelPending, Activates, Reports, Event, IsActive, AfterCancel
  <2>3. QED
    BY <2>1, <2>2
<1>8. ASSUME NEW d \in Checkouts PROVE owner'[SessionRow(d)] # p
  <2>1. owner[SessionRow(d)] # p
    BY RefFacts DEF PendingOK, SessionPending
  <2>2. QED
    BY <1>4, <2>1, KeyTables, KeysDiffer DEF RestStays
<1>9. ReportOK(p)'
  <2>1. owner'[CustomerRow] = owner[CustomerRow]
    BY <1>4, KeyTables, KeysDiffer DEF RestStays
  <2>2. QED
    BY <1>1, <1>2, <1>4, <1>5, <1>6, <2>1, RefFacts
       DEF ReportOK, Reports, Event, IsActive, AfterCancel, AfterUpsert
<1>10. FlowOK(p)' /\ FoundOK(p)'
  BY <1>5 DEF FlowOK, FoundOK
<1>11. PendingOK(p)'
  BY <1>7, <1>8, <1>9, <1>10 DEF PendingOK
<1>12. QED
  BY <1>2, <1>4, <1>11, GoesOn

LEMMA SubUpdateRefines == ASSUME RefInv, IInv', NEW p \in Procs, SubUpdate(p) PROVE RefInv'
<1>1. Reports(p) /\ pc[p] = "subUpdate"
  BY RefFacts DEF SubUpdate, LocalOK, HandlerPcs, Reports, Event
<1>2. QED
  BY <1>1, UpsertRefines DEF SubUpdate

LEMMA ReportSessionWrite ==
  ASSUME RefInv, IInv', NEW p \in Procs, SessionWrite(p), Reports(p)
  PROVE  RefInv'
<1>1. PICK c \in Checkouts : c = frame[p].checkout
  BY RefFacts, WebhookFacts DEF Reports
<1>2. /\ pc[p] = "sessionWrite"
      /\ WriteRow(p, SessionRow(c), [status |-> NewSessionStatus(Event(p))])
      /\ pc' = [pc EXCEPT ![p] = "commit"] /\ frame' = frame /\ stripe' = stripe
  BY <1>1 DEF SessionWrite, Reports, Write, Goto, stripeVars
<1>3. SessionRow(c) \in Keys
  BY KeyTables
<1>4. /\ LocksStay(p) /\ RestStays(SessionRow(c)) /\ db' = db
      /\ owner'[SessionRow(c)] = p /\ new'[SessionRow(c)] = [status |-> NewSessionStatus(Event(p))]
  BY <1>2, <1>3, RefFacts, WriteFacts
<1>5. pc'[p] = "commit"
  BY <1>2, RefFacts
<1>6. ASSUME NEW d \in Checkouts
      PROVE  owner'[SubRow(d)] = owner[SubRow(d)] /\ new'[SubRow(d)] = new[SubRow(d)]
  BY <1>4, KeyTables, KeysDiffer DEF RestStays
<1>7. ASSUME NEW d \in Checkouts, owner'[SubRow(d)] = p
      PROVE  SubPending(p, d)'
  <2>1. SubPending(p, d)
    BY <1>6, <1>7, RefFacts DEF PendingOK
  <2>2. CancelPending(p, d) \/ ReportPending(p, d)
    BY <1>2, <2>1 DEF SubPending, PaidPending, FailedPending
  <2>3. CASE ReportPending(p, d)
    BY <1>2, <1>5, <1>6, <2>3 DEF SubPending, ReportPending, Reports, Event, AfterUpsert
  <2>4. CASE CancelPending(p, d)
    BY <1>2, <1>4, <1>5, <1>6, <2>4 DEF SubPending, CancelPending, Activates, Reports, Event,
       IsActive, AfterCancel, AfterUpsert
  <2>5. QED
    BY <2>2, <2>3, <2>4
<1>8. ASSUME NEW d \in Checkouts, owner'[SessionRow(d)] = p
      PROVE  SessionPending(p, d)'
  <2>1. owner[SessionRow(d)] # p
    BY <1>2, RefFacts DEF PendingOK, SessionPending, Reports
  <2>2. d = c
    BY <1>4, <1>8, <2>1, KeyTables, KeysDiffer DEF RestStays
  <2>3. QED
    BY <1>1, <1>2, <1>4, <1>5, <2>2, RefFacts DEF SessionPending, FoundOK, Reports, Event
<1>9. ReportOK(p)'
  <2>1. owner'[CustomerRow] = owner[CustomerRow]
    BY <1>4, KeyTables, KeysDiffer DEF RestStays
  <2>2. QED
    BY <1>1, <1>2, <1>4, <1>5, <1>6, <2>1, RefFacts
       DEF ReportOK, Reports, Event, IsActive, AfterCancel, AfterUpsert
<1>10. FlowOK(p)' /\ FoundOK(p)'
  BY <1>5 DEF FlowOK, FoundOK
<1>11. PendingOK(p)'
  BY <1>7, <1>8, <1>9, <1>10 DEF PendingOK
<1>12. QED
  BY <1>2, <1>4, <1>11, GoesOn

-----------------------------------------------------------------------------
\* A request that ends with an error or with its instance leaves no trace.
LEMMA AbortRefines ==
  ASSUME RefInv, IInv', NEW p \in Procs, RollbackRows(p), Return(p), UNCHANGED stripeVars
  PROVE  RefInv'
<1>1. LocksStay(p) /\ db' = db /\ \A k \in Keys : owner'[k] # p
  BY RefFacts, RollbackFacts
<1>2. QED
  BY <1>1, Ends, KeyTables DEF stripeVars

LEMMA SubInsertRefines == ASSUME RefInv, IInv', NEW p \in Procs, SubInsert(p) PROVE RefInv'
<1> DEFINE k == SubRow(frame[p].checkout)
<1>1. Reports(p) /\ pc[p] = "subInsert"
  BY RefFacts DEF SubInsert, LocalOK, HandlerPcs, Reports, Event
<1>2. CASE /\ InsertRow(p, k, [status |-> Event(p).status])
           /\ Goto(p, "sessionRead") /\ UNCHANGED <<frame, stripeVars, acked, crashes>>
  <2>1. Write(p, k, [status |-> Event(p).status], "sessionRead")
    BY <1>2 DEF Write, InsertRow
  <2>2. QED
    BY <1>1, <2>1, UpsertRefines
<1>3. CASE Abort(p)
  BY <1>3, AbortRefines DEF Abort
<1>4. QED
  BY <1>2, <1>3 DEF SubInsert

\* What a commit publishes of subscriptions and sessions.
LEMMA Published ==
  ASSUME RefInv, NEW p \in Procs, CommitRows(p), NEW c \in Checkouts
  PROVE  /\ db'[SubRow(c)] = IF owner[SubRow(c)] = p THEN new[SubRow(c)] ELSE db[SubRow(c)]
         /\ db'[SessionRow(c)] =
              IF owner[SessionRow(c)] = p THEN new[SessionRow(c)] ELSE db[SessionRow(c)]
         /\ db[SubRow(c)] # NoRow => db'[SubRow(c)] # NoRow
         /\ db'[SessionRow(c)] = NoRow <=> db[SessionRow(c)] = NoRow
<1>1. SubRow(c) \in Keys /\ SessionRow(c) \in Keys
  BY KeyTables
<1>2. \A k \in Keys : db'[k] = IF owner[k] = p THEN new[k] ELSE db[k]
  BY RefFacts, CommitFacts
<1>3. \A k \in {SubRow(c), SessionRow(c)} : db[k] # NoRow => db'[k] # NoRow
  BY <1>1, RefFacts, CommitKeeps, FoundTyped, NoRowInTables DEF Kept, RowsStay
<1>4. owner[SessionRow(c)] = p => db[SessionRow(c)] # NoRow
  <2>1. SUFFICES ASSUME owner[SessionRow(c)] = p PROVE db[SessionRow(c)] # NoRow
    OBVIOUS
  <2>2. frame[p].op = "webhook" /\ c = frame[p].checkout
    BY <2>1, RefFacts DEF PendingOK, SessionPending
  <2>3. db[SessionRow(c)] \in Tables[SessionRow(c)]
    BY <2>1, RefFacts DEF PendingOK, SessionPending, IInv, Globals
  <2>4. QED
    BY <1>1, <2>3, NoRowInTables
<1>5. QED
  BY <1>1, <1>2, <1>3, <1>4

\* Only who holds the customer row makes a subscription active.
LEMMA ActivatesLocked ==
  ASSUME RefInv, NEW p \in Procs, pc[p] = "commit", CommitRows(p),
         NEW c \in Checkouts, IsActive(SubRow(c))', ~ IsActive(SubRow(c))
  PROVE  owner[CustomerRow] = p
<1>1. owner[SubRow(c)] = p /\ new[SubRow(c)] = [status |-> "ACTIVE"]
  BY Published DEF IsActive
<1>2. SubPending(p, c)
  BY <1>1, RefFacts DEF PendingOK
<1>3. PaidPending(p, c) \/ ReportPending(p, c)
  BY <1>1, <1>2 DEF SubPending, FailedPending, CancelPending
<1>4. CASE PaidPending(p, c)
  BY <1>4 DEF PaidPending
<1>5. CASE ReportPending(p, c)
  BY <1>5, RefFacts DEF ReportPending, ReportOK, AfterCancel
<1>6. QED
  BY <1>3, <1>4, <1>5

LEMMA CommitRefines == ASSUME RefInv, IInv', NEW p \in Procs, Commit(p) PROVE RefInv'
<1>1. pc[p] = "commit" /\ CommitRows(p) /\ stripe' = stripe
  BY DEF Commit, stripeVars
<1>2. LocksStay(p) /\ \A k \in Keys : owner'[k] # p
  BY <1>1, RefFacts, CommitFacts
<1>3. PICK next \in {"answer", "idle"} :
        /\ pc' = [pc EXCEPT ![p] = next]
        /\ \/ next = "answer" /\ frame' = frame
           \/ next = "idle" /\ frame' = [frame EXCEPT ![p] = NoFrame]
  BY DEF Commit, Return, Goto
<1>4. Others(p) /\ pc'[p] = next
  BY <1>3, RefFacts DEF Others
<1>5. \A c \in Checkouts :
        /\ db[SubRow(c)] # NoRow => db'[SubRow(c)] # NoRow
        /\ db'[SessionRow(c)] = NoRow <=> db[SessionRow(c)] = NoRow
  BY <1>1, Published
<1>6. CheckoutOK(p)'
  <2>1. CASE next = "answer"
    BY <1>1, <1>3, <1>4, <2>1, RefFacts DEF CheckoutOK, Opening, Event
  <2>2. CASE next = "idle"
    <3>1. frame'[p] = NoFrame
      BY <1>3, <2>2, RefFacts
    <3>2. QED
      BY <1>4, <2>2, <3>1 DEF CheckoutOK, Opening, NoFrame
  <2>3. QED
    BY <2>1, <2>2
<1>7. CheckoutsOK'
  BY <1>1, <1>4, <1>5, <1>6, CheckoutsStay DEF Opening
<1>8. PendingOK(p)'
  <2>1. FlowOK(p)' /\ FoundOK(p)' /\ ReportOK(p)'
    BY <1>4 DEF FlowOK, FoundOK, ReportOK, AfterCancel, AfterUpsert
  <2>2. QED
    BY <1>2, <2>1, KeyTables DEF PendingOK
<1>9. ASSUME NEW q \in Procs \ {p} PROVE PendingOK(q)'
  <2>1. ASSUME Activates(q), pc[q] \in AfterCancel, NEW c \in Checkouts, IsActive(SubRow(c))'
        PROVE  IsActive(SubRow(c))
    <3>1. owner[CustomerRow] = q
      BY <2>1, RefFacts DEF ReportOK, Activates
    <3>2. QED
      BY <1>1, <2>1, <3>1, ActivatesLocked
  <2>2. QED
    BY <1>1, <1>2, <1>4, <1>5, <2>1, RefFacts, OthersPending
<1>10. QED
  BY <1>7, <1>8, <1>9 DEF RefInv

-----------------------------------------------------------------------------
\* The user's own requests.

LEMMA NewCustomerRefines == ASSUME RefInv, IInv', NEW p \in Procs, NewCustomer(p) PROVE RefInv'
<1>1. pc[p] = "newCustomer" /\ Unwritten(p)
  BY RefFacts, NothingPending DEF NewCustomer, Early
<1>2. PICK v : AutocommitRow(CustomerRow, v)
  BY DEF NewCustomer
<1>3. LocksStay(p) /\ RestStays(CustomerRow)
  BY <1>2, RefFacts, AutocommitFacts, KeyTables
<1>4. \A c \in Checkouts :
        /\ db'[SubRow(c)] = db[SubRow(c)] /\ db'[SessionRow(c)] = db[SessionRow(c)]
        /\ owner'[SubRow(c)] # p /\ owner'[SessionRow(c)] # p
  BY <1>1, <1>3, KeyTables, KeysDiffer DEF RestStays, Unwritten
<1>5. pc' = [pc EXCEPT ![p] = "newSession"] /\ frame' = frame /\ stripe' = stripe
  BY DEF NewCustomer, Goto, stripeVars
<1>6. pc'[p] = "newSession"
  BY <1>5, RefFacts
<1>7. FlowOK(p)' /\ FoundOK(p)' /\ Opening(p)
  BY <1>1, <1>6 DEF FlowOK, FoundOK, Opening
<1>8. QED
  BY <1>3, <1>4, <1>5, <1>7, UnwrittenGoesOn DEF AfterCancel

\* The row of a session that is being opened is not there yet.
LEMMA SessionOpens ==
  ASSUME RefInv, NEW p \in Procs, NewSession(p)
  PROVE  \E c \in Checkouts :
           /\ c = frame[p].checkout /\ stripe[c] = "created" /\ db[SessionRow(c)] = NoRow
           /\ stripe' = [stripe EXCEPT ![c] = "offered"]
           /\ LocksStay(p) /\ RestStays(SessionRow(c))
           /\ db'[SessionRow(c)] = [status |-> "OPEN"] /\ owner'[SessionRow(c)] = NoProc
<1>1. PICK c \in Checkouts : c = frame[p].checkout
  BY RefFacts DEF NewSession, LocalOK
<1>2. stripe[c] = "created"
  BY <1>1, RefFacts DEF NewSession, CheckoutOK, Opening
<1>3. db[SessionRow(c)] = NoRow
  BY <1>2 DEF RefInv, CheckoutsOK
<1>4. SessionRow(c) \in Keys
  BY KeyTables
<1>5. AutocommitRow(SessionRow(c), [status |-> "OPEN"]) /\ stripe' = [stripe EXCEPT ![c] = "offered"]
  BY <1>1 DEF NewSession
<1>6. /\ LocksStay(p) /\ RestStays(SessionRow(c))
      /\ db'[SessionRow(c)] = [status |-> "OPEN"] /\ owner'[SessionRow(c)] = NoProc
  BY <1>4, <1>5, RefFacts, AutocommitFacts
<1>7. QED
  BY <1>1, <1>2, <1>3, <1>5, <1>6

LEMMA NewSessionRefines == ASSUME RefInv, IInv', NEW p \in Procs, NewSession(p) PROVE RefInv'
<1>1. pc[p] = "newSession" /\ Unwritten(p) /\ Opening(p)
  BY RefFacts, NothingPending DEF NewSession, Early, Opening
<1>2. PICK c \in Checkouts :
           /\ c = frame[p].checkout /\ stripe[c] = "created"
           /\ stripe' = [stripe EXCEPT ![c] = "offered"]
           /\ LocksStay(p) /\ RestStays(SessionRow(c))
           /\ db'[SessionRow(c)] = [status |-> "OPEN"] /\ owner'[SessionRow(c)] = NoProc
  BY SessionOpens
<1>3. Others(p) /\ pc'[p] = "idle" /\ frame'[p] = NoFrame
  BY RefFacts DEF NewSession, Return, Goto, Others
<1>4. SessionRow(c) \in Keys /\ [status |-> "OPEN"] # NoRow
  BY KeyTables, NoRowInTables DEF SessionStatuses
<1>5. /\ stripe'[c] = "offered" /\ \A d \in Checkouts \ {c} : stripe'[d] = stripe[d]
      /\ \A d \in Checkouts : db'[SubRow(d)] = db[SubRow(d)]
      /\ \A d \in Checkouts \ {c} : db'[SessionRow(d)] = db[SessionRow(d)]
  BY <1>2, KeyTables, KeysDiffer, RefFacts, LocalFacts DEF RestStays
<1>6. NoProc # p
  BY BillingAssumption
<1>7. \A d \in Checkouts : owner'[SubRow(d)] # p /\ owner'[SessionRow(d)] # p
  BY <1>1, <1>2, <1>6, KeyTables, KeysDiffer DEF RestStays, Unwritten
<1>8. PendingOK(p)'
  BY <1>3, <1>7, EndsClean
<1>9. \A q \in Procs \ {p} : PendingOK(q)'
  BY <1>2, <1>3, <1>5, QuietOthers
<1>10. ~ Opening(p)' /\ CheckoutOK(p)'
  BY <1>3 DEF Opening, CheckoutOK, NoFrame
<1>11. ASSUME NEW q \in Procs \ {p} PROVE CheckoutOK(q)'
  <2>1. CheckoutOK(q) /\ pc'[q] = pc[q] /\ frame'[q] = frame[q] /\ LocalOK(pc[q], frame[q])
    BY <1>3, RefFacts DEF Others
  <2>2. frame[q].op = "webhook" => frame[q].checkout \in Checkouts
    BY RefFacts, WebhookFacts
  <2>3. Opening(q) => frame[q].checkout \in Checkouts \ {c}
    BY <1>1, <1>2, <2>1 DEF RefInv, CheckoutsOK, Opening, LocalOK
  <2>4. pc[q] = "viewExpire" => frame[q].checkout \in Checkouts
    BY <2>1 DEF LocalOK
  <2>5. QED
    BY <1>2, <1>4, <1>5, <2>1, <2>2, <2>3, <2>4 DEF CheckoutOK, Opening, Event
<1>12. \A q, r \in Procs :
         Opening(q)' /\ Opening(r)' /\ frame'[q].checkout = frame'[r].checkout => q = r
  BY <1>3, <1>10 DEF RefInv, CheckoutsOK, Opening, Others
<1>13. \A d \in Checkouts : stripe'[d] # "offered" => db'[SessionRow(d)] = NoRow
  BY <1>5 DEF RefInv, CheckoutsOK
<1>14. QED
  BY <1>8, <1>9, <1>10, <1>11, <1>12, <1>13 DEF RefInv, CheckoutsOK

LEMMA ViewReadRefines == ASSUME RefInv, IInv', NEW p \in Procs, ViewRead(p) PROVE RefInv'
<1>1. pc[p] = "viewRead" /\ Unwritten(p)
  BY RefFacts, NothingPending DEF ViewRead, Early
<1>2. CASE db[SessionRow(frame[p].checkout)] # NoRow /\ Proceed(p, "viewExpire")
  <2>1. FlowOK(p)' /\ FoundOK(p)'
    BY <1>2, RefFacts DEF FlowOK, FoundOK, Proceed, Goto
  <2>2. QED
    BY <1>1, <1>2, <2>1, UnwrittenProceeds DEF AfterCancel
<1>3. CASE Return(p) /\ UNCHANGED <<rowVars, stripeVars, acked, crashes>>
  BY <1>1, <1>3, UnwrittenReturns DEF stripeVars
<1>4. QED
  BY <1>2, <1>3 DEF ViewRead

\* A view marks a session that is still open, and nothing else.
LEMMA ViewMarks ==
  ASSUME RefInv, NEW p \in Procs, ViewExpire(p)
  PROVE  \E c \in Checkouts :
           /\ LocksStay(p) /\ RestStays(SessionRow(c)) /\ owner'[SessionRow(c)] = NoProc
           /\ db[SessionRow(c)] # NoRow
           /\ \/ /\ db[SessionRow(c)].status = "OPEN"
                 /\ db'[SessionRow(c)] = [status |-> "EXPIRED"]
              \/ db'[SessionRow(c)] = db[SessionRow(c)]
<1>1. PICK c \in Checkouts : c = frame[p].checkout
  BY RefFacts DEF ViewExpire, LocalOK
<1>2. SessionRow(c) \in Keys
  BY KeyTables
<1>3. PICK v : /\ AutocommitRow(SessionRow(c), v)
               /\ \/ db[SessionRow(c)].status = "OPEN" /\ v = [status |-> "EXPIRED"]
                  \/ v = db[SessionRow(c)]
  BY <1>1 DEF ViewExpire
<1>4. db[SessionRow(c)] # NoRow
  BY <1>1, RefFacts DEF CheckoutOK, ViewExpire
<1>5. QED
  BY <1>2, <1>3, <1>4, RefFacts, AutocommitFacts

LEMMA ViewExpireRefines == ASSUME RefInv, IInv', NEW p \in Procs, ViewExpire(p) PROVE RefInv'
<1>1. Unwritten(p)
  BY RefFacts, NothingPending DEF ViewExpire, Early
<1>2. PICK c \in Checkouts :
           /\ LocksStay(p) /\ RestStays(SessionRow(c)) /\ owner'[SessionRow(c)] = NoProc
           /\ db[SessionRow(c)] # NoRow
           /\ \/ db'[SessionRow(c)] = [status |-> "EXPIRED"]
              \/ db'[SessionRow(c)] = db[SessionRow(c)]
  BY ViewMarks
<1>3. SessionRow(c) \in Keys /\ [status |-> "EXPIRED"] # NoRow /\ NoProc # p
  BY KeyTables, NoRowInTables, BillingAssumption DEF SessionStatuses
<1>4. \A d \in Checkouts :
        /\ db'[SubRow(d)] = db[SubRow(d)]
        /\ db'[SessionRow(d)] = NoRow <=> db[SessionRow(d)] = NoRow
        /\ owner'[SubRow(d)] # p /\ owner'[SessionRow(d)] # p
  BY <1>1, <1>2, <1>3, KeyTables, KeysDiffer DEF RestStays, Unwritten
<1>5. Return(p) /\ stripe' = stripe
  BY DEF ViewExpire, stripeVars
<1>6. QED
  BY <1>2, <1>4, <1>5, Ends

LEMMA CancelReadRefines == ASSUME RefInv, IInv', NEW p \in Procs, CancelRead(p) PROVE RefInv'
<1>1. pc[p] = "cancelRead" /\ Unwritten(p) /\ frame[p].op = "cancel"
  BY RefFacts, NothingPending DEF CancelRead, Early, FlowOK
<1>2. CASE Proceed(p, "cancelAll")
  <2>1. FlowOK(p)' /\ FoundOK(p)'
    BY <1>1, <1>2, RefFacts DEF FlowOK, FoundOK, Proceed, Goto
  <2>2. QED
    BY <1>1, <1>2, <2>1, UnwrittenProceeds DEF Reports
<1>3. CASE Return(p) /\ UNCHANGED <<rowVars, stripeVars, acked, crashes>>
  BY <1>1, <1>3, UnwrittenReturns DEF stripeVars
<1>4. QED
  BY <1>2, <1>3 DEF CancelRead

\* A request that begins.
LEMMA Begins ==
  ASSUME RefInv, IInv', NEW p \in Procs, NEW f, NEW first, pc[p] = "idle",
         pc' = [pc EXCEPT ![p] = first], frame' = [frame EXCEPT ![p] = f], UNCHANGED rowVars,
         \/ /\ first = "seen" /\ f.op = "webhook"
            /\ f.event.type = "expired" \/ stripe[f.checkout] = "offered"
         \/ first \in {"viewRead", "cancelRead", "newCustomer"} /\ f.op # "webhook",
         first = "cancelRead" => f.op = "cancel",
         \/ first # "newCustomer" /\ stripe' = stripe
         \/ /\ first = "newCustomer" /\ f.checkout \in Checkouts
            /\ stripe[f.checkout] = "none" /\ stripe' = [stripe EXCEPT ![f.checkout] = "created"]
  PROVE  RefInv'
<1>1. Others(p) /\ pc'[p] = first /\ frame'[p] = f
  BY RefFacts DEF Others
<1>2. db' = db /\ owner' = owner /\ LocksStay(p)
  BY ReadFacts DEF rowVars
<1>3. Unwritten(p)
  BY RefFacts, NothingPending DEF Early
<1>4. PendingOK(p)'
  <2>1. FlowOK(p)' /\ FoundOK(p)' /\ ReportOK(p)'
    BY <1>1 DEF FlowOK, FoundOK, ReportOK, AfterCancel, AfterUpsert
  <2>2. QED
    BY <1>2, <1>3, <2>1 DEF PendingOK, Unwritten
<1>5. \A c \in Checkouts : stripe[c] # "none" => stripe'[c] = stripe[c]
  BY RefFacts, LocalFacts
<1>6. \A q \in Procs \ {p} : PendingOK(q)'
  <2>1. \A c \in Checkouts : stripe[c] = "offered" => stripe'[c] = "offered"
    BY <1>5
  <2>2. QED
    BY <1>1, <1>2, <2>1, QuietOthers
<1>7. ASSUME NEW q \in Procs \ {p} PROVE CheckoutOK(q)'
  <2>1. CheckoutOK(q) /\ pc'[q] = pc[q] /\ frame'[q] = frame[q] /\ LocalOK(pc[q], frame[q])
    BY <1>1, RefFacts DEF Others
  <2>2. frame[q].op = "webhook" => frame[q].checkout \in Checkouts
    BY RefFacts, WebhookFacts
  <2>3. QED
    BY <1>2, <1>5, <2>1, <2>2 DEF CheckoutOK, Opening, LocalOK, Event
<1>8. CheckoutOK(p)'
  BY <1>1, RefFacts, LocalFacts DEF CheckoutOK, Opening, Event
<1>9. \A q, r \in Procs :
        Opening(q)' /\ Opening(r)' /\ frame'[q].checkout = frame'[r].checkout => q = r
  <2>1. ASSUME NEW q \in Procs \ {p}, Opening(q)', Opening(p)'
        PROVE  frame'[q].checkout # frame'[p].checkout
    <3>1. stripe[f.checkout] = "none" /\ Opening(q) /\ frame'[q] = frame[q]
      BY <1>1, <2>1 DEF Opening, Others
    <3>2. QED
      BY <1>1, <3>1, RefFacts DEF CheckoutOK
  <2>2. ASSUME NEW q \in Procs \ {p}, NEW r \in Procs \ {p}, Opening(q)', Opening(r)',
               frame'[q].checkout = frame'[r].checkout
        PROVE  q = r
    BY <1>1, <2>2 DEF RefInv, CheckoutsOK, Opening, Others
  <2>3. QED
    BY <2>1, <2>2
<1>10. \A c \in Checkouts : stripe'[c] # "offered" => db'[SessionRow(c)] = NoRow
  BY <1>2, <1>5, RefFacts, LocalFacts DEF RefInv, CheckoutsOK
<1>11. QED
  BY <1>4, <1>6, <1>7, <1>8, <1>9, <1>10 DEF RefInv, CheckoutsOK

LEMMA CallRefines ==
  ASSUME RefInv, IInv', NEW p \in Procs,
         \/ Deliver(p) \/ Cancel(p)
         \/ \E c \in Checkouts : OpenCheckout(p, c) \/ View(p, c)
  PROVE  RefInv'
<1>1. CASE Deliver(p)
  <2>1. PICK e \in sent :
          /\ e.type = "expired" \/ stripe[e.checkout] = "offered"
          /\ Call(p, [NoFrame EXCEPT !.op = "webhook", !.checkout = e.checkout, !.event = e], "seen")
    BY <1>1 DEF Deliver, Happened
  <2>2. QED
    BY <2>1, Begins DEF Call, Goto, stripeVars, NoFrame
<1>2. CASE Cancel(p)
  BY <1>2, Begins DEF Cancel, Call, Goto, stripeVars, NoFrame
<1>3. ASSUME NEW c \in Checkouts, View(p, c) PROVE RefInv'
  BY <1>3, Begins DEF View, Call, Goto, stripeVars, NoFrame
<1>4. ASSUME NEW c \in Checkouts, OpenCheckout(p, c) PROVE RefInv'
  BY <1>4, Begins DEF OpenCheckout, Goto, NoFrame
<1>5. QED
  BY <1>1, <1>2, <1>3, <1>4

LEMMA StandsRefines == ASSUME RefInv, IInv', UNCHANGED vars PROVE RefInv'
<1>1. /\ db' = db /\ new' = new /\ owner' = owner /\ pc' = pc /\ frame' = frame /\ stripe' = stripe
  BY DEF vars, rowVars, localVars, stripeVars
<1>2. CheckoutsOK'
  BY <1>1 DEF RefInv, CheckoutsOK, CheckoutOK, Opening, Event
<1>3. ASSUME NEW p \in Procs PROVE PendingOK(p)'
  BY <1>1 DEF RefInv, PendingOK, FlowOK, FoundOK, SubPending, PaidPending, FailedPending,
     ReportPending, CancelPending, SessionPending, ReportOK, Activates, Reports, Event, IsActive
<1>4. QED
  BY <1>2, <1>3 DEF RefInv

LEMMA StepRefInv == ASSUME RefInv, IInv', NEW p \in Procs, Step(p) PROVE RefInv'
<1>1. CASE DeadlockVictim(p)
  BY <1>1, AbortRefines DEF DeadlockVictim, Abort
<1>2. CASE SessionRead(p) \/ SessionWrite(p)
  BY <1>2, EarlyReadsRefine, ReportSessionRead, SessionWriteRefines, ReportSessionWrite
<1>3. CASE Seen(p) \/ Record(p) \/ Customer(p) \/ PaidRead(p) \/ PaidWrite(p) \/ FailedRead(p)
           \/ FailedWrite(p) \/ CancelOthers(p) \/ TakeOthers(p) \/ SubRead(p) \/ SubInsert(p) \/ SubUpdate(p)
  BY <1>3, SeenRefines, RecordRefines, CustomerRefines, EarlyReadsRefine, PaidWriteRefines,
     FailedWriteRefines, FindRefines, TakesRefine, SubReadRefines, SubInsertRefines, SubUpdateRefines
<1>4. CASE Commit(p) \/ Answer(p) \/ NewCustomer(p) \/ NewSession(p) \/ ViewRead(p)
           \/ ViewExpire(p) \/ CancelRead(p) \/ CancelSubscriptions(p) \/ TakeAll(p)
  BY <1>4, CommitRefines, AnswerRefines, NewCustomerRefines, NewSessionRefines, ViewReadRefines,
     ViewExpireRefines, CancelReadRefines, FindRefines, TakesRefine
<1>5. QED
  BY <1>1, <1>2, <1>3, <1>4 DEF Step

LEMMA RefInvStep == RefInv /\ [Next]_vars => RefInv'
<1> SUFFICES ASSUME RefInv, [Next]_vars PROVE RefInv'
  OBVIOUS
<1>1. IInv'
  BY InvStep DEF RefInv
<1>2. CASE UNCHANGED vars
  BY <1>1, <1>2, StandsRefines
<1>3. ASSUME NEW p \in Procs, Crash(p) PROVE RefInv'
  BY <1>1, <1>3, AbortRefines DEF Crash
<1>4. CASE Next
  BY <1>1, <1>2, <1>3, <1>4, StepRefInv, CallRefines DEF Next, Quiet
<1>5. QED
  BY <1>2, <1>4

LEMMA RefInvInit == Init => RefInv
<1> SUFFICES ASSUME Init PROVE RefInv
  OBVIOUS
<1>1. IInv
  BY InitHolds
<1>2. \A p \in Procs : pc[p] = "idle" /\ frame[p] = NoFrame
  BY DEF Init
<1>3. \A k \in Keys : owner[k] = NoProc
  BY DEF Init, RowsInit
<1>4. ASSUME NEW p \in Procs PROVE PendingOK(p)
  <2>1. FlowOK(p) /\ FoundOK(p) /\ ReportOK(p)
    BY <1>2 DEF FlowOK, FoundOK, ReportOK, AfterCancel, AfterUpsert
  <2>2. QED
    BY <1>3, <2>1, KeyTables, BillingAssumption DEF PendingOK
<1>5. ASSUME NEW c \in Checkouts, stripe[c] # "offered" PROVE db[SessionRow(c)] = NoRow
  <2>1. c \notin Opened
    BY <1>5 DEF Init
  <2>2. SessionRow(c) \notin {SessionRow(d) : d \in Opened}
    BY <2>1, KeysDiffer, BillingAssumption
  <2>3. QED
    BY <2>2, KeyTables DEF Init, RowsInit
<1>6. CheckoutsOK
  BY <1>2, <1>5 DEF CheckoutsOK, CheckoutOK, Opening, NoFrame
<1>7. QED
  BY <1>1, <1>4, <1>6 DEF RefInv

LEMMA RefInvariance == Spec => []RefInv
BY RefInvInit, RefInvStep, PTL DEF Spec

-----------------------------------------------------------------------------
\* What changes of the committed subscriptions and sessions.

LEMMA OnlyCommitsPublish ==
  ASSUME RefInv, Next
  PROVE  \/ \A c \in Checkouts : db'[SubRow(c)] = db[SubRow(c)] /\ db'[SessionRow(c)] = db[SessionRow(c)]
         \/ \E p \in Procs : Commit(p) \/ NewSession(p) \/ ViewExpire(p)
<1>1. CASE db' = db
  BY <1>1
<1>2. ASSUME NEW p \in Procs, NewCustomer(p)
      PROVE  \A c \in Checkouts :
               db'[SubRow(c)] = db[SubRow(c)] /\ db'[SessionRow(c)] = db[SessionRow(c)]
  <2>1. RestStays(CustomerRow)
    BY <1>2, RefFacts, AutocommitFacts, KeyTables DEF NewCustomer
  <2>2. QED
    BY <2>1, KeyTables, KeysDiffer DEF RestStays
<1>3. ASSUME NEW p \in Procs, Step(p)
      PROVE  db' = db \/ NewCustomer(p) \/ Commit(p) \/ NewSession(p) \/ ViewExpire(p)
  <2>1. CASE DeadlockVictim(p)
    BY <2>1 DEF DeadlockVictim, Abort, RollbackRows
  <2>2. CASE Seen(p) \/ Record(p) \/ Answer(p)
    BY <2>2 DEF Seen, Record, Answer, Proceed, rowVars, InsertRow, WriteRow
  <2>3. CASE SessionRead(p) \/ PaidRead(p) \/ FailedRead(p) \/ SubRead(p) \/ ViewRead(p) \/ CancelRead(p)
    BY <2>3 DEF SessionRead, PaidRead, FailedRead, SubRead, ViewRead, CancelRead, Proceed, rowVars
  <2>4. CASE Customer(p) \/ SessionWrite(p) \/ PaidWrite(p) \/ SubUpdate(p)
    BY <2>4 DEF Customer, SessionWrite, PaidWrite, SubUpdate, Write, WriteRow, Proceed, rowVars
  <2>5. CASE FailedWrite(p) \/ SubInsert(p)
    BY <2>5 DEF FailedWrite, SubInsert, Write, InsertRow, WriteRow, Proceed, rowVars, Abort, RollbackRows
  <2>6. CASE CancelOthers(p) \/ CancelSubscriptions(p)
    BY <2>6 DEF CancelOthers, CancelSubscriptions, FindActive, rowVars
  <2>8. CASE TakeOthers(p) \/ TakeAll(p)
    BY <2>8 DEF TakeOthers, TakeAll, TakeActive, WriteRow, Proceed, rowVars
  <2>7. QED
    BY <1>3, <2>1, <2>2, <2>3, <2>4, <2>5, <2>6, <2>8 DEF Step
<1>4. ASSUME NEW p \in Procs, Crash(p) \/ Cancel(p) \/ Deliver(p) PROVE db' = db
  BY <1>4 DEF Crash, RollbackRows, Cancel, Deliver, Call, rowVars
<1>5. ASSUME NEW p \in Procs, NEW c \in Checkouts, OpenCheckout(p, c) \/ View(p, c) PROVE db' = db
  BY <1>5 DEF OpenCheckout, View, Call, rowVars
<1>6. CASE Quiet
  BY <1>6 DEF Quiet, vars, rowVars
<1>7. QED
  BY <1>1, <1>2, <1>3, <1>4, <1>5, <1>6 DEF Next

-----------------------------------------------------------------------------
\* The state of the mirror.

SubOf(c) == IF db[SubRow(c)] = NoRow THEN NoRow ELSE db[SubRow(c)].status
SessionOf(c) == IF db[SessionRow(c)] = NoRow THEN NoRow ELSE db[SessionRow(c)].status

subsBar == [c \in Checkouts |-> SubOf(c)]
sessionsBar == [c \in Checkouts |-> SessionOf(c)]

SubsStay == \A c \in Checkouts : SubOf(c)' = SubOf(c)
SessionsStay == \A c \in Checkouts : SessionOf(c)' = SessionOf(c)

\* Its actions, checkout by checkout.

LEMMA MirrorStutters == ASSUME SubsStay, SessionsStay PROVE UNCHANGED Mirror!mirrorVars
<1>1. subsBar' = subsBar /\ sessionsBar' = sessionsBar
  BY DEF SubsStay, SessionsStay, subsBar, sessionsBar
<1>2. QED
  BY <1>1 DEF Mirror!mirrorVars, subsBar, sessionsBar, SubOf, SessionOf

LEMMA MirrorOpens ==
  ASSUME NEW c \in Checkouts, SubsStay, SessionOf(c) = NoRow, SessionOf(c)' = "OPEN",
         \A d \in Checkouts \ {c} : SessionOf(d)' = SessionOf(d)
  PROVE  Mirror!MirrorNext
<1>1. /\ subsBar' = subsBar /\ sessionsBar[c] = NoRow
      /\ sessionsBar' = [sessionsBar EXCEPT ![c] = "OPEN"]
  BY DEF SubsStay, subsBar, sessionsBar
<1>2. Mirror!Open(c)
  BY <1>1 DEF Mirror!Open, subsBar, sessionsBar, SubOf, SessionOf
<1>3. QED
  BY <1>2 DEF Mirror!MirrorNext

LEMMA MirrorCheckout ==
  ASSUME NEW c \in Checkouts, SubsStay, SessionOf(c) # NoRow,
         SessionOf(c)' \in {"COMPLETED", "EXPIRED", "ABANDONED"},
         \A d \in Checkouts \ {c} : SessionOf(d)' = SessionOf(d)
  PROVE  Mirror!MirrorNext
<1>1. PICK status \in {"COMPLETED", "EXPIRED", "ABANDONED"} : SessionOf(c)' = status
  OBVIOUS
<1>2. /\ subsBar' = subsBar /\ sessionsBar[c] # NoRow
      /\ sessionsBar' = [sessionsBar EXCEPT ![c] = status]
  BY <1>1 DEF SubsStay, subsBar, sessionsBar
<1>3. Mirror!SetSession(c, status)
  BY <1>2 DEF Mirror!SetSession, sessionsBar, SessionOf
<1>4. Mirror!Checkout(c)
  BY <1>2, <1>3 DEF Mirror!Checkout, subsBar, SubOf
<1>5. QED
  BY <1>4 DEF Mirror!MirrorNext

LEMMA MirrorInvoice ==
  ASSUME NEW c \in Checkouts, SessionsStay,
         \/ SubOf(c) \notin {NoRow, "CANCELLED", "EXPIRED"} /\ SubOf(c)' = "ACTIVE"
         \/ SubOf(c) = "ACTIVE" /\ SubOf(c)' = "PENDING",
         \A d \in Checkouts \ {c} : SubOf(d)' = SubOf(d)
  PROVE  Mirror!MirrorNext
<1>1. sessionsBar' = sessionsBar
  BY DEF SessionsStay, sessionsBar
<1>2. CASE SubOf(c) \notin {NoRow, "CANCELLED", "EXPIRED"} /\ SubOf(c)' = "ACTIVE"
  <2>1. subsBar[c] \notin {NoRow, "CANCELLED", "EXPIRED"} /\ subsBar' = [subsBar EXCEPT ![c] = "ACTIVE"]
    BY <1>2 DEF subsBar
  <2>2. Mirror!Paid(c)
    BY <1>1, <2>1 DEF Mirror!Paid, subsBar, sessionsBar, SubOf, SessionOf
  <2>3. QED
    BY <2>2 DEF Mirror!MirrorNext
<1>3. CASE SubOf(c) = "ACTIVE" /\ SubOf(c)' = "PENDING"
  <2>1. subsBar[c] = "ACTIVE" /\ subsBar' = [subsBar EXCEPT ![c] = "PENDING"]
    BY <1>3 DEF subsBar
  <2>2. Mirror!Failed(c)
    BY <1>1, <2>1 DEF Mirror!Failed, subsBar, sessionsBar, SubOf, SessionOf
  <2>3. QED
    BY <2>2 DEF Mirror!MirrorNext
<1>4. QED
  BY <1>2, <1>3

LEMMA MirrorReport ==
  ASSUME NEW c \in Checkouts, NEW status \in SubStatuses, SubOf(c)' = status,
         \A d \in Checkouts \ {c} :
           SubOf(d)' = IF status = "ACTIVE" /\ SubOf(d) = "ACTIVE" THEN "CANCELLED" ELSE SubOf(d),
         SessionOf(c) # NoRow, SessionOf(c)' = IF status = "ACTIVE" THEN "COMPLETED" ELSE "OPEN",
         \A d \in Checkouts \ {c} : SessionOf(d)' = SessionOf(d)
  PROVE  Mirror!MirrorNext
<1> DEFINE to == IF status = "ACTIVE" THEN "COMPLETED" ELSE "OPEN"
<1>1. subsBar' = [d \in Checkouts |->
                    IF d = c THEN status
                    ELSE IF status = "ACTIVE" /\ subsBar[d] = "ACTIVE" THEN "CANCELLED" ELSE subsBar[d]]
  BY DEF subsBar
<1>2. sessionsBar[c] # NoRow /\ sessionsBar' = [sessionsBar EXCEPT ![c] = to]
  BY DEF sessionsBar
<1> HIDE DEF to
<1>3. Mirror!SetSession(c, to)
  BY <1>2 DEF Mirror!SetSession, sessionsBar, SessionOf
<1>4. Mirror!Subscription(c, status)
  BY <1>1, <1>3 DEF Mirror!Subscription, subsBar, SubOf, to
<1>5. QED
  BY <1>4 DEF Mirror!MirrorNext, SubStatuses

LEMMA MirrorCancels ==
  ASSUME NEW found \in SUBSET Checkouts, \A c \in found : SubOf(c) = "ACTIVE", SessionsStay,
         \A c \in Checkouts : SubOf(c)' = IF c \in found THEN "CANCELLED" ELSE SubOf(c)
  PROVE  Mirror!MirrorNext
<1>1. /\ sessionsBar' = sessionsBar
      /\ found \in SUBSET {c \in Checkouts : subsBar[c] = "ACTIVE"}
      /\ subsBar' = [c \in Checkouts |-> IF c \in found THEN "CANCELLED" ELSE subsBar[c]]
  BY DEF SessionsStay, subsBar, sessionsBar
<1>2. Mirror!CancelActive
  BY <1>1 DEF Mirror!CancelActive, subsBar, sessionsBar, SubOf, SessionOf
<1>3. QED
  BY <1>2 DEF Mirror!MirrorNext

-----------------------------------------------------------------------------
\* A commit is one action of the mirror.

\* Its versions are rows.
LEMMA StatusRows ==
  /\ \A status \in SubStatuses \cup SessionStatuses : [status |-> status] # NoRow /\ status # NoRow
  /\ RefInv => \A c \in Checkouts :
       /\ db[SubRow(c)] # NoRow => SubOf(c) \in SubStatuses
       /\ SubOf(c) = NoRow <=> db[SubRow(c)] = NoRow
       /\ SubOf(c) = "ACTIVE" <=> IsActive(SubRow(c))
       /\ SessionOf(c) = NoRow <=> db[SessionRow(c)] = NoRow
<1>1. ASSUME NEW status \in SubStatuses \cup SessionStatuses
      PROVE  [status |-> status] # NoRow /\ status # NoRow
  <2>1. [status |-> status] \in [status : SubStatuses \cup SessionStatuses]
    OBVIOUS
  <2>2. QED
    BY <2>1, BillingAssumption DEF TableRows
<1>2. ASSUME RefInv, NEW c \in Checkouts
      PROVE  /\ db[SubRow(c)] # NoRow => SubOf(c) \in SubStatuses
             /\ SubOf(c) = NoRow <=> db[SubRow(c)] = NoRow
             /\ SubOf(c) = "ACTIVE" <=> IsActive(SubRow(c))
             /\ SessionOf(c) = NoRow <=> db[SessionRow(c)] = NoRow
  <2>1. /\ db[SubRow(c)] \in [status : SubStatuses] \cup {NoRow}
        /\ db[SessionRow(c)] \in [status : SessionStatuses] \cup {NoRow}
    BY <1>2, KeyTables DEF RefInv, IInv, Globals, RowsInv, Tables
  <2>2. db[SubRow(c)] # NoRow => SubOf(c) \in SubStatuses
    BY <2>1 DEF SubOf
  <2>3. db[SessionRow(c)] # NoRow => SessionOf(c) \in SessionStatuses
    BY <2>1 DEF SessionOf
  <2>4. /\ SubOf(c) = NoRow <=> db[SubRow(c)] = NoRow
        /\ SessionOf(c) = NoRow <=> db[SessionRow(c)] = NoRow
    BY <1>1, <2>2, <2>3 DEF SubOf, SessionOf
  <2>5. SubOf(c) = "ACTIVE" => IsActive(SubRow(c))
    <3>1. "ACTIVE" # NoRow
      BY <1>1 DEF SubStatuses
    <3>2. QED
      BY <1>2, <3>1, ActiveRow DEF SubOf
  <2>6. IsActive(SubRow(c)) => SubOf(c) = "ACTIVE"
    <3>1. [status |-> "ACTIVE"] # NoRow
      BY <1>1 DEF SubStatuses
    <3>2. QED
      BY <3>1 DEF SubOf, IsActive
  <2>7. QED
    BY <2>2, <2>4, <2>5, <2>6
<1>3. QED
  BY <1>1, <1>2

\* Of what p has not locked nothing changes.
LEMMA Unpublished ==
  ASSUME RefInv, NEW p \in Procs, CommitRows(p), NEW c \in Checkouts
  PROVE  /\ owner[SubRow(c)] # p => SubOf(c)' = SubOf(c)
         /\ owner[SessionRow(c)] # p => SessionOf(c)' = SessionOf(c)
         /\ owner[SubRow(c)] = p /\ db'[SubRow(c)] # NoRow => SubOf(c)' = new[SubRow(c)].status
         /\ owner[SessionRow(c)] = p /\ db'[SessionRow(c)] # NoRow =>
              SessionOf(c)' = new[SessionRow(c)].status
BY Published DEF SubOf, SessionOf

LEMMA CheckoutCommits ==
  ASSUME RefInv, NEW p \in Procs, pc[p] = "commit", CommitRows(p),
         frame[p].op = "webhook", Event(p).type \in SessionTypes
  PROVE  Mirror!MirrorNext \/ UNCHANGED Mirror!mirrorVars
<1>1. ASSUME NEW c \in Checkouts PROVE owner[SubRow(c)] # p
  <2>1. ~ SubPending(p, c)
    BY DEF SubPending, PaidPending, FailedPending, ReportPending, CancelPending, Activates, Reports,
       SessionTypes
  <2>2. QED
    BY <2>1, RefFacts DEF PendingOK
<1>2. SubsStay
  BY <1>1, Unpublished DEF SubsStay
<1>3. CASE \A c \in Checkouts : owner[SessionRow(c)] # p
  <2>1. SessionsStay
    BY <1>3, Unpublished DEF SessionsStay
  <2>2. QED
    BY <1>2, <2>1, MirrorStutters
<1>4. ASSUME NEW c \in Checkouts, owner[SessionRow(c)] = p
      PROVE  Mirror!MirrorNext
  <2>1. SessionPending(p, c)
    BY <1>4, RefFacts DEF PendingOK
  <2>2. db[SessionRow(c)] # NoRow
    <3>1. db[SessionRow(c)] \in Tables[SessionRow(c)]
      BY <2>1, RefFacts DEF SessionPending, CheckoutOK, IInv, Globals
    <3>2. QED
      BY <3>1, KeyTables, NoRowInTables
  <2>3. NewSessionStatus(Event(p)) \in {"COMPLETED", "EXPIRED", "ABANDONED"}
    BY DEF NewSessionStatus, SessionTypes
  <2>4. SessionOf(c)' \in {"COMPLETED", "EXPIRED", "ABANDONED"}
    <3>1. SessionOf(c)' = new[SessionRow(c)].status
      BY <1>4, <2>2, Published, Unpublished
    <3>2. QED
      BY <2>1, <2>3, <3>1 DEF SessionPending
  <2>5. ASSUME NEW d \in Checkouts \ {c} PROVE SessionOf(d)' = SessionOf(d)
    <3>1. owner[SessionRow(d)] # p
      BY <2>1, RefFacts DEF PendingOK, SessionPending
    <3>2. QED
      BY <3>1, Unpublished
  <2>6. SessionOf(c) # NoRow
    BY <2>2, StatusRows
  <2>7. QED
    BY <1>2, <2>4, <2>5, <2>6, MirrorCheckout
<1>5. QED
  BY <1>3, <1>4

LEMMA InvoiceCommits ==
  ASSUME RefInv, NEW p \in Procs, pc[p] = "commit", CommitRows(p),
         frame[p].op = "webhook", Event(p).type \in {"paid", "failed"}
  PROVE  Mirror!MirrorNext \/ UNCHANGED Mirror!mirrorVars
<1>1. ASSUME NEW c \in Checkouts PROVE owner[SessionRow(c)] # p
  BY RefFacts DEF PendingOK, SessionPending, SessionTypes
<1>2. SessionsStay
  BY <1>1, Unpublished DEF SessionsStay
<1>3. CASE \A c \in Checkouts : owner[SubRow(c)] # p
  <2>1. SubsStay
    BY <1>3, Unpublished DEF SubsStay
  <2>2. QED
    BY <1>2, <2>1, MirrorStutters
<1>4. ASSUME NEW c \in Checkouts, owner[SubRow(c)] = p
      PROVE  Mirror!MirrorNext \/ UNCHANGED Mirror!mirrorVars
  <2>1. \A d \in Checkouts : owner[SubRow(d)] = p => PaidPending(p, d) \/ FailedPending(p, d)
    BY RefFacts DEF PendingOK, SubPending, ReportPending, CancelPending, Activates, Reports
  <2>2. c = frame[p].checkout /\ db[SubRow(c)] # NoRow
    BY <1>4, <2>1, StatusRows DEF PaidPending, FailedPending, IsActive, SubStatuses
  <2>3. ASSUME NEW d \in Checkouts \ {c} PROVE SubOf(d)' = SubOf(d)
    <3>1. owner[SubRow(d)] # p
      BY <2>1, <2>2 DEF PaidPending, FailedPending
    <3>2. QED
      BY <3>1, Unpublished
  <2>4. SubOf(c) = db[SubRow(c)].status /\ SubOf(c) # NoRow
    BY <2>2, StatusRows DEF SubOf
  <2>5. SubOf(c)' = new[SubRow(c)].status
    BY <1>4, <2>2, Published, Unpublished
  <2>6. CASE PaidPending(p, c) /\ SubOf(c) \in {"CANCELLED", "EXPIRED"}
    <3>1. SubOf(c)' = SubOf(c)
      BY <2>4, <2>5, <2>6 DEF PaidPending, Renewed
    <3>2. SubsStay
      BY <2>3, <3>1 DEF SubsStay
    <3>3. QED
      BY <1>2, <3>2, MirrorStutters
  <2>7. CASE PaidPending(p, c) /\ SubOf(c) \notin {"CANCELLED", "EXPIRED"}
    <3>1. SubOf(c)' = "ACTIVE"
      BY <2>4, <2>5, <2>7 DEF PaidPending, Renewed
    <3>2. QED
      BY <1>2, <2>3, <2>4, <2>7, <3>1, MirrorInvoice
  <2>8. CASE FailedPending(p, c)
    <3>1. SubOf(c) = "ACTIVE" /\ SubOf(c)' = "PENDING"
      BY <2>5, <2>8, StatusRows DEF FailedPending
    <3>2. QED
      BY <1>2, <2>3, <3>1, MirrorInvoice
  <2>9. QED
    BY <1>4, <2>1, <2>6, <2>7, <2>8
<1>5. QED
  BY <1>3, <1>4

LEMMA ReportCommits ==
  ASSUME RefInv, NEW p \in Procs, pc[p] = "commit", CommitRows(p), Reports(p)
  PROVE  Mirror!MirrorNext
<1>1. PICK c \in Checkouts : c = frame[p].checkout
  BY RefFacts, WebhookFacts DEF Reports
<1>2. Event(p).status \in SubStatuses
  BY RefFacts, WebhookFacts DEF Reports
<1> DEFINE status == Event(p).status
<1>3. /\ owner[SubRow(c)] = p /\ owner[SessionRow(c)] = p
      /\ status = "ACTIVE" =>
           \A d \in Checkouts \ {c} : IsActive(SubRow(d)) => owner[SubRow(d)] = p
  BY <1>1, RefFacts DEF ReportOK, AfterUpsert, AfterCancel
<1>4. \A d \in Checkouts : owner[SubRow(d)] = p => ReportPending(p, d) \/ CancelPending(p, d)
  BY RefFacts DEF PendingOK, SubPending, PaidPending, FailedPending, Reports
<1>5. new[SubRow(c)] = [status |-> status]
  BY <1>1, <1>3, <1>4 DEF ReportPending, CancelPending, AfterUpsert, Reports
<1>6. SubOf(c)' = status
  <2>1. db'[SubRow(c)] = [status |-> status]
    BY <1>3, <1>5, Published
  <2>2. [status |-> status] # NoRow
    BY <1>2, StatusRows
  <2>3. QED
    BY <2>1, <2>2 DEF SubOf
<1>7. ASSUME NEW d \in Checkouts \ {c}
      PROVE  SubOf(d)' = IF status = "ACTIVE" /\ SubOf(d) = "ACTIVE" THEN "CANCELLED" ELSE SubOf(d)
  <2>1. CASE owner[SubRow(d)] = p
    <3>1. CancelPending(p, d)
      BY <1>1, <1>4, <2>1 DEF ReportPending
    <3>2. status = "ACTIVE" /\ SubOf(d) = "ACTIVE" /\ new[SubRow(d)] = [status |-> "CANCELLED"]
      BY <3>1, StatusRows DEF CancelPending, Activates, Reports
    <3>3. db'[SubRow(d)] = [status |-> "CANCELLED"]
      BY <2>1, <3>2, Published
    <3>4. [status |-> "CANCELLED"] # NoRow
      BY StatusRows DEF SubStatuses
    <3>5. QED
      BY <3>2, <3>3, <3>4 DEF SubOf
  <2>2. CASE owner[SubRow(d)] # p
    <3>1. ~ (status = "ACTIVE" /\ SubOf(d) = "ACTIVE")
      BY <1>3, <2>2, StatusRows
    <3>2. SubOf(d)' = SubOf(d)
      BY <2>2, Unpublished
    <3>3. QED
      BY <3>1, <3>2
  <2>3. QED
    BY <2>1, <2>2
<1>8. SessionPending(p, c) /\ SessionOf(c) # NoRow
  <2>1. SessionPending(p, c)
    BY <1>3, RefFacts DEF PendingOK
  <2>2. db[SessionRow(c)] \in Tables[SessionRow(c)]
    BY <1>1, RefFacts DEF Reports, CheckoutOK, IInv, Globals
  <2>3. QED
    BY <2>1, <2>2, KeyTables, NoRowInTables, StatusRows
<1>9. SessionOf(c)' = IF status = "ACTIVE" THEN "COMPLETED" ELSE "OPEN"
  <2>1. db[SessionRow(c)] # NoRow
    BY <1>8, StatusRows
  <2>2. SessionOf(c)' = new[SessionRow(c)].status
    BY <1>3, <2>1, Published, Unpublished
  <2>3. NewSessionStatus(Event(p)) = IF status = "ACTIVE" THEN "COMPLETED" ELSE "OPEN"
    BY DEF NewSessionStatus, Reports
  <2>4. QED
    BY <1>8, <2>2, <2>3 DEF SessionPending
<1>10. ASSUME NEW d \in Checkouts \ {c} PROVE SessionOf(d)' = SessionOf(d)
  <2>1. owner[SessionRow(d)] # p
    BY <1>1, RefFacts DEF PendingOK, SessionPending
  <2>2. QED
    BY <2>1, Unpublished
<1> HIDE DEF status
<1>11. QED
  BY <1>2, <1>6, <1>7, <1>8, <1>9, <1>10, MirrorReport DEF status

LEMMA CancelCommits ==
  ASSUME RefInv, NEW p \in Procs, pc[p] = "commit", CommitRows(p), frame[p].op # "webhook"
  PROVE  Mirror!MirrorNext
<1> DEFINE found == {c \in Checkouts : owner[SubRow(c)] = p}
<1>1. ASSUME NEW c \in Checkouts PROVE owner[SessionRow(c)] # p
  BY RefFacts DEF PendingOK, SessionPending
<1>2. SessionsStay
  BY <1>1, Unpublished DEF SessionsStay
<1>3. ASSUME NEW c \in found
      PROVE  SubOf(c) = "ACTIVE" /\ SubOf(c)' = "CANCELLED"
  <2>1. CancelPending(p, c)
    BY <1>3, RefFacts DEF PendingOK, SubPending, PaidPending, FailedPending, ReportPending, Reports
  <2>2. SubOf(c) = "ACTIVE"
    BY <2>1, StatusRows DEF CancelPending
  <2>3. db'[SubRow(c)] = [status |-> "CANCELLED"]
    BY <2>1, Published DEF CancelPending
  <2>4. [status |-> "CANCELLED"] # NoRow
    BY StatusRows DEF SubStatuses
  <2>5. QED
    BY <2>2, <2>3, <2>4 DEF SubOf
<1>4. \A c \in Checkouts : SubOf(c)' = IF c \in found THEN "CANCELLED" ELSE SubOf(c)
  BY <1>3, Unpublished
<1> HIDE DEF found
<1>5. found \in SUBSET Checkouts
  BY DEF found
<1>6. QED
  BY <1>2, <1>3, <1>4, <1>5, MirrorCancels

LEMMA MirrorStep ==
  RefInv /\ [Next]_vars => [Mirror!MirrorNext]_Mirror!mirrorVars
<1> SUFFICES ASSUME RefInv, [Next]_vars
             PROVE  Mirror!MirrorNext \/ UNCHANGED Mirror!mirrorVars
  OBVIOUS
<1>1. CASE \A c \in Checkouts : db'[SubRow(c)] = db[SubRow(c)] /\ db'[SessionRow(c)] = db[SessionRow(c)]
  <2>1. SubsStay /\ SessionsStay
    BY <1>1 DEF SubsStay, SessionsStay, SubOf, SessionOf
  <2>2. QED
    BY <2>1, MirrorStutters
<1>2. ASSUME NEW p \in Procs, Commit(p)
      PROVE  Mirror!MirrorNext \/ UNCHANGED Mirror!mirrorVars
  <2>1. pc[p] = "commit" /\ CommitRows(p)
    BY <1>2 DEF Commit
  <2>2. CASE frame[p].op = "webhook"
    <3>1. Event(p).type \in EventTypes
      BY <2>2, RefFacts, WebhookFacts
    <3>2. QED
      BY <2>1, <2>2, <3>1, CheckoutCommits, InvoiceCommits, ReportCommits
         DEF EventTypes, SessionTypes, Reports
  <2>3. QED
    BY <2>1, <2>2, CancelCommits
<1>3. ASSUME NEW p \in Procs, NewSession(p)
      PROVE  Mirror!MirrorNext
  <2>1. PICK c \in Checkouts :
          /\ db[SessionRow(c)] = NoRow /\ RestStays(SessionRow(c))
          /\ db'[SessionRow(c)] = [status |-> "OPEN"]
    BY <1>3, SessionOpens
  <2>2. /\ \A d \in Checkouts : db'[SubRow(d)] = db[SubRow(d)]
        /\ \A d \in Checkouts \ {c} : db'[SessionRow(d)] = db[SessionRow(d)]
    BY <2>1, KeyTables, KeysDiffer DEF RestStays
  <2>3. [status |-> "OPEN"] # NoRow
    BY StatusRows DEF SessionStatuses
  <2>4. SubsStay /\ SessionOf(c) = NoRow /\ SessionOf(c)' = "OPEN"
    BY <2>1, <2>2, <2>3 DEF SubsStay, SubOf, SessionOf
  <2>5. \A d \in Checkouts \ {c} : SessionOf(d)' = SessionOf(d)
    BY <2>2 DEF SessionOf
  <2>6. QED
    BY <2>4, <2>5, MirrorOpens
<1>4. ASSUME NEW p \in Procs, ViewExpire(p)
      PROVE  Mirror!MirrorNext \/ UNCHANGED Mirror!mirrorVars
  <2>1. PICK c \in Checkouts :
          /\ RestStays(SessionRow(c)) /\ db[SessionRow(c)] # NoRow
          /\ \/ db'[SessionRow(c)] = [status |-> "EXPIRED"]
             \/ db'[SessionRow(c)] = db[SessionRow(c)]
    BY <1>4, ViewMarks
  <2>2. /\ \A d \in Checkouts : db'[SubRow(d)] = db[SubRow(d)]
        /\ \A d \in Checkouts \ {c} : db'[SessionRow(d)] = db[SessionRow(d)]
    BY <2>1, KeyTables, KeysDiffer DEF RestStays
  <2>3. SubsStay /\ \A d \in Checkouts \ {c} : SessionOf(d)' = SessionOf(d)
    BY <2>2 DEF SubsStay, SubOf, SessionOf
  <2>4. CASE db'[SessionRow(c)] = [status |-> "EXPIRED"]
    <3>1. [status |-> "EXPIRED"] # NoRow
      BY StatusRows DEF SessionStatuses
    <3>2. SessionOf(c) # NoRow /\ SessionOf(c)' = "EXPIRED"
      BY <2>1, <2>4, <3>1, StatusRows DEF SessionOf
    <3>3. QED
      BY <2>3, <3>2, MirrorCheckout
  <2>5. CASE db'[SessionRow(c)] = db[SessionRow(c)]
    <3>1. SessionsStay
      BY <2>3, <2>5 DEF SessionsStay, SessionOf
    <3>2. QED
      BY <2>3, <3>1, MirrorStutters
  <2>6. QED
    BY <2>1, <2>4, <2>5
<1>5. CASE UNCHANGED vars
  <2>1. db' = db
    BY <1>5 DEF vars, rowVars
  <2>2. QED
    BY <1>1, <2>1
<1>6. QED
  BY <1>1, <1>2, <1>3, <1>4, <1>5, OnlyCommitsPublish

LEMMA MirrorInitially == Init => Mirror!MirrorInit
<1> SUFFICES ASSUME Init PROVE Mirror!MirrorInit
  OBVIOUS
<1>1. db = [k \in Keys |->
              IF k \in {SessionRow(c) : c \in Opened} THEN [status |-> "OPEN"] ELSE NoRow]
  BY DEF Init, RowsInit
<1>2. \A c \in Checkouts : db[SubRow(c)] = NoRow
  BY <1>1, KeyTables, KeysDiffer, BillingAssumption
<1>3. ASSUME NEW c \in Checkouts PROVE SessionOf(c) \in {NoRow, "OPEN"}
  <2>1. db[SessionRow(c)] \in {NoRow, [status |-> "OPEN"]}
    BY <1>1, KeyTables
  <2>2. QED
    BY <2>1 DEF SessionOf
<1>4. subsBar = [c \in Checkouts |-> NoRow] /\ sessionsBar \in [Checkouts -> {NoRow, "OPEN"}]
  BY <1>2, <1>3 DEF subsBar, sessionsBar, SubOf
<1>5. QED
  BY <1>4 DEF Mirror!MirrorInit, subsBar, sessionsBar, SubOf, SessionOf

\* However the statements of any number of requests interleave, crash and
\* deadlock, the committed subscriptions and sessions change by one whole
\* webhook event, one request of the user or one expiry at a time.
THEOREM BillingImplementsMirror == Spec => ImplementsMirror
<1>1. Spec => Mirror!MirrorSpec
  BY MirrorInitially, MirrorStep, RefInvariance, PTL DEF Spec, Mirror!MirrorSpec
<1>2. QED
  BY <1>1 DEF ImplementsMirror

\* A read that finds a session past its time never takes back a completion
\* that was committed since it looked.
THEOREM CompletionsStay == Spec => CompletionsSurviveReads
<1>1. ASSUME RefInv, [Next]_vars, NEW c \in Checkouts,
             db[SessionRow(c)] = [status |-> "COMPLETED"], db'[SessionRow(c)] = [status |-> "EXPIRED"]
      PROVE  \E p \in Procs : frame[p].op = "webhook"
  <2>1. db'[SessionRow(c)] # db[SessionRow(c)]
    <3>1. [status |-> "COMPLETED"].status # [status |-> "EXPIRED"].status
      OBVIOUS
    <3>2. QED
      BY <1>1, <3>1
  <2>2. PICK p \in Procs : Commit(p) \/ NewSession(p) \/ ViewExpire(p)
    BY <1>1, <2>1, OnlyCommitsPublish DEF vars, rowVars
  <2>3. CASE Commit(p)
    <3>1. owner[SessionRow(c)] = p
      BY <1>1, <2>1, <2>3, Published DEF Commit
    <3>2. QED
      BY <1>1, <3>1, RefFacts DEF PendingOK, SessionPending
  <2>4. CASE NewSession(p)
    <3>1. PICK d \in Checkouts :
            RestStays(SessionRow(d)) /\ db'[SessionRow(d)] = [status |-> "OPEN"]
      BY <1>1, <2>4, SessionOpens
    <3>2. d = c
      BY <2>1, <3>1, KeyTables, KeysDiffer DEF RestStays
    <3>3. [status |-> "OPEN"].status # [status |-> "EXPIRED"].status
      OBVIOUS
    <3>4. QED
      BY <1>1, <3>1, <3>2, <3>3
  <2>5. CASE ViewExpire(p)
    <3>1. PICK d \in Checkouts :
            /\ RestStays(SessionRow(d))
            /\ db[SessionRow(d)].status = "OPEN" \/ db'[SessionRow(d)] = db[SessionRow(d)]
      BY <1>1, <2>5, ViewMarks
    <3>2. d = c
      BY <2>1, <3>1, KeyTables, KeysDiffer DEF RestStays
    <3>3. QED
      BY <1>1, <2>1, <3>1, <3>2
  <2>6. QED
    BY <2>2, <2>3, <2>4, <2>5
<1>2. RefInv /\ [Next]_vars =>
        [\A c \in Checkouts :
           db[SessionRow(c)] = [status |-> "COMPLETED"] /\ db'[SessionRow(c)] = [status |-> "EXPIRED"]
             => \E p \in Procs : frame[p].op = "webhook"]_vars
  BY <1>1
<1>3. QED
  BY <1>2, RefInvariance, PTL DEF Spec, CompletionsSurviveReads
=============================================================================
