--------------------------- MODULE BillingWebhooks ---------------------------
(***************************************************************************)
(* src/server/billing/service.ts for one user: checkout sessions are opened*)
(* at Stripe and stored, Stripe's webhooks keep the local subscriptions and*)
(* sessions in step (processBillingWebhook), and reads expire sessions     *)
(* nobody paid.  One action per SQL statement of a request.                *)
(*                                                                         *)
(* Stripe is external: it emits events about the checkouts it was given    *)
(* and delivers each in any order, to several instances at once, until it  *)
(* was answered.                                                           *)
(***************************************************************************)
EXTENDS PostgresRows

CONSTANTS
  Checkouts,     \* checkout sessions, each with its subscription
  Opened,        \* those the user already has the URL of
  Ops,           \* the requests a run exercises
  NoEvent,
  Outboxes,      \* the sets of events Stripe may have for the user
  MaxCrashes     \* bound: the requests that die

\* The statuses normalizeStripeSubscriptionStatus makes of Stripe's own.
SubStatuses == {"ACTIVE", "PENDING", "CANCELLED", "EXPIRED"}

\* What processBillingWebhook handles; the subscription events are one, and so
\* are checkout.session.completed and .async_payment_succeeded.
EventTypes == {"completed", "expired", "async_failed", "paid", "failed", "subscription"}

\* An event reports the subscription's status at the time it was emitted, and
\* may name the customer: Stripe's invoices and subscriptions always have one,
\* a checkout session that expired need not.
StripeEvents ==
  {e \in [id : Nat, type : EventTypes, checkout : Checkouts, status : SubStatuses \cup {NoEvent},
          customer : BOOLEAN] :
     /\ e.type = "subscription" => e.status \in SubStatuses
     /\ e.type \in {"subscription", "paid"} => e.customer}

SessionStatuses == {"OPEN", "COMPLETED", "EXPIRED", "ABANDONED"}

\* The columns this module tells apart, of a row of any table.
TableRows == [linked : BOOLEAN] \cup [status : SubStatuses \cup SessionStatuses] \cup [done : {TRUE}]

ASSUME BillingAssumption ==
  /\ NoProc \notin Procs
  /\ NoRow \notin TableRows \cup SubStatuses \cup SessionStatuses
  /\ Opened \subseteq Checkouts
  /\ Ops \subseteq {"checkout", "view", "cancel"}
  /\ \A events \in Outboxes : events \subseteq StripeEvents
  /\ MaxCrashes \in Nat

VARIABLES
  pc,         \* pc[p]: the statement request p sends next
  frame,      \* frame[p]: what it is about: a checkout, an event; the subscriptions
              \*   its UPDATE has found active and not taken yet
  stripe,     \* stripe[c]: "none", "created" at Stripe, or the user has been "offered" its URL
  sent,       \* the events Stripe has for this user
  acked,      \* those it was answered 200 for
  crashes

localVars == <<pc, frame>>
stripeVars == <<stripe, sent>>
vars == <<rowVars, localVars, stripeVars, acked, crashes>>

CustomerRow   == <<"customer">>
SubRow(c)     == <<"subscription", c>>   \* UNIQUE(provider_subscription_id)
SessionRow(c) == <<"session", c>>
EventRow(n)   == <<"event", n>>          \* PRIMARY KEY(event_id)

EventIds == {e.id : e \in UNION Outboxes}

Keys ==
  {CustomerRow} \cup {SubRow(c) : c \in Checkouts} \cup {SessionRow(c) : c \in Checkouts}
    \cup {EventRow(n) : n \in EventIds}

NoFrame == [op |-> "none", checkout |-> NoEvent, event |-> NoEvent, found |-> {}]

Init ==
  /\ RowsInit([k \in Keys |->
       IF k \in {SessionRow(c) : c \in Opened} THEN [status |-> "OPEN"] ELSE NoRow])
  /\ pc = [p \in Procs |-> "idle"]
  /\ frame = [p \in Procs |-> NoFrame]
  /\ stripe = [c \in Checkouts |-> IF c \in Opened THEN "offered" ELSE "none"]
  /\ sent \in Outboxes
  /\ acked = {}
  /\ crashes = 0

Goto(p, next) == pc' = [pc EXCEPT ![p] = next]

Proceed(p, next) == Goto(p, next) /\ UNCHANGED <<rowVars, frame, stripeVars, acked, crashes>>

\* The row is written in p's transaction and the next statement follows.
Write(p, k, version, next) ==
  /\ WriteRow(p, k, version)
  /\ Goto(p, next)
  /\ UNCHANGED <<frame, stripeVars, acked, crashes>>

Call(p, f, first) ==
  /\ pc[p] = "idle"
  /\ frame' = [frame EXCEPT ![p] = f]
  /\ Goto(p, first)
  /\ UNCHANGED <<rowVars, stripeVars, acked, crashes>>

Return(p) == Goto(p, "idle") /\ frame' = [frame EXCEPT ![p] = NoFrame]

\* Mutant of Abort: the route answers 200 whatever went wrong.
AbortAcked(p) ==
  /\ RollbackRows(p) /\ Return(p)
  /\ acked' = acked \cup ({frame[p].event} \ {NoEvent})
  /\ UNCHANGED stripeVars

\* runBillingTransaction rolls back and rethrows: Stripe is answered 500.
Abort(p) == RollbackRows(p) /\ Return(p) /\ UNCHANGED <<stripeVars, acked>>

Crash(p) ==
  /\ pc[p] # "idle"
  /\ crashes < MaxCrashes
  /\ crashes' = crashes + 1
  /\ RollbackRows(p) /\ Return(p) /\ UNCHANGED <<stripeVars, acked>>

-----------------------------------------------------------------------------
\* Stripe.

\* Nobody can pay at a checkout whose URL was never handed out, because the
\* request that opened it is still under way or died; Stripe lets it expire.
Happened(e) ==
  \/ stripe[e.checkout] = "offered"
  \/ stripe[e.checkout] = "created" /\ e.type = "expired"

\* Deliveries know no order: an event may come at any time, until it was
\* answered, and to two instances at once.
Deliver(p) ==
  \E e \in sent \ acked :
    /\ Happened(e)
    /\ Call(p, [NoFrame EXCEPT !.op = "webhook", !.checkout = e.checkout, !.event = e], "seen")

-----------------------------------------------------------------------------
\* processBillingWebhook

Event(p) == frame[p].event

Ack(p) == acked' = acked \cup {Event(p)}

\* hasProcessedWebhookEvent, outside the transaction
Seen(p) ==
  LET k == EventRow(Event(p).id) IN
  /\ pc[p] = "seen"
  /\ \/ /\ db[k] # NoRow
        /\ Ack(p) /\ Return(p)
        /\ UNCHANGED <<rowVars, stripeVars, crashes>>
     \/ db[k] = NoRow /\ Proceed(p, "record")

First == [completed |-> "sessionRead", expired |-> "sessionRead", async_failed |-> "sessionRead",
          paid |-> "paidRead", failed |-> "failedRead", subscription |-> "customer"]

\* Mutant of Record: 200 is sent before the event is processed.
RecordAcked(p) ==
  LET k == EventRow(Event(p).id) IN
  /\ pc[p] = "record"
  /\ Ack(p)
  /\ InsertRow(p, k, [done |-> TRUE]) \/ (Refused(p, k) /\ UNCHANGED rowVars)
  /\ Goto(p, First[Event(p).type])
  /\ UNCHANGED <<frame, stripeVars, crashes>>

\* recordWebhookEvent: ON CONFLICT DO NOTHING waits for a delivery of the same
\* event that is in progress, and then goes on all the same.
Record(p) ==
  LET k == EventRow(Event(p).id)
      next == First[Event(p).type]
  IN
  /\ pc[p] = "record"
  /\ \/ /\ InsertRow(p, k, [done |-> TRUE])
        /\ Goto(p, next)
        /\ UNCHANGED <<frame, stripeVars, acked, crashes>>
     \/ Refused(p, k) /\ Proceed(p, next)

\* What follows upsertBillingCustomer: it ends an invoice or a checkout event
\* and begins a subscription event.
AfterCustomer(e) ==
  IF e.type # "subscription" THEN "commit"
  ELSE IF e.status = "ACTIVE" THEN "cancelOthers" ELSE "subRead"

\* Mutant of Customer: the webhook leaves the customer's row alone.
CustomerSkipped(p) == pc[p] = "customer" /\ Proceed(p, AfterCustomer(Event(p)))

\* upsertBillingCustomer of a webhook that names a customer; all subscription
\* events of a user meet at this row before they touch the subscriptions.
Customer(p) ==
  /\ pc[p] = "customer"
  /\ IF Event(p).customer
       THEN Write(p, CustomerRow, [linked |-> TRUE], AfterCustomer(Event(p)))
       ELSE Proceed(p, AfterCustomer(Event(p)))

\* updateCheckoutSessionFromProvider, which passes over a session never stored
SessionRead(p) ==
  /\ pc[p] = "sessionRead"
  /\ Proceed(p, IF Exists(p, SessionRow(frame[p].checkout)) THEN "sessionWrite"
                ELSE IF Event(p).type = "subscription" THEN "commit" ELSE "customer")

\* Mutant of NewSessionStatus: a status the table does not know.
NewSessionStatusFailed(e) ==
  CASE e.type = "completed" -> "COMPLETED"
    [] e.type = "expired" -> "EXPIRED"
    [] e.type = "async_failed" -> "FAILED"
    [] e.type = "subscription" -> IF e.status = "ACTIVE" THEN "COMPLETED" ELSE "OPEN"

NewSessionStatus(e) ==
  CASE e.type = "completed" -> "COMPLETED"
    [] e.type = "expired" -> "EXPIRED"
    [] e.type = "async_failed" -> "ABANDONED"
    [] e.type = "subscription" -> IF e.status = "ACTIVE" THEN "COMPLETED" ELSE "OPEN"

SessionWrite(p) ==
  /\ pc[p] = "sessionWrite"
  /\ Write(p, SessionRow(frame[p].checkout), [status |-> NewSessionStatus(Event(p))],
           IF Event(p).type = "subscription" THEN "commit" ELSE "customer")

\* handleStripeInvoicePaidEvent
PaidRead(p) ==
  /\ pc[p] = "paidRead"
  /\ Proceed(p, IF Exists(p, SubRow(frame[p].checkout)) THEN "paidWrite" ELSE "commit")

PaidWrite(p) ==
  LET k == SubRow(frame[p].checkout)
      status == Sees(p, k).status
  IN
  /\ pc[p] = "paidWrite"
  /\ Write(p, k, [status |-> IF status \in {"CANCELLED", "EXPIRED"} THEN status ELSE "ACTIVE"],
           "customer")

\* handleStripeInvoicePaymentFailedEvent
FailedRead(p) ==
  LET k == SubRow(frame[p].checkout) IN
  /\ pc[p] = "failedRead"
  /\ Proceed(p, IF Exists(p, k) /\ Sees(p, k).status = "ACTIVE" THEN "failedWrite" ELSE "commit")

FailedWrite(p) ==
  LET k == SubRow(frame[p].checkout) IN
  /\ pc[p] = "failedWrite"
  /\ \/ Sees(p, k).status = "ACTIVE" /\ Write(p, k, [status |-> "PENDING"], "commit")
     \/ Free(p, k) /\ Sees(p, k).status # "ACTIVE" /\ Proceed(p, "commit")

\* cancelActiveSubscriptions: one UPDATE of the rows of the user that are
\* ACTIVE when it begins.  It takes them one by one, waits for those another
\* transaction has locked and then looks again; none is added on the way.
ActiveSubs(p) == {c \in Checkouts : Exists(p, SubRow(c)) /\ Sees(p, SubRow(c)).status = "ACTIVE"}

FindActive(p, next) ==
  /\ frame' = [frame EXCEPT ![p].found = ActiveSubs(p)]
  /\ Goto(p, next)
  /\ UNCHANGED <<rowVars, stripeVars, acked, crashes>>

TakeActive(p) ==
  \E c \in frame[p].found :
    LET k == SubRow(c) IN
    /\ Free(p, k)
    /\ IF c \in ActiveSubs(p) THEN WriteRow(p, k, [status |-> "CANCELLED"])
       ELSE UNCHANGED rowVars
    /\ frame' = [frame EXCEPT ![p].found = @ \ {c}]
    /\ UNCHANGED <<pc, stripeVars, acked, crashes>>

CancelOthers(p) == pc[p] = "cancelOthers" /\ FindActive(p, "takeOthers")

TakeOthers(p) ==
  /\ pc[p] = "takeOthers"
  /\ TakeActive(p) \/ (frame[p].found = {} /\ Proceed(p, "subRead"))

\* upsertSubscriptionFromProvider
SubRead(p) ==
  /\ pc[p] = "subRead"
  /\ Proceed(p, IF Exists(p, SubRow(frame[p].checkout)) THEN "subUpdate" ELSE "subInsert")

\* checkout_session_id is a foreign key: without the session's row the INSERT fails.
SubInsert(p) ==
  LET k == SubRow(frame[p].checkout)
      stored == Exists(p, SessionRow(frame[p].checkout))
  IN
  /\ pc[p] = "subInsert"
  /\ \/ /\ stored /\ InsertRow(p, k, [status |-> Event(p).status])
        /\ Goto(p, "sessionRead")
        /\ UNCHANGED <<frame, stripeVars, acked, crashes>>
     \/ (Refused(p, k) \/ ~stored) /\ Abort(p) /\ UNCHANGED crashes

SubUpdate(p) ==
  /\ pc[p] = "subUpdate"
  /\ Write(p, SubRow(frame[p].checkout), [status |-> Event(p).status], "sessionRead")

\* COMMIT, and a webhook's 200
Commit(p) ==
  /\ pc[p] = "commit"
  /\ CommitRows(p)
  /\ IF frame[p].op = "webhook" THEN Goto(p, "answer") /\ UNCHANGED frame ELSE Return(p)
  /\ UNCHANGED <<stripeVars, acked, crashes>>

Answer(p) ==
  /\ pc[p] = "answer"
  /\ Ack(p) /\ Return(p)
  /\ UNCHANGED <<rowVars, stripeVars, crashes>>

-----------------------------------------------------------------------------
\* createBillingCheckoutSession: Stripe makes the session, then the customer
\* and the session are stored, each by a statement of its own; only then has
\* the user the URL to pay at.

OpenCheckout(p, c) ==
  /\ "checkout" \in Ops
  /\ stripe[c] = "none"
  /\ pc[p] = "idle"
  /\ stripe' = [stripe EXCEPT ![c] = "created"]
  /\ frame' = [frame EXCEPT ![p] = [NoFrame EXCEPT !.op = "checkout", !.checkout = c]]
  /\ Goto(p, "newCustomer")
  /\ UNCHANGED <<rowVars, sent, acked, crashes>>

NewCustomer(p) ==
  /\ pc[p] = "newCustomer"
  /\ AutocommitRow(CustomerRow,
       [linked |-> IF db[CustomerRow] = NoRow THEN FALSE ELSE db[CustomerRow].linked])
  /\ Goto(p, "newSession")
  /\ UNCHANGED <<frame, stripeVars, acked, crashes>>

NewSession(p) ==
  /\ pc[p] = "newSession"
  /\ AutocommitRow(SessionRow(frame[p].checkout), [status |-> "OPEN"])
  /\ stripe' = [stripe EXCEPT ![frame[p].checkout] = "offered"]
  /\ Return(p)
  /\ UNCHANGED <<sent, acked, crashes>>

-----------------------------------------------------------------------------
\* getBillingState and getBillingCheckoutSession: an OPEN session that is past
\* expires_at_ms is marked when it is read.

View(p, c) == "view" \in Ops /\ Call(p, [NoFrame EXCEPT !.op = "view", !.checkout = c], "viewRead")

ViewRead(p) ==
  LET k == SessionRow(frame[p].checkout) IN
  /\ pc[p] = "viewRead"
  /\ \/ db[k] # NoRow /\ db[k].status = "OPEN" /\ Proceed(p, "viewExpire")
     \/ Return(p) /\ UNCHANGED <<rowVars, stripeVars, acked, crashes>>

\* Mutant of ViewExpire: markCheckoutExpired without AND status = 'OPEN'.
ViewExpireAny(p) ==
  /\ pc[p] = "viewExpire"
  /\ AutocommitRow(SessionRow(frame[p].checkout), [status |-> "EXPIRED"])
  /\ Return(p)
  /\ UNCHANGED <<stripeVars, acked, crashes>>

ViewExpire(p) ==
  LET k == SessionRow(frame[p].checkout) IN
  /\ pc[p] = "viewExpire"
  /\ AutocommitRow(k, IF db[k].status = "OPEN" THEN [status |-> "EXPIRED"] ELSE db[k])
  /\ Return(p)
  /\ UNCHANGED <<stripeVars, acked, crashes>>

\* cancelBillingSubscription: a subscription at Stripe is not to be cancelled
\* here; whether there is one is read before the transaction.
Cancel(p) == "cancel" \in Ops /\ Call(p, [NoFrame EXCEPT !.op = "cancel"], "cancelRead")

CancelRead(p) ==
  /\ pc[p] = "cancelRead"
  /\ IF \E c \in Checkouts : db[SubRow(c)] # NoRow
       THEN Return(p) /\ UNCHANGED <<rowVars, stripeVars, acked, crashes>>
       ELSE Proceed(p, "cancelAll")

CancelSubscriptions(p) == pc[p] = "cancelAll" /\ FindActive(p, "takeAll")

TakeAll(p) ==
  /\ pc[p] = "takeAll"
  /\ TakeActive(p) \/ (frame[p].found = {} /\ Proceed(p, "commit"))

-----------------------------------------------------------------------------
\* The rows a request's next statement has to lock.
Wanted(p) ==
  CASE pc[p] = "record" -> {EventRow(Event(p).id)}
    [] pc[p] \in {"customer", "newCustomer"} -> {CustomerRow}
    [] pc[p] \in {"sessionWrite", "newSession", "viewExpire"} -> {SessionRow(frame[p].checkout)}
    [] pc[p] \in {"paidWrite", "failedWrite", "subInsert", "subUpdate"} -> {SubRow(frame[p].checkout)}
    [] pc[p] \in {"takeOthers", "takeAll"} -> {SubRow(c) : c \in frame[p].found}
    [] OTHER -> {}

WaitsFor(p, q) == q # p /\ \E k \in Wanted(p) : owner[k] = q

\* Postgres finds two transactions that wait for one another and fails the
\* statement of one.
DeadlockVictim(p) ==
  /\ \E q \in Procs : WaitsFor(p, q) /\ WaitsFor(q, p)
  /\ Abort(p)
  /\ UNCHANGED crashes

Step(p) ==
  \/ Seen(p) \/ Record(p) \/ Customer(p) \/ SessionRead(p) \/ SessionWrite(p)
  \/ PaidRead(p) \/ PaidWrite(p) \/ FailedRead(p) \/ FailedWrite(p)
  \/ CancelOthers(p) \/ TakeOthers(p) \/ SubRead(p) \/ SubInsert(p) \/ SubUpdate(p)
  \/ Commit(p) \/ Answer(p)
  \/ NewCustomer(p) \/ NewSession(p)
  \/ ViewRead(p) \/ ViewExpire(p)
  \/ CancelRead(p) \/ CancelSubscriptions(p) \/ TakeAll(p)
  \/ DeadlockVictim(p)

Quiet == (\A p \in Procs : pc[p] = "idle") /\ UNCHANGED vars

Next ==
  \/ \E p \in Procs :
       \/ Step(p) \/ Crash(p) \/ Cancel(p)
       \/ Deliver(p)
       \/ \E c \in Checkouts : OpenCheckout(p, c) \/ View(p, c)
  \/ Quiet

\* Requests run on; a request that waits for a row gets it in the end, since
\* Postgres queues those who wait; and Stripe goes on delivering what was not
\* answered.
Spec ==
  /\ Init /\ [][Next]_vars
  /\ \A p \in Procs : SF_vars(Step(p))
  /\ SF_vars(\E p \in Procs : Deliver(p))

-----------------------------------------------------------------------------
\* Properties.

Pcs == {"idle", "seen", "record", "customer", "sessionRead", "sessionWrite", "paidRead",
        "paidWrite", "failedRead", "failedWrite", "cancelOthers", "subRead", "subInsert",
        "subUpdate", "commit", "answer", "newCustomer", "newSession", "viewRead",
        "viewExpire", "cancelRead", "cancelAll", "takeOthers", "takeAll"}

\* Every row satisfies its table's CHECK constraints, committed or not.
TypeOK ==
  /\ \A k \in Keys : \A row \in {db[k], new[k]} \ {NoRow} :
       CASE k[1] = "customer" -> row \in [linked : BOOLEAN]
         [] k[1] = "subscription" -> row \in [status : SubStatuses]
         [] k[1] = "session" -> row \in [status : SessionStatuses]
         [] k[1] = "event" -> row \in [done : {TRUE}]
  /\ owner \in [Keys -> Procs \cup {NoProc}]
  /\ pc \in [Procs -> Pcs]
  /\ sent \in Outboxes
  /\ acked \subseteq sent
  /\ \A p \in Procs : frame[p].event \in sent \cup {NoEvent} /\ frame[p].found \subseteq Checkouts

\* An event is answered 200 only once its row, and with it all it changed, is
\* committed: what Stripe will not send again is not lost.
AckedMeansRecorded == \A e \in acked : db[EventRow(e.id)] # NoRow

Mirror == INSTANCE BillingMirror WITH
  Absent <- NoRow,
  subs <- [c \in Checkouts |-> IF db[SubRow(c)] = NoRow THEN NoRow ELSE db[SubRow(c)].status],
  sessions <- [c \in Checkouts |->
                 IF db[SessionRow(c)] = NoRow THEN NoRow ELSE db[SessionRow(c)].status]

\* However the statements of two requests interleave, duplicates included, the
\* committed tables change as if each webhook, expiry or cancellation had run
\* alone: no invoice revives a cancelled subscription, two active ones come
\* only from an invoice, and no half of an event is ever seen.
ImplementsMirror == Mirror!MirrorSpec

\* A read that finds a session past its time never takes back a completion
\* that was committed since it looked.
CompletionsSurviveReads ==
  [][\A c \in Checkouts :
       db[SessionRow(c)] = [status |-> "COMPLETED"] /\ db'[SessionRow(c)] = [status |-> "EXPIRED"]
         => \E p \in Procs : frame[p].op = "webhook"]_vars

\* Every event is recorded in the end, although its deliveries die, race their
\* own duplicates and deadlock: an invoice locks the subscription before the
\* customer, a subscription event the other way round.  Two deliveries that
\* always came together could fail one another for ever; Stripe's growing
\* delays keep them from it, so a time without deadlocks is assumed to come.
DeadlocksEnd == <>[][~\E p \in Procs : DeadlockVictim(p)]_vars

EveryEventRecorded ==
  DeadlocksEnd =>
    <>[](\A e \in sent : Happened(e) => db[EventRow(e.id)] # NoRow)
=============================================================================
