---------------------------- MODULE BillingMirror ----------------------------
(***************************************************************************)
(* What the billing tables promise of one user, statement by statement     *)
(* races left out: the local copies of the provider's subscriptions and    *)
(* checkout sessions change by one whole webhook event, one request of the *)
(* user or one expiry at a time.                                           *)
(***************************************************************************)
CONSTANTS
  Checkouts,  \* checkout sessions; each leads to one subscription
  Absent      \* there is no row

VARIABLES
  subs,       \* the status of a checkout's subscription
  sessions    \* the status of the checkout session

mirrorVars == <<subs, sessions>>

MirrorInit ==
  /\ subs = [c \in Checkouts |-> Absent]
  /\ sessions \in [Checkouts -> {Absent, "OPEN"}]

Open(c) ==
  /\ sessions[c] = Absent
  /\ sessions' = [sessions EXCEPT ![c] = "OPEN"]
  /\ UNCHANGED subs

SetSession(c, status) ==
  IF sessions[c] = Absent THEN UNCHANGED sessions
  ELSE sessions' = [sessions EXCEPT ![c] = status]

\* checkout.session.* and a checkout that timed out
Checkout(c) ==
  /\ \E status \in {"COMPLETED", "EXPIRED", "ABANDONED"} : SetSession(c, status)
  /\ UNCHANGED subs

\* invoice.paid never revives a subscription that was cancelled.
Paid(c) ==
  /\ subs[c] \notin {Absent, "CANCELLED", "EXPIRED"}
  /\ subs' = [subs EXCEPT ![c] = "ACTIVE"]
  /\ UNCHANGED sessions

Failed(c) ==
  /\ subs[c] = "ACTIVE"
  /\ subs' = [subs EXCEPT ![c] = "PENDING"]
  /\ UNCHANGED sessions

\* customer.subscription.*: the newest active subscription replaces the others.
Subscription(c, status) ==
  /\ subs' = [d \in Checkouts |->
       IF d = c THEN status
       ELSE IF status = "ACTIVE" /\ subs[d] = "ACTIVE" THEN "CANCELLED" ELSE subs[d]]
  /\ SetSession(c, IF status = "ACTIVE" THEN "COMPLETED" ELSE "OPEN")

\* cancelBillingSubscription takes the subscriptions its UPDATE finds active; one
\* that an invoice makes active before it commits is not among them.
CancelActive ==
  /\ \E found \in SUBSET {c \in Checkouts : subs[c] = "ACTIVE"} :
       subs' = [c \in Checkouts |-> IF c \in found THEN "CANCELLED" ELSE subs[c]]
  /\ UNCHANGED sessions

MirrorNext ==
  \/ CancelActive
  \/ \E c \in Checkouts :
       \/ Open(c) \/ Checkout(c) \/ Paid(c) \/ Failed(c)
       \/ \E status \in {"ACTIVE", "PENDING", "CANCELLED", "EXPIRED"} : Subscription(c, status)

MirrorSpec == MirrorInit /\ [][MirrorNext]_mirrorVars
=============================================================================
