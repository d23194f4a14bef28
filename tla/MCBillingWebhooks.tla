------------------------- MODULE MCBillingWebhooks -------------------------
(* Small instances of BillingWebhooks: what Stripe may have to say of two   *)
(* checkouts of one user.                                                   *)
EXTENDS BillingWebhooks

CONSTANTS p1, p2, c1, c2

Mail(n, type, c, status) ==
  [id |-> n, type |-> type, checkout |-> c, status |-> status, customer |-> TRUE]

FirstPaid == Mail(1, "subscription", c1, "ACTIVE")

\* Bought and renewed; a renewal that fails; a change of plan; a cancellation
\* among late reports; a slow payment that fails; a second plan whose first
\* invoice is paid while the user cancels.
MCOutboxes ==
  {{FirstPaid, Mail(2, "completed", c1, NoEvent), Mail(3, "paid", c1, NoEvent)},
   {FirstPaid, Mail(2, "failed", c1, NoEvent)},
   {FirstPaid, Mail(2, "subscription", c2, "ACTIVE"), Mail(3, "paid", c1, NoEvent)},
   {FirstPaid, Mail(2, "subscription", c1, "CANCELLED"), Mail(3, "paid", c1, NoEvent)},
   {Mail(1, "subscription", c1, "EXPIRED"), Mail(2, "async_failed", c1, NoEvent),
    [Mail(3, "expired", c2, NoEvent) EXCEPT !.customer = FALSE]},
   {FirstPaid, Mail(2, "subscription", c2, "PENDING"), Mail(3, "paid", c2, NoEvent)}}
=============================================================================
