---------------------------- MODULE UniqueLedger ----------------------------
(***************************************************************************)
(* What the points service promises of manual_points_ledger, whatever its  *)
(* handlers do: rows are only ever added, the rows of a transaction appear *)
(* all together or not at all, and a row of a singleton event is added     *)
(* only while no other row of the same user and event is committed or on   *)
(* its way.  ManualRewards, ManualReferrals and, on one ledger with the    *)
(* prediction game, ManualService implement it.                            *)
(***************************************************************************)
CONSTANTS
  Procs,        \* the transactions that may be open at the same time
  Singletons    \* the events a user may have one row of

VARIABLES
  ledger,       \* the committed rows
  open          \* open[p]: the rows p has inserted and not yet committed

Clash(r, s) == r.event \in Singletons /\ r.event = s.event /\ r.user = s.user

\* No two rows of a set are the same singleton.
Unique(rows) == \A r, s \in rows : Clash(r, s) => r = s

Init ==
  /\ Unique(ledger)
  /\ open = [p \in Procs |-> {}]

\* The row is given by the step itself, so any row may be appended.
Append(p) ==
  \E row \in open'[p] :
    /\ \A r \in ledger \cup UNION {open[q] : q \in Procs} : ~Clash(row, r)
    /\ open' = [open EXCEPT ![p] = @ \cup {row}]
    /\ UNCHANGED ledger

Commit(p) ==
  /\ ledger' = ledger \cup open[p]
  /\ open' = [open EXCEPT ![p] = {}]

Rollback(p) ==
  /\ open' = [open EXCEPT ![p] = {}]
  /\ UNCHANGED ledger

Next == \E p \in Procs : Append(p) \/ Commit(p) \/ Rollback(p)

Spec == Init /\ [][Next]_<<ledger, open>>

\* At most one row for each user and singleton event.
IndexHolds == Unique(ledger)
=============================================================================
