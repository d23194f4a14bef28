--------------------------- MODULE MCManualService ---------------------------
(* Small instances of ManualService: one user invites the other, and both   *)
(* may enter a market.                                                      *)
EXTENDS ManualService, TLC

CONSTANTS p1, p2, u1, u2, m1, m2

MCInvitations == {<<u2, u1>>}

MCKind == (m1 :> "STANDARD") @@ (m2 :> "FREE_DAILY")

ProcsAlike == Permutations(Procs)

MCClosesOn == [m \in Markets |-> 2]
=============================================================================
