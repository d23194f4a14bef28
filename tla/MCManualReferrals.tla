-------------------------- MODULE MCManualReferrals --------------------------
(* Small instances of ManualReferrals: three users and the codes they may   *)
(* enter.                                                                   *)
EXTENDS ManualReferrals

CONSTANTS u1, u2, u3

\* Two codes to choose from, a pair that may invite one another, one's own.
MCInvitations == {<<u2, u1>>, <<u2, u3>>, <<u1, u2>>, <<u1, u1>>}

\* One of them was claimed before: u1 has two completions within reach.
MCClaimed == {<<u3, u1>>}
=============================================================================
