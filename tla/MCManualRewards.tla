--------------------------- MODULE MCManualRewards ---------------------------
(* Small instances of ManualRewards.  The points are small numbers: an      *)
(* operator can set each of them with a NOVA_MANUAL_... variable.           *)
EXTENDS ManualRewards
=============================================================================
