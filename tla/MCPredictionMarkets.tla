------------------------- MODULE MCPredictionMarkets -------------------------
(* Small instances of PredictionMarkets.                                    *)
EXTENDS PredictionMarkets, TLC

CONSTANTS m1, m2, m3, m4, m5

\* Three MAIN markets and two free ones compete for a user's daily slots.
MCSlotKinds ==
  [m \in {m1, m2, m3} |-> "MAIN"] @@ [m \in {m4, m5} |-> "FREE_DAILY"]

MCSettleKinds == (m1 :> "STANDARD") @@ (m2 :> "FREE_DAILY")

MCClosesOn == [m \in Markets |-> 2]
=============================================================================
