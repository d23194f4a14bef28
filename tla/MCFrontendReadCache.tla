------------------------ MODULE MCFrontendReadCache ------------------------
(* Small instances of FrontendReadCache: one key of each kind.              *)
EXTENDS FrontendReadCache

CONSTANTS i1, i2, l1, l2, l3, profile, preferences

\* The instances share nothing but the row: one of them has both keys.
MCAsked == [i \in Instances |-> IF i = i1 THEN Keys ELSE {profile}]

MCFallsBack == [k \in Keys |-> k = profile]
=============================================================================
