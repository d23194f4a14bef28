------------------------ MODULE MCRequestGovernance ------------------------
(* Small instances of RequestGovernance: a read that is coalesced and a     *)
(* mutation that is not, in a bucket that is spaced.                        *)
EXTENDS RequestGovernance

CONSTANTS t1, t2, r1, r2, read, post

\* Two requests meet a server that fails; a tab is closed while its one request
\* meets a server that fails in both ways; the bucket is spaced, and a tab is
\* closed while it holds the lock; localStorage is full.
MCWorlds ==
  {[gap |-> 0, answers |-> {"ok", "failure"}, slots |-> {r1, r2}, closes |-> 0, stores |-> TRUE],
   [gap |-> 0, answers |-> {"ok", "failure", "disabled"}, slots |-> {r1}, closes |-> 1, stores |-> TRUE],
   [gap |-> 1, answers |-> {"ok"}, slots |-> {r1, r2}, closes |-> 1, stores |-> TRUE],
   [gap |-> 1, answers |-> {"ok", "failure"}, slots |-> {r1}, closes |-> 0, stores |-> FALSE]}
=============================================================================
