-------------------------- MODULE MCPostgresBridge --------------------------
(* Small instances of PostgresBridge: a pool of two connections.            *)
EXTENDS PostgresBridge

CONSTANTS a, b
=============================================================================
