---------------------------- MODULE PostgresRows ----------------------------
(***************************************************************************)
(* The part of Postgres the synchronous business code relies on: rows      *)
(* found by a unique key, row locks, and transactions at READ COMMITTED.   *)
(*                                                                         *)
(* Postgres is external.  What is modelled is what src/server/manual uses: *)
(* BEGIN (tx_begin of postgresSyncWorker.mjs sends a bare BEGIN, so the    *)
(* isolation level is the default), SELECT, SELECT ... FOR UPDATE, INSERT  *)
(* under a unique index, UPDATE, COMMIT and ROLLBACK.                      *)
(*                                                                         *)
(*  - A plain SELECT never waits; it sees the committed version of a row,  *)
(*    or the version its own transaction wrote (Sees).                     *)
(*  - FOR UPDATE and UPDATE wait until no other transaction has the row,   *)
(*    then work on the version committed last.                             *)
(*  - An INSERT waits for a transaction that inserted the same key, and    *)
(*    fails if that one committed.                                         *)
(*  - COMMIT publishes everything the transaction wrote, in one step.      *)
(***************************************************************************)
EXTENDS Integers, FiniteSets, Sequences

CONSTANTS
  Procs,     \* the serverless instances, each with a connection of its own
  NoProc,    \* the owner of a row nobody has locked
  NoRow      \* the version of a key that has no row

VARIABLES
  db,        \* [Keys -> version]: the committed version of every key
  new,       \* [Keys -> version]: the version the owner's transaction sees
  owner      \* [Keys -> process]: whose transaction has the row locked

rowVars == <<db, new, owner>>

RowsInit(initial) ==
  /\ db = initial
  /\ new = initial
  /\ owner = [k \in DOMAIN initial |-> NoProc]

Sees(p, k) == IF owner[k] = p THEN new[k] ELSE db[k]

Exists(p, k) == Sees(p, k) # NoRow

\* No other transaction makes p wait for k.
Free(p, k) == owner[k] \in {NoProc, p}

\* SELECT ... FOR UPDATE of an existing row.
LockRow(p, k) ==
  /\ Free(p, k)
  /\ owner' = [owner EXCEPT ![k] = p]
  /\ UNCHANGED <<db, new>>

\* INSERT or UPDATE: p becomes the owner of k and writes its next version.
WriteRow(p, k, version) ==
  /\ Free(p, k)
  /\ owner' = [owner EXCEPT ![k] = p]
  /\ new' = [new EXCEPT ![k] = version]
  /\ UNCHANGED db

\* Mutant of InsertRow: the table has lost its unique index.
InsertUnchecked(p, k, version) == WriteRow(p, k, version)

\* An INSERT that the unique index of the key lets through, and one it refuses.
InsertRow(p, k, version) == db[k] = NoRow /\ WriteRow(p, k, version)

Refused(p, k) == Free(p, k) /\ db[k] # NoRow

\* A single statement outside a transaction commits by itself.
AutocommitRow(k, version) ==
  /\ owner[k] = NoProc
  /\ db' = [db EXCEPT ![k] = version]
  /\ new' = [new EXCEPT ![k] = version]
  /\ UNCHANGED owner

Unlocked(p) == [k \in DOMAIN owner |-> IF owner[k] = p THEN NoProc ELSE owner[k]]

CommitRows(p) ==
  /\ db' = [k \in DOMAIN db |-> Sees(p, k)]
  /\ owner' = Unlocked(p)
  /\ UNCHANGED new

RollbackRows(p) ==
  /\ new' = [k \in DOMAIN new |-> IF owner[k] = p THEN db[k] ELSE new[k]]
  /\ owner' = Unlocked(p)
  /\ UNCHANGED db
=============================================================================
