-------------------------- MODULE FrontendReadCache --------------------------
(***************************************************************************)
(* The read cache of src/server/api/queries/frontendReadCache.ts, in       *)
(* front of rows one user owns (a risk profile, notification preferences). *)
(*                                                                         *)
(* Every serverless instance has maps of its own: frontendReadCache and    *)
(* frontendReadInflight.  cachedFrontendRead answers from a live entry,    *)
(* joins a load in flight, or starts one; a load asks Postgres             *)
(* (tryPrimaryPostgresRead) and falls back to a read over the synchronous  *)
(* bridge when that fails.  A writer (setRiskProfile) updates the row and  *)
(* evicts the user's entries in one synchronous step of its instance, so   *)
(* what interleaves with it is a load whose answer is on its way.          *)
(*                                                                         *)
(* Time is abstract: an entry's TTL and the cooldown after a failed query  *)
(* run out some time after they are set.                                   *)
(***************************************************************************)
EXTENDS Integers

CONSTANTS
  Instances,    \* serverless instances
  Keys,         \* cache keys (scope and arguments) that hold the user's id
  Asked,        \* bound: Asked[i] are the keys whose requests reach instance i
  FallsBack,    \* FallsBack[k]: does read() itself fall back, as risk_profile
                \* does, or its caller, as for notification_preferences?
  Loads,        \* bound: the loads that can run at the same time
  NoLoad, NoEntry,
  NoValue,      \* null: what tryPrimaryPostgresRead answers on failure
  MaxWrites     \* bound: the writes of a behaviour

\* What a slot of frontendReadCache and a running read() hold.
Versions == 0..MaxWrites

Entries == [value : Versions \cup {NoValue}, expired : BOOLEAN, raced : BOOLEAN]

RunningLoads ==
  [inst : Instances, key : Keys, stage : {"sent", "read", "failed"},
   value : Versions \cup {NoValue}, raced : BOOLEAN]

ASSUME CacheAssumption ==
  /\ Asked \in [Instances -> SUBSET Keys]
  /\ FallsBack \in [Keys -> BOOLEAN]
  /\ NoLoad \notin Loads \cup RunningLoads
  /\ NoValue \notin Nat
  /\ MaxWrites \in Nat

VARIABLES
  row,        \* the version of the user's row in Postgres
  written,    \* written[i]: the version instance i wrote last
  cache,      \* frontendReadCache of each instance
  inflight,   \* frontendReadInflight of each instance
  cooldown,   \* is the instance before pgPrimaryReadCooldownUntilMs?
  load        \* the read() calls that run

cacheVars == <<row, written, cache, inflight, cooldown, load>>

CacheInit ==
  /\ row = 0
  /\ written = [i \in Instances |-> 0]
  /\ cache = [i \in Instances |-> [k \in Keys |-> NoEntry]]
  /\ inflight = [i \in Instances |-> [k \in Keys |-> NoLoad]]
  /\ cooldown = [i \in Instances |-> FALSE]
  /\ load = [l \in Loads |-> NoLoad]

-----------------------------------------------------------------------------
\* cachedFrontendRead

\* Mutant of Live: the entry's expiresAt is not compared with the clock.
LiveForEver(i, k) == cache[i][k] # NoEntry

Live(i, k) == cache[i][k] # NoEntry /\ ~cache[i][k].expired

\* Which slot a load takes does not matter.
FreeLoad ==
  LET free == {l \in Loads : load[l] = NoLoad}
  IN  IF free = {} THEN {} ELSE {CHOOSE l \in free : TRUE}

\* A request that finds a live entry is answered at once, and one that finds a
\* load in flight awaits it: neither changes a map.  The others start a load.
\* read() runs up to its first await: it is here that the cooldown is looked at.
Miss(i, k) ==
  /\ k \in Asked[i]
  /\ ~Live(i, k)
  /\ inflight[i][k] = NoLoad
  /\ \E l \in FreeLoad :
       /\ load' = [load EXCEPT ![l] =
            [inst |-> i, key |-> k, stage |-> IF cooldown[i] THEN "failed" ELSE "sent",
             value |-> NoValue, raced |-> FALSE]]
       /\ inflight' = [inflight EXCEPT ![i][k] = l]
  /\ UNCHANGED <<row, written, cache, cooldown>>

\* Mutant of Store: .then, without the .finally.
StoreKeepsInflight(l, value) ==
  /\ cache' = [cache EXCEPT ![load[l].inst][load[l].key] =
       [value |-> value, expired |-> FALSE, raced |-> load[l].raced]]
  /\ load' = [load EXCEPT ![l] = NoLoad]
  /\ UNCHANGED <<row, written, inflight, cooldown>>

\* Mutant of Store: the entry is stored without its expiresAt.
StoreUntimed(l, value) ==
  LET i == load[l].inst
      k == load[l].key
  IN
  /\ cache' = [cache EXCEPT ![i][k] = [value |-> value, raced |-> load[l].raced]]
  /\ inflight' = [inflight EXCEPT ![i][k] = NoLoad]
  /\ load' = [load EXCEPT ![l] = NoLoad]
  /\ UNCHANGED <<row, written, cooldown>>

\* The load has its value: .then stores it and .finally leaves
\* frontendReadInflight, in one turn of the event loop.
Store(l, value) ==
  LET i == load[l].inst
      k == load[l].key
  IN
  /\ cache' = [cache EXCEPT ![i][k] =
       [value |-> value, expired |-> FALSE, raced |-> load[l].raced]]
  /\ inflight' = [inflight EXCEPT ![i][k] = NoLoad]
  /\ load' = [load EXCEPT ![l] = NoLoad]
  /\ UNCHANGED <<row, written, cooldown>>

-----------------------------------------------------------------------------
\* tryPrimaryPostgresRead

\* Postgres reads the row; the answer is on its way.
QueryReads(l) ==
  /\ load[l] # NoLoad
  /\ load[l].stage = "sent"
  /\ load' = [load EXCEPT ![l].stage = "read", ![l].value = row]
  /\ UNCHANGED <<row, written, cache, inflight, cooldown>>

\* The query fails, before or after Postgres has read the row.
QueryFails(l) ==
  /\ load[l] # NoLoad
  /\ load[l].stage \in {"sent", "read"}
  /\ load' = [load EXCEPT ![l].stage = "failed", ![l].value = NoValue, ![l].raced = FALSE]
  /\ cooldown' = [cooldown EXCEPT ![load[l].inst] = TRUE]
  /\ UNCHANGED <<row, written, cache, inflight>>

QueryAnswers(l) ==
  /\ load[l] # NoLoad
  /\ load[l].stage = "read"
  /\ Store(l, load[l].value)

\* null: read() falls back to a synchronous read, or stores null.
FallBack(l) ==
  /\ load[l] # NoLoad
  /\ load[l].stage = "failed"
  /\ Store(l, IF FallsBack[load[l].key] THEN row ELSE NoValue)

\* The fall-back throws too: nothing is stored, but .finally runs.
Rejects(l) ==
  /\ load[l] # NoLoad
  /\ load[l].stage = "failed" /\ FallsBack[load[l].key]
  /\ inflight' = [inflight EXCEPT ![load[l].inst][load[l].key] = NoLoad]
  /\ load' = [load EXCEPT ![l] = NoLoad]
  /\ UNCHANGED <<row, written, cache, cooldown>>

-----------------------------------------------------------------------------
\* Mutant of Evicted: nothing is evicted.
EvictedNone(i) == {}

\* invalidateFrontendReadCacheForUser goes through the keys of the cache.
Evicted(i) == {k \in Keys : cache[i][k] # NoEntry}

\* setRiskProfile: upsert, then invalidate, without an await between them.
Write(i) ==
  /\ row < MaxWrites
  /\ row' = row + 1
  /\ written' = [written EXCEPT ![i] = row + 1]
  /\ cache' = [cache EXCEPT ![i] = [k \in Keys |-> IF k \in Evicted(i) THEN NoEntry ELSE @[k]]]
  /\ inflight' = [inflight EXCEPT ![i] = [k \in Keys |-> IF k \in Evicted(i) THEN NoLoad ELSE @[k]]]
  /\ load' = [l \in Loads |->
       IF load[l] # NoLoad /\ load[l].inst = i /\ load[l].stage = "read"
         THEN [load[l] EXCEPT !.raced = TRUE] ELSE load[l]]
  /\ UNCHANGED cooldown

Expire(i, k) ==
  /\ Live(i, k)
  /\ cache' = [cache EXCEPT ![i][k].expired = TRUE]
  /\ UNCHANGED <<row, written, inflight, cooldown, load>>

CooldownEnds(i) ==
  /\ cooldown[i]
  /\ cooldown' = [cooldown EXCEPT ![i] = FALSE]
  /\ UNCHANGED <<row, written, cache, inflight, load>>

\* The instance is stopped: its maps and its requests go.
Restart(i) ==
  LET mine == {l \in Loads : load[l] # NoLoad /\ load[l].inst = i} IN
  /\ cache' = [cache EXCEPT ![i] = [k \in Keys |-> NoEntry]]
  /\ inflight' = [inflight EXCEPT ![i] = [k \in Keys |-> NoLoad]]
  /\ cooldown' = [cooldown EXCEPT ![i] = FALSE]
  /\ load' = [l \in Loads |-> IF l \in mine THEN NoLoad ELSE load[l]]
  /\ UNCHANGED <<row, written>>

LoadStep(l) ==
  QueryReads(l) \/ QueryFails(l) \/ QueryAnswers(l) \/ FallBack(l) \/ Rejects(l)

CacheNext ==
  \/ \E l \in Loads : LoadStep(l)
  \/ \E i \in Instances : Write(i) \/ CooldownEnds(i) \/ Restart(i)
  \/ \E i \in Instances, k \in Keys : Miss(i, k) \/ Expire(i, k)

\* Every load is answered or fails, and every TTL runs out.
CacheSpec ==
  /\ CacheInit /\ [][CacheNext]_cacheVars
  /\ \A l \in Loads : WF_cacheVars(LoadStep(l))
  /\ \A i \in Instances, k \in Keys : WF_cacheVars(Expire(i, k))

-----------------------------------------------------------------------------
\* Properties.

\* Every map and load has its type, and a cached null stands only
\* where the caller knows how to fall back.
CacheTypeOK ==
  /\ row \in Versions
  /\ written \in [Instances -> Versions]
  /\ cache \in [Instances -> [Keys -> Entries \cup {NoEntry}]]
  /\ inflight \in [Instances -> [Keys -> Loads \cup {NoLoad}]]
  /\ cooldown \in [Instances -> BOOLEAN]
  /\ load \in [Loads -> RunningLoads \cup {NoLoad}]
  /\ \A i \in Instances, k \in Keys :
       cache[i][k] # NoEntry => (FallsBack[k] => cache[i][k].value # NoValue)

\* An instance keeps an entry older than what it wrote itself only if the
\* answer to that entry's query was under way when the write evicted.
StaleOnlyIfRaced ==
  \A i \in Instances, k \in Keys :
    cache[i][k] # NoEntry /\ cache[i][k].value # NoValue /\ ~cache[i][k].raced
      => cache[i][k].value >= written[i]

\* A request never joins a load that is over, or another key's: the map points
\* to running loads, although a load that was evicted takes away whatever
\* entry its key has when it ends.
InflightRuns ==
  \A i \in Instances, k \in Keys : inflight[i][k] # NoLoad =>
    LET l == load[inflight[i][k]] IN l # NoLoad /\ l.inst = i /\ l.key = k

\* Once the writes have stopped, the stale answers stop too, on every
\* instance: TTLs and loads in flight all come to an end.
CatchesUp ==
  <>[](\A i \in Instances, k \in Keys :
         Live(i, k) /\ cache[i][k].value # NoValue => cache[i][k].value = row)

\* "The next read reflects the update without waiting for the TTL": an
\* instance serves nothing older than what it wrote itself.
NextReadReflectsWrite ==
  \A i \in Instances, k \in Keys :
    Live(i, k) /\ cache[i][k].value # NoValue => cache[i][k].value >= written[i]
=============================================================================
