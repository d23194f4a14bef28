------------------------ MODULE PostgresAccess_proofs ------------------------
(***************************************************************************)
(* What stands between the services of a Node process and Postgres: the    *)
(* read cache (FrontendReadCache), and the synchronous bridge its reads    *)
(* fall back to (PostgresBridge).                                          *)
(*                                                                         *)
(* The cache, for any number of instances, keys, loads and writes: its     *)
(* types, that the in-flight map points to running loads only, and that    *)
(* the one way to a stale entry is the answer that was under way when a    *)
(* write evicted.                                                          *)
(*                                                                         *)
(* The bridge keeps its promises to the services, whatever the number of   *)
(* connections, tasks and deaths of the worker.  What holds of every       *)
(* behaviour (Base) is about the queues: each statement that was sent has  *)
(* one handler, and ids tell messages apart and order them.  What holds    *)
(* until a BEGIN or a ROLLBACK is given up half way (Clean) follows the    *)
(* transaction: which late messages may still be pending, who uses which   *)
(* connection, and what the open transaction has written at each point of  *)
(* the main thread.                                                        *)
(***************************************************************************)
EXTENDS FrontendReadCache, PostgresBridge, TLAPS, SequenceTheorems

-----------------------------------------------------------------------------
(***************************************************************************)
(* The read cache.                                                         *)
(***************************************************************************)
Running(l) == load[l] # NoLoad

\* An answer that is under way carries a version of the row.
AnswersHaveValues ==
  \A l \in Loads : Running(l) /\ load[l].stage = "read" => load[l].value \in Versions

\* Nobody wrote a version that is not in the row, and an answer that no write
\* of its instance has overtaken is as new as what the instance wrote.
AnswersAreFresh ==
  /\ \A i \in Instances : written[i] <= row
  /\ \A l \in Loads :
       Running(l) /\ load[l].stage = "read" /\ ~load[l].raced
         => load[l].value >= written[load[l].inst]

Types == CacheTypeOK /\ AnswersHaveValues

-----------------------------------------------------------------------------
\* A load is started in a slot that is free.
LEMMA FreeLoadIsFree == \A l \in FreeLoad : l \in Loads /\ load[l] = NoLoad
<1>1. SUFFICES ASSUME NEW l \in FreeLoad
               PROVE  l \in Loads /\ load[l] = NoLoad
  OBVIOUS
<1>2. l \in {m \in Loads : load[m] = NoLoad}
  BY DEF FreeLoad
<1>3. QED
  BY <1>2

\* A slot that runs a load holds its record.
LEMMA RunningTyped ==
  ASSUME CacheTypeOK, NEW l \in Loads, Running(l)
  PROVE  /\ load[l] \in RunningLoads
         /\ load[l].inst \in Instances /\ load[l].key \in Keys
BY DEF CacheTypeOK, Running, RunningLoads

\* What QueryAnswers and FallBack store is a value their caller can use.
LEMMA StoreTypes ==
  ASSUME Types, NEW l \in Loads, Running(l), NEW value \in Versions \cup {NoValue},
         FallsBack[load[l].key] => value # NoValue, Store(l, value)
  PROVE  Types'
<1> DEFINE entry == [value |-> value, expired |-> FALSE, raced |-> load[l].raced]
<1>1. load[l].inst \in Instances /\ load[l].key \in Keys /\ load[l].raced \in BOOLEAN
  BY RunningTyped DEF Types, RunningLoads
<1>2. entry \in Entries
  BY <1>1 DEF Entries
<1>3. cache' = [cache EXCEPT ![load[l].inst][load[l].key] = entry]
  BY DEF Store
<1>4. CacheTypeOK'
  <2>1. row' \in Versions /\ written' \in [Instances -> Versions] /\ cooldown' \in [Instances -> BOOLEAN]
    BY DEF Types, CacheTypeOK, Store
  <2>2. cache' \in [Instances -> [Keys -> Entries \cup {NoEntry}]]
    BY <1>1, <1>2, <1>3 DEF Types, CacheTypeOK
  <2>3. inflight' \in [Instances -> [Keys -> Loads \cup {NoLoad}]]
    BY <1>1 DEF Types, CacheTypeOK, Store
  <2>4. load' \in [Loads -> RunningLoads \cup {NoLoad}]
    BY DEF Types, CacheTypeOK, Store
  <2>5. \A i \in Instances, k \in Keys :
          cache'[i][k] # NoEntry => (FallsBack[k] => cache'[i][k].value # NoValue)
    BY <1>1, <1>3 DEF Types, CacheTypeOK
  <2>6. QED
    BY <2>1, <2>2, <2>3, <2>4, <2>5 DEF CacheTypeOK
<1>5. AnswersHaveValues'
  BY DEF Types, CacheTypeOK, AnswersHaveValues, Running, Store
<1>6. QED
  BY <1>4, <1>5 DEF Types

LEMMA InitTypes == CacheInit => Types
BY CacheAssumption DEF CacheInit, Types, CacheTypeOK, AnswersHaveValues, Running, Versions

LEMMA TypesStep == Types /\ [CacheNext]_cacheVars => Types'
<1> SUFFICES ASSUME Types, [CacheNext]_cacheVars PROVE Types'
  OBVIOUS
<1> USE DEF Types
<1>1. ASSUME NEW i \in Instances, NEW k \in Keys, Miss(i, k)
      PROVE  Types'
  <2>1. PICK l \in FreeLoad :
          load' = [load EXCEPT ![l] =
            [inst |-> i, key |-> k, stage |-> IF cooldown[i] THEN "failed" ELSE "sent",
             value |-> NoValue, raced |-> FALSE]] /\ inflight' = [inflight EXCEPT ![i][k] = l]
    BY <1>1 DEF Miss
  <2>2. l \in Loads
    BY FreeLoadIsFree
  <2>3. load' \in [Loads -> RunningLoads \cup {NoLoad}]
    BY <2>1, <2>2 DEF CacheTypeOK, RunningLoads
  <2>4. inflight' \in [Instances -> [Keys -> Loads \cup {NoLoad}]]
    BY <2>1, <2>2 DEF CacheTypeOK
  <2>5. AnswersHaveValues'
    BY <2>1, <2>2 DEF CacheTypeOK, AnswersHaveValues, Running
  <2>6. QED
    BY <1>1, <2>3, <2>4, <2>5 DEF CacheTypeOK, Miss
<1>2. ASSUME NEW l \in Loads, QueryReads(l)
      PROVE  Types'
  <2>1. load[l] \in RunningLoads
    BY <1>2, RunningTyped DEF QueryReads, Running
  <2>2. load' = [load EXCEPT ![l] = [load[l] EXCEPT !.stage = "read", !.value = row]]
    BY <1>2 DEF QueryReads
  <2>3. [load[l] EXCEPT !.stage = "read", !.value = row] \in RunningLoads
    BY <2>1 DEF CacheTypeOK, RunningLoads
  <2>4. load' \in [Loads -> RunningLoads \cup {NoLoad}]
    BY <2>2, <2>3 DEF CacheTypeOK
  <2>5. AnswersHaveValues'
    BY <2>1, <2>2 DEF CacheTypeOK, AnswersHaveValues, Running, RunningLoads
  <2>6. QED
    BY <1>2, <2>4, <2>5 DEF CacheTypeOK, QueryReads
<1>3. ASSUME NEW l \in Loads, QueryFails(l)
      PROVE  Types'
  <2>1. load[l] \in RunningLoads
    BY <1>3, RunningTyped DEF QueryFails, Running
  <2>2. load' = [load EXCEPT ![l] = [load[l] EXCEPT !.stage = "failed", !.value = NoValue, !.raced = FALSE]]
    BY <1>3 DEF QueryFails
  <2>3. [load[l] EXCEPT !.stage = "failed", !.value = NoValue, !.raced = FALSE] \in RunningLoads
    BY <2>1 DEF RunningLoads
  <2>4. load' \in [Loads -> RunningLoads \cup {NoLoad}]
    BY <2>2, <2>3 DEF CacheTypeOK
  <2>5. AnswersHaveValues'
    BY <2>1, <2>2 DEF CacheTypeOK, AnswersHaveValues, Running, RunningLoads
  <2>6. cooldown' \in [Instances -> BOOLEAN]
    BY <1>3, <2>1 DEF CacheTypeOK, QueryFails, RunningLoads
  <2>7. QED
    BY <1>3, <2>4, <2>5, <2>6 DEF CacheTypeOK, QueryFails
<1>4. ASSUME NEW l \in Loads, QueryAnswers(l)
      PROVE  Types'
  <2>1. Running(l) /\ load[l].value \in Versions
    BY <1>4 DEF QueryAnswers, AnswersHaveValues, Running
  <2>2. load[l].value # NoValue
    BY <2>1, CacheAssumption DEF Versions
  <2>3. QED
    BY <1>4, <2>1, <2>2, StoreTypes DEF QueryAnswers
<1>5. ASSUME NEW l \in Loads, FallBack(l)
      PROVE  Types'
  <2>1. row \in Versions /\ row # NoValue
    BY CacheAssumption DEF CacheTypeOK, Versions
  <2>2. QED
    BY <1>5, <2>1, StoreTypes DEF FallBack, Running
<1>6. ASSUME NEW i \in Instances, Write(i)
      PROVE  Types'
  <2>1. row' \in Versions /\ written' \in [Instances -> Versions]
    BY <1>6, CacheAssumption DEF CacheTypeOK, Write, Versions
  <2>2. cache' = [cache EXCEPT ![i] = [k \in Keys |-> IF k \in Evicted(i) THEN NoEntry ELSE cache[i][k]]]
    BY <1>6 DEF Write
  <2>3. inflight' = [inflight EXCEPT ![i] = [k \in Keys |-> IF k \in Evicted(i) THEN NoLoad ELSE inflight[i][k]]]
    BY <1>6 DEF Write
  <2>4. cache' \in [Instances -> [Keys -> Entries \cup {NoEntry}]]
    BY <2>2 DEF CacheTypeOK
  <2>5. inflight' \in [Instances -> [Keys -> Loads \cup {NoLoad}]]
    BY <2>3 DEF CacheTypeOK
  <2>6. \A m \in Loads : load[m] # NoLoad => [load[m] EXCEPT !.raced = TRUE] \in RunningLoads
    BY DEF CacheTypeOK, RunningLoads
  <2>7. load' \in [Loads -> RunningLoads \cup {NoLoad}]
    BY <1>6, <2>6 DEF CacheTypeOK, Write
  <2>8. AnswersHaveValues'
    BY <1>6 DEF CacheTypeOK, AnswersHaveValues, Running, Write, RunningLoads
  <2>9. QED
    BY <1>6, <2>1, <2>2, <2>4, <2>5, <2>7, <2>8 DEF CacheTypeOK, Write
<1>7. ASSUME NEW i \in Instances, NEW k \in Keys, Expire(i, k)
      PROVE  Types'
  <2>1. cache[i][k] \in Entries /\ cache[i][k] # NoEntry
    BY <1>7 DEF CacheTypeOK, Expire, Live
  <2>2. cache' = [cache EXCEPT ![i][k] = [cache[i][k] EXCEPT !.expired = TRUE]]
    BY <1>7 DEF Expire
  <2>3. [cache[i][k] EXCEPT !.expired = TRUE] \in Entries
        /\ [cache[i][k] EXCEPT !.expired = TRUE].value = cache[i][k].value
    BY <2>1 DEF Entries
  <2>4. cache' \in [Instances -> [Keys -> Entries \cup {NoEntry}]]
    BY <2>2, <2>3 DEF CacheTypeOK
  <2>5. \A j \in Instances, n \in Keys :
          cache'[j][n] # NoEntry => (FallsBack[n] => cache'[j][n].value # NoValue)
    BY <2>1, <2>2, <2>3 DEF CacheTypeOK
  <2>6. QED
    BY <1>7, <2>4, <2>5 DEF CacheTypeOK, Expire, AnswersHaveValues, Running
<1>8. ASSUME NEW i \in Instances, CooldownEnds(i)
      PROVE  Types'
  BY <1>8 DEF CacheTypeOK, CooldownEnds, AnswersHaveValues, Running
<1>9. ASSUME NEW i \in Instances, Restart(i)
      PROVE  Types'
  <2>1. cache' \in [Instances -> [Keys -> Entries \cup {NoEntry}]]
    BY <1>9 DEF CacheTypeOK, Restart
  <2>2. inflight' \in [Instances -> [Keys -> Loads \cup {NoLoad}]]
    BY <1>9 DEF CacheTypeOK, Restart
  <2>3. load' \in [Loads -> RunningLoads \cup {NoLoad}]
    BY <1>9 DEF CacheTypeOK, Restart
  <2>4. \A j \in Instances, n \in Keys :
          cache'[j][n] # NoEntry => (FallsBack[n] => cache'[j][n].value # NoValue)
    BY <1>9 DEF CacheTypeOK, Restart
  <2>5. AnswersHaveValues'
    BY <1>9 DEF CacheTypeOK, Restart, AnswersHaveValues, Running
  <2>6. QED
    BY <1>9, <2>1, <2>2, <2>3, <2>4, <2>5 DEF CacheTypeOK, Restart
<1>10. CASE UNCHANGED cacheVars
  BY <1>10 DEF cacheVars, CacheTypeOK, AnswersHaveValues, Running
<1>11. ASSUME NEW l \in Loads, Rejects(l)
       PROVE  Types'
  <2>1. load[l].inst \in Instances /\ load[l].key \in Keys
    BY <1>11, RunningTyped DEF Rejects, Running
  <2>2. load' = [load EXCEPT ![l] = NoLoad]
        /\ inflight' = [inflight EXCEPT ![load[l].inst][load[l].key] = NoLoad]
        /\ UNCHANGED <<row, written, cache, cooldown>>
    BY <1>11 DEF Rejects
  <2>3. inflight' \in [Instances -> [Keys -> Loads \cup {NoLoad}]]
    BY <2>1, <2>2 DEF CacheTypeOK
  <2>4. load' \in [Loads -> RunningLoads \cup {NoLoad}] /\ AnswersHaveValues'
    BY <2>2 DEF CacheTypeOK, AnswersHaveValues, Running
  <2>5. QED
    BY <2>2, <2>3, <2>4 DEF CacheTypeOK
<1>12. QED
  BY <1>1, <1>2, <1>3, <1>4, <1>5, <1>6, <1>7, <1>8, <1>9, <1>10, <1>11 DEF CacheNext, LoadStep

\* Every map and every load keeps its type, and a cached null stands only
\* where the caller of cachedFrontendRead knows how to fall back.
THEOREM CacheTypesHold == CacheSpec => []CacheTypeOK
<1>1. CacheSpec => []Types
  BY InitTypes, TypesStep, PTL DEF CacheSpec
<1>2. Types => CacheTypeOK
  BY DEF Types
<1>3. QED
  BY <1>1, <1>2, PTL

-----------------------------------------------------------------------------
\* The in-flight map.

LEMMA StoreInflight ==
  ASSUME Types, InflightRuns, NEW l \in Loads, Running(l), NEW value, Store(l, value)
  PROVE  InflightRuns'
<1>1. load[l].inst \in Instances /\ load[l].key \in Keys
  BY RunningTyped DEF Types
<1>2. /\ inflight' = [inflight EXCEPT ![load[l].inst][load[l].key] = NoLoad]
      /\ load' = [load EXCEPT ![l] = NoLoad]
  BY DEF Store
<1>3. QED
  BY <1>1, <1>2 DEF Types, CacheTypeOK, InflightRuns

LEMMA InflightStep == Types /\ InflightRuns /\ [CacheNext]_cacheVars => InflightRuns'
<1> SUFFICES ASSUME Types, InflightRuns, [CacheNext]_cacheVars PROVE InflightRuns'
  OBVIOUS
<1> USE DEF Types
<1>1. ASSUME NEW i \in Instances, NEW k \in Keys, Miss(i, k)
      PROVE  InflightRuns'
  <2> DEFINE started == [inst |-> i, key |-> k, stage |-> IF cooldown[i] THEN "failed" ELSE "sent",
                         value |-> NoValue, raced |-> FALSE]
  <2>1. PICK l \in FreeLoad :
          load' = [load EXCEPT ![l] = started] /\ inflight' = [inflight EXCEPT ![i][k] = l]
    BY <1>1 DEF Miss
  <2>2. l \in Loads /\ load[l] = NoLoad
    BY FreeLoadIsFree
  <2>3. started \in RunningLoads
    BY DEF RunningLoads
  <2>4. started # NoLoad
    BY <2>3, CacheAssumption
  <2>5. QED
    BY <2>1, <2>2, <2>4 DEF CacheTypeOK, InflightRuns
<1>2. ASSUME NEW l \in Loads, QueryReads(l) \/ QueryFails(l)
      PROVE  InflightRuns'
  <2>1. load[l] \in RunningLoads
    BY <1>2, RunningTyped DEF QueryReads, QueryFails, Running
  <2>2. PICK next \in RunningLoads :
          load' = [load EXCEPT ![l] = next] /\ next.inst = load[l].inst /\ next.key = load[l].key
    <3>1. CASE QueryReads(l)
      <4>1. [load[l] EXCEPT !.stage = "read", !.value = row] \in RunningLoads
        BY <2>1 DEF CacheTypeOK, RunningLoads
      <4>2. QED
        BY <3>1, <2>1, <4>1 DEF QueryReads, RunningLoads
    <3>2. CASE QueryFails(l)
      <4>1. [load[l] EXCEPT !.stage = "failed", !.value = NoValue, !.raced = FALSE] \in RunningLoads
        BY <2>1 DEF RunningLoads
      <4>2. QED
        BY <3>2, <2>1, <4>1 DEF QueryFails, RunningLoads
    <3>3. QED
      BY <1>2, <3>1, <3>2
  <2>3. inflight' = inflight
    BY <1>2 DEF QueryReads, QueryFails
  <2>4. QED
    BY <2>2, <2>3, CacheAssumption DEF CacheTypeOK, InflightRuns
<1>3. ASSUME NEW l \in Loads, QueryAnswers(l) \/ FallBack(l)
      PROVE  InflightRuns'
  BY <1>3, StoreInflight DEF QueryAnswers, FallBack, Running
<1>4. ASSUME NEW l \in Loads, Rejects(l)
      PROVE  InflightRuns'
  <2>1. load[l].inst \in Instances /\ load[l].key \in Keys
    BY <1>4, RunningTyped DEF Rejects, Running
  <2>2. QED
    BY <1>4, <2>1 DEF CacheTypeOK, InflightRuns, Rejects
<1>5. ASSUME NEW i \in Instances, Write(i)
      PROVE  InflightRuns'
  <2>1. \A l \in Loads : Running(l) =>
          /\ load'[l] # NoLoad
          /\ load'[l].inst = load[l].inst /\ load'[l].key = load[l].key
    <3>1. SUFFICES ASSUME NEW l \in Loads, Running(l)
                   PROVE  /\ load'[l] # NoLoad
                          /\ load'[l].inst = load[l].inst /\ load'[l].key = load[l].key
      OBVIOUS
    <3>2. load[l] \in RunningLoads
      BY <3>1, RunningTyped
    <3>3. [load[l] EXCEPT !.raced = TRUE] \in RunningLoads
      BY <3>2 DEF RunningLoads
    <3>4. QED
      BY <1>5, <3>1, <3>2, <3>3, CacheAssumption DEF Write, Running, RunningLoads
  <2>2. \A j \in Instances, k \in Keys : inflight'[j][k] \in {inflight[j][k], NoLoad}
    BY <1>5 DEF CacheTypeOK, Write
  <2>3. QED
    BY <2>1, <2>2 DEF CacheTypeOK, InflightRuns, Running
<1>6. ASSUME NEW i \in Instances, Restart(i)
      PROVE  InflightRuns'
  BY <1>6 DEF CacheTypeOK, InflightRuns, Restart
<1>7. CASE \E i \in Instances : CooldownEnds(i) \/ \E k \in Keys : Expire(i, k)
  BY <1>7 DEF CooldownEnds, Expire, InflightRuns
<1>8. CASE UNCHANGED cacheVars
  BY <1>8 DEF cacheVars, InflightRuns
<1>9. QED
  BY <1>1, <1>2, <1>3, <1>5, <1>6, <1>7, <1>8, <1>4 DEF CacheNext, LoadStep

\* A request never joins a load that is over, or another key's.
THEOREM JoinsRunningLoads == CacheSpec => []InflightRuns
<1>1. CacheInit => InflightRuns
  BY DEF CacheInit, InflightRuns
<1>2. QED
  BY <1>1, InitTypes, TypesStep, InflightStep, PTL DEF CacheSpec

-----------------------------------------------------------------------------
\* Freshness.

Fresh == AnswersAreFresh /\ StaleOnlyIfRaced

LEMMA StoreFresh ==
  ASSUME Types, Fresh, NEW l \in Loads, Running(l), NEW value \in Versions \cup {NoValue},
         value # NoValue /\ ~load[l].raced => value >= written[load[l].inst],
         Store(l, value)
  PROVE  Fresh'
<1>1. load[l].inst \in Instances /\ load[l].key \in Keys
  BY RunningTyped DEF Types
<1>2. cache' = [cache EXCEPT ![load[l].inst][load[l].key] =
                  [value |-> value, expired |-> FALSE, raced |-> load[l].raced]]
  BY DEF Store
<1>3. StaleOnlyIfRaced'
  BY <1>1, <1>2 DEF Types, CacheTypeOK, Fresh, StaleOnlyIfRaced, Store
<1>4. AnswersAreFresh'
  BY DEF Types, CacheTypeOK, Fresh, AnswersAreFresh, Running, Store
<1>5. QED
  BY <1>3, <1>4 DEF Fresh

LEMMA FreshStep == Types /\ Fresh /\ [CacheNext]_cacheVars => Fresh'
<1> SUFFICES ASSUME Types, Fresh, [CacheNext]_cacheVars PROVE Fresh'
  OBVIOUS
<1> USE DEF Types, Fresh
<1>1. ASSUME NEW i \in Instances, NEW k \in Keys, Miss(i, k)
      PROVE  Fresh'
  <2>1. PICK l \in FreeLoad :
          load' = [load EXCEPT ![l] =
            [inst |-> i, key |-> k, stage |-> IF cooldown[i] THEN "failed" ELSE "sent",
             value |-> NoValue, raced |-> FALSE]]
    BY <1>1 DEF Miss
  <2>2. AnswersAreFresh'
    BY <1>1, <2>1 DEF CacheTypeOK, AnswersAreFresh, Running, Miss
  <2>3. QED
    BY <1>1, <2>2 DEF StaleOnlyIfRaced, Miss
<1>2. ASSUME NEW l \in Loads, QueryReads(l)
      PROVE  Fresh'
  <2>1. load[l] \in RunningLoads
    BY <1>2, RunningTyped DEF QueryReads, Running
  <2>2. load' = [load EXCEPT ![l] = [load[l] EXCEPT !.stage = "read", !.value = row]]
    BY <1>2 DEF QueryReads
  <2>3. written[load[l].inst] <= row
    BY <2>1 DEF AnswersAreFresh, RunningLoads
  <2>4. row \in Nat /\ \A j \in Instances : written[j] \in Nat
    BY CacheAssumption DEF CacheTypeOK, Versions
  <2>5. AnswersAreFresh'
    BY <1>2, <2>1, <2>2, <2>3, <2>4 DEF CacheTypeOK, AnswersAreFresh, Running, QueryReads, RunningLoads
  <2>6. QED
    BY <1>2, <2>5 DEF StaleOnlyIfRaced, QueryReads
<1>3. ASSUME NEW l \in Loads, QueryFails(l)
      PROVE  Fresh'
  <2>1. load[l] \in RunningLoads
    BY <1>3, RunningTyped DEF QueryFails, Running
  <2>2. load' = [load EXCEPT ![l] = [load[l] EXCEPT !.stage = "failed", !.value = NoValue, !.raced = FALSE]]
    BY <1>3 DEF QueryFails
  <2>3. AnswersAreFresh'
    BY <1>3, <2>1, <2>2 DEF CacheTypeOK, AnswersAreFresh, Running, QueryFails, RunningLoads
  <2>4. QED
    BY <1>3, <2>3 DEF StaleOnlyIfRaced, QueryFails
<1>4. ASSUME NEW l \in Loads, QueryAnswers(l)
      PROVE  Fresh'
  <2>1. Running(l) /\ load[l].value \in Versions
    BY <1>4 DEF QueryAnswers, AnswersHaveValues, Running
  <2>2. ~load[l].raced => load[l].value >= written[load[l].inst]
    BY <1>4, <2>1 DEF AnswersAreFresh, QueryAnswers
  <2>3. QED
    BY <1>4, <2>1, <2>2, StoreFresh DEF QueryAnswers
<1>5. ASSUME NEW l \in Loads, FallBack(l)
      PROVE  Fresh'
  <2>1. Running(l) /\ row \in Versions
    BY <1>5 DEF FallBack, CacheTypeOK, Running
  <2>2. row >= written[load[l].inst]
    <3>1. load[l].inst \in Instances
      BY <2>1, RunningTyped
    <3>2. row \in Nat /\ written[load[l].inst] \in Nat
      BY <3>1, CacheAssumption DEF CacheTypeOK, Versions
    <3>3. QED
      BY <3>1, <3>2 DEF AnswersAreFresh
  <2>3. QED
    BY <1>5, <2>1, <2>2, StoreFresh DEF FallBack
<1>6. ASSUME NEW i \in Instances, Write(i)
      PROVE  Fresh'
  <2>1. row \in Nat /\ \A j \in Instances : written[j] \in Nat
    BY CacheAssumption DEF CacheTypeOK, Versions
  <2>2. row' = row + 1 /\ written' = [written EXCEPT ![i] = row + 1]
    BY <1>6 DEF Write
  <2>3. \A j \in Instances : written'[j] <= row'
    BY <2>1, <2>2 DEF CacheTypeOK, AnswersAreFresh
  <2>4. ASSUME NEW l \in Loads, load'[l] # NoLoad, load'[l].stage = "read", ~load'[l].raced
        PROVE  load'[l].value >= written'[load'[l].inst]
    <3>1. load'[l] = load[l]
      <4>1. CASE load[l] # NoLoad /\ load[l].inst = i /\ load[l].stage = "read"
        <5>1. load'[l] = [load[l] EXCEPT !.raced = TRUE]
          BY <1>6, <4>1 DEF Write
        <5>2. load[l] \in RunningLoads
          BY <4>1, RunningTyped DEF Running
        <5>3. QED
          BY <2>4, <5>1, <5>2 DEF RunningLoads
      <4>2. QED
        BY <1>6, <4>1 DEF Write
    <3>2. load[l].inst # i
      <4>1. SUFFICES ASSUME load[l].inst = i PROVE FALSE
        OBVIOUS
      <4>2. load'[l] = [load[l] EXCEPT !.raced = TRUE]
        BY <1>6, <2>4, <3>1, <4>1 DEF Write
      <4>3. load[l] \in RunningLoads
        BY <2>4, <3>1, RunningTyped DEF Running
      <4>4. QED
        BY <2>4, <4>2, <4>3 DEF RunningLoads
    <3>3. load[l].inst \in Instances
      BY <2>4, <3>1, RunningTyped DEF Running
    <3>4. QED
      BY <2>2, <2>4, <3>1, <3>2, <3>3 DEF CacheTypeOK, AnswersAreFresh, Running
  <2>5. AnswersAreFresh'
    BY <2>3, <2>4 DEF AnswersAreFresh, Running
  <2>6. \A k \in Keys : cache'[i][k] = NoEntry
    BY <1>6 DEF CacheTypeOK, Write, Evicted
  <2>7. \A j \in Instances \ {i} : cache'[j] = cache[j] /\ written'[j] = written[j]
    BY <1>6, <2>2 DEF CacheTypeOK, Write
  <2>8. StaleOnlyIfRaced'
    BY <2>6, <2>7 DEF StaleOnlyIfRaced
  <2>9. QED
    BY <2>5, <2>8
<1>7. ASSUME NEW i \in Instances, NEW k \in Keys, Expire(i, k)
      PROVE  Fresh'
  <2>1. cache[i][k] \in Entries /\ cache[i][k] # NoEntry
    BY <1>7 DEF CacheTypeOK, Expire, Live
  <2>2. cache' = [cache EXCEPT ![i][k] = [cache[i][k] EXCEPT !.expired = TRUE]]
    BY <1>7 DEF Expire
  <2>3. /\ [cache[i][k] EXCEPT !.expired = TRUE].value = cache[i][k].value
        /\ [cache[i][k] EXCEPT !.expired = TRUE].raced = cache[i][k].raced
    BY <2>1 DEF Entries
  <2>4. StaleOnlyIfRaced'
    BY <1>7, <2>1, <2>2, <2>3 DEF CacheTypeOK, StaleOnlyIfRaced, Expire
  <2>5. QED
    BY <1>7, <2>4 DEF AnswersAreFresh, Running, Expire
<1>8. ASSUME NEW i \in Instances, Restart(i)
      PROVE  Fresh'
  <2>1. StaleOnlyIfRaced'
    BY <1>8 DEF CacheTypeOK, StaleOnlyIfRaced, Restart
  <2>2. AnswersAreFresh'
    BY <1>8 DEF CacheTypeOK, AnswersAreFresh, Running, Restart
  <2>3. QED
    BY <2>1, <2>2
<1>9. CASE UNCHANGED cacheVars \/ \E i \in Instances : CooldownEnds(i)
  BY <1>9 DEF cacheVars, CooldownEnds, AnswersAreFresh, StaleOnlyIfRaced, Running
<1>10. ASSUME NEW l \in Loads, Rejects(l)
       PROVE  Fresh'
  <2>1. AnswersAreFresh'
    BY <1>10 DEF CacheTypeOK, AnswersAreFresh, Running, Rejects
  <2>2. QED
    BY <1>10, <2>1 DEF StaleOnlyIfRaced, Rejects
<1>11. QED
  BY <1>1, <1>2, <1>3, <1>4, <1>5, <1>6, <1>7, <1>8, <1>9, <1>10 DEF CacheNext, LoadStep

\* An instance keeps an entry older than what it wrote itself only if the
\* answer to that entry's query was under way when the write evicted.
THEOREM OnlyRacedEntriesAreStale == CacheSpec => []StaleOnlyIfRaced
<1>1. CacheInit => Fresh
  BY CacheAssumption DEF CacheInit, Fresh, AnswersAreFresh, StaleOnlyIfRaced, Running
<1>2. Fresh => StaleOnlyIfRaced
  BY DEF Fresh
<1>3. QED
  BY <1>1, <1>2, InitTypes, TypesStep, FreshStep, PTL DEF CacheSpec

-----------------------------------------------------------------------------
(***************************************************************************)
(* The synchronous bridge.                                                 *)
(***************************************************************************)
Elems(s) == {s[i] : i \in 1..Len(s)}

\* Each element of s stands in relation R to all that follow.
Follows(s, R) == \A i, j \in 1..Len(s) : i < j => <<s[i], s[j]>> \in R

-----------------------------------------------------------------------------
\* The invariant of every behaviour, strayed or not.

Posted == [id : Nat \ {0}, kind : Kinds, write : (1..MaxTasks) \X {0, 1, 2, 9}]

Handlers ==
  [id : Nat \ {0}, kind : Kinds, write : (1..MaxTasks) \X {0, 1, 2, 9},
   at : {"connect", "client", "pool"}, conn : Conns \cup {NoConn}]

ConnsOf == [held : BOOLEAN, queue : Seq(Posted), tx : (SUBSET AllWrites) \cup {NoTx}, aborted : BOOLEAN]

Earlier == {p \in Posted \X Posted : p[1].id < p[2].id}
Different == {p \in Posted \X Posted : p[1].id # p[2].id}

Wire == Elems(channel)
Sent(c) == Elems(conn[c].queue)

\* The messages that were posted and not answered yet.
Pending == Wire \cup {Message(h) : h \in handlers}

MainTyped ==
  /\ pc \in {"idle", "begin", "write1", "write2", "commit", "rollback", "single"}
  /\ task \in 0..MaxTasks /\ (pc # "idle" => task > 0)
  /\ nextId \in Nat \ {0}
  /\ waiting \in {0, nextId - 1} /\ answer \in {"none", "ok", "error", "lost"}
  /\ answer # "none" => waiting # 0
  /\ waiting # 0 => pc # "idle"
  /\ bridgeError \in BOOLEAN /\ strayed \in BOOLEAN
  /\ promised \subseteq AllWrites
  /\ unsure \subseteq refused /\ refused \subseteq 1..MaxTasks

WorkerTyped ==
  /\ worker \in {"up", "none", "dead"}
  /\ channel \in Seq(Posted) /\ handlers \subseteq Handlers
  /\ client \in Conns \cup {NoConn}
  /\ conn \in [Conns -> ConnsOf]
  /\ db \subseteq AllWrites
  /\ \A m \in Pending : m.id < nextId /\ (m.kind = "query" => m.write[2] # 9)

\* The worker takes the messages in the order they were posted in.
InOrder ==
  /\ \A h, g \in handlers : h.id = g.id => h = g
  /\ Follows(channel, Earlier)
  /\ \A h \in handlers, m \in Wire : h.id < m.id

\* Every statement that was sent on a connection has a handler that awaits it.
Queued ==
  /\ \A c \in Conns : Follows(conn[c].queue, Different)
  /\ \A c \in Conns : \A m \in Sent(c) : \E h \in handlers : h.conn = c /\ Message(h) = m
  /\ \A h \in handlers :
       IF h.at = "connect" THEN h.conn = NoConn
       ELSE h.conn \in Conns /\ Message(h) \in Sent(h.conn)
  /\ \A h \in handlers :
       /\ h.at = "pool" => h.kind = "query"
       /\ h.at = "connect" => h.kind \in {"query", "begin"}

\* A worker that is not up has left nothing behind, and the main thread does
\* not wait for an answer of no worker.
NoWorker ==
  /\ worker # "up" => /\ channel = <<>> /\ handlers = {} /\ client = NoConn
                      /\ conn = [c \in Conns |-> NewConn]
  /\ worker = "none" => waiting = 0 /\ pc \in {"idle", "begin", "single"}

Base == MainTyped /\ WorkerTyped /\ InOrder /\ Queued /\ NoWorker

\* The deaths of workers, and what the abandoned ones may still do.
Deaths ==
  /\ crashes \in 0..MaxCrashes /\ exits \in 0..crashes /\ errors \in 0..exits
  /\ adrift \subseteq AllWrites

-----------------------------------------------------------------------------
\* What holds as long as nothing has strayed.

\* A statement that is all its task does.
Solo(m) == m.kind = "query" /\ m.write[2] = 0

\* The statements of transactions are run in the order they were posted in.
Lined == {p \in Posted \X Posted : Solo(p[1]) \/ Solo(p[2]) \/ p[1].id < p[2].id}

T1 == <<task, 1>>
T2 == <<task, 2>>
CommitPending == \E m \in Pending : m.kind = "commit"

\* Which messages may be pending: the one the main thread waits for, single
\* statements that were late, and the last ones of a transaction that is about
\* to be rolled back.
PendingOK ==
  /\ \A m \in Pending : m.id = waiting => answer = "none" /\ m.kind = Kind(pc) /\ m.write = WriteOf(pc)
  /\ \A m \in Pending : Solo(m) => m.write[1] \in unsure \/ m.id = waiting
  /\ \A m \in Pending : ~Solo(m) /\ m.id # waiting =>
        pc = "rollback" /\ task \in unsure /\ m.kind \in {"query", "commit"}
  /\ \A m, n \in Pending : m.kind = "commit" /\ ~Solo(n) => n = m \/ n.kind = "rollback"

\* Only the connection of the transaction has one open, and a connection that
\* is checked out has a user.
ConnsOK ==
  /\ client # NoConn => conn[client].held
  /\ \A c \in Conns \ {client} :
       /\ conn[c].tx = NoTx /\ ~conn[c].aborted
       /\ conn[c].held => \E h \in handlers : h.at = "pool" /\ h.conn = c
  /\ \A c \in Conns : Follows(conn[c].queue, Lined)

\* Who uses which connection.
UsersOK ==
  /\ \A h \in handlers : h.at = "pool" => Solo(h) /\ h.conn # client /\ conn[h.conn].held
  /\ \A h, g \in handlers : h.at = "pool" /\ g.at = "pool" /\ h.conn = g.conn => h = g
  /\ \A h \in handlers : h.at = "client" =>
        ~Solo(h) /\ (h.conn = client \/ (client = NoConn /\ h.kind = "rollback"))
  /\ \A h \in handlers : h.at = "connect" => Solo(h) \/ (h.kind = "begin" /\ client = NoConn)
  /\ \A m \in Wire :
       /\ Solo(m) \/ m.kind = "begin" => client = NoConn
       /\ m.kind \in {"query", "commit"} /\ ~Solo(m) => client # NoConn

\* Where the main thread is and what the transaction has done.
TxOK ==
  /\ pc \in {"idle", "single"} \/ (pc = "begin" /\ waiting = 0) => client = NoConn
  /\ pc \in {"begin", "commit", "rollback"} /\ answer = "error" => client = NoConn
  /\ pc \in {"commit", "rollback"} /\ answer # "none" => client = NoConn
  /\ answer = "lost" => pc \in {"single", "rollback"}
  /\ worker = "up" /\ (\/ pc \in {"write1", "write2"}
                       \/ pc = "commit" /\ answer = "none"
                       \/ pc = "begin" /\ answer = "ok") => client # NoConn
  /\ client # NoConn =>
       /\ pc = "begin" => conn[client].tx = (IF answer = "ok" THEN {} ELSE NoTx) /\ ~conn[client].aborted
       /\ pc = "write1" /\ answer # "error" =>
            conn[client].tx = (IF answer = "ok" THEN {T1} ELSE {}) /\ ~conn[client].aborted
       /\ pc = "write2" /\ answer # "error" =>
            conn[client].tx = (IF answer = "ok" THEN {T1, T2} ELSE {T1}) /\ ~conn[client].aborted
       /\ pc = "commit" \/ CommitPending => conn[client].tx = {T1, T2} /\ ~conn[client].aborted
       /\ pc \in {"write1", "write2", "rollback"} => conn[client].tx # NoTx

DataOK ==
  /\ promised \subseteq db
  /\ \A w \in db : w[1] <= task
  /\ \A t \in 1..MaxTasks : <<t, 1>> \in db <=> <<t, 2>> \in db
  /\ \A t \in refused \ unsure, n \in 0..2 : <<t, n>> \notin db
  /\ \A t \in refused : t <= task
  /\ pc \notin {"idle", "rollback"} => task \notin refused
  /\ pc = "rollback" => task \in refused
  /\ \/ pc \in {"idle", "rollback"} \/ (answer = "ok" /\ pc \in {"commit", "single"})
     \/ (answer = "lost" /\ pc = "single") \/ (answer = "none" /\ worker = "dead")
     \/ \A n \in 0..2 : <<task, n>> \notin db
  /\ answer = "ok" /\ pc = "commit" => {T1, T2} \subseteq db
  /\ answer = "ok" /\ pc = "single" => <<task, 0>> \in db

Clean == PendingOK /\ ConnsOK /\ UsersOK /\ TxOK /\ DataOK

\* An abandoned worker has only single statements, of tasks that threw.
AdriftOK == \A w \in adrift : \E t \in unsure : w = <<t, 0>>

BridgeInv == Base /\ Deaths /\ (strayed \/ (Clean /\ AdriftOK))

-----------------------------------------------------------------------------
\* Sequences.

\* What Append adds.
LEMMA Appended ==
  ASSUME NEW s \in Seq(Posted), NEW e \in Posted
  PROVE  /\ Append(s, e) \in Seq(Posted)
         /\ Elems(Append(s, e)) = Elems(s) \cup {e}
<1>1. PICK n \in Nat : n = Len(s) /\ Len(Append(s, e)) = n + 1
  OBVIOUS
<1>2. \A i \in 1..n : Append(s, e)[i] = s[i]
  BY <1>1
<1>3. Append(s, e)[n + 1] = e
  BY <1>1
<1>4. Append(s, e) \in Seq(Posted)
  OBVIOUS
<1>5. Elems(Append(s, e)) = Elems(s) \cup {e}
  <2>1. \A i \in 1..(n + 1) : i \in 1..n \/ i = n + 1
    OBVIOUS
  <2>2. \A i \in 1..n : i \in 1..(n + 1)
    OBVIOUS
  <2>3. n + 1 \in 1..(n + 1)
    OBVIOUS
  <2>4. ASSUME NEW x \in Elems(Append(s, e))
        PROVE  x \in Elems(s) \cup {e}
    BY <1>1, <1>2, <1>3, <2>1, <2>4 DEF Elems
  <2>5. ASSUME NEW x \in Elems(s) \cup {e}
        PROVE  x \in Elems(Append(s, e))
    BY <1>1, <1>2, <1>3, <2>2, <2>3, <2>5 DEF Elems
  <2>6. QED
    BY <2>4, <2>5
<1>6. QED
  BY <1>4, <1>5

LEMMA AppendedFollows ==
  ASSUME NEW s \in Seq(Posted), NEW e \in Posted, NEW R, Follows(s, R),
         \A x \in Elems(s) : <<x, e>> \in R
  PROVE  Follows(Append(s, e), R)
<1>1. PICK n \in Nat : n = Len(s) /\ Len(Append(s, e)) = n + 1
  OBVIOUS
<1>2. \A i \in 1..n : Append(s, e)[i] = s[i]
  BY <1>1
<1>3. Append(s, e)[n + 1] = e
  BY <1>1
<1> SUFFICES ASSUME NEW i \in 1..(n + 1), NEW j \in 1..(n + 1), i < j
             PROVE  <<Append(s, e)[i], Append(s, e)[j]>> \in R
  BY <1>1 DEF Follows
<1>4. i \in 1..n
  OBVIOUS
<1>5. CASE j = n + 1
  BY <1>1, <1>2, <1>3, <1>4, <1>5 DEF Elems
<1>6. CASE j # n + 1
  <2>1. j \in 1..n
    BY <1>6
  <2>2. QED
    BY <1>1, <1>2, <1>4, <2>1 DEF Follows
<1>7. QED
  BY <1>5, <1>6

\* What Tail leaves.
LEMMA Rest ==
  ASSUME NEW s \in Seq(Posted), s # <<>>
  PROVE  /\ Head(s) \in Posted /\ Tail(s) \in Seq(Posted)
         /\ Elems(s) = {Head(s)} \cup Elems(Tail(s))
<1>1. PICK n \in Nat : n = Len(Tail(s)) /\ Len(s) = n + 1
  BY HeadTailProperties, LenProperties
<1>2. \A i \in 1..n : Tail(s)[i] = s[i + 1]
  BY <1>1, HeadTailProperties
<1>3. Head(s) = s[1] /\ Head(s) \in Posted /\ Tail(s) \in Seq(Posted)
  BY HeadTailProperties
<1>4. \A i \in 1..(n + 1) : i = 1 \/ \E k \in 1..n : i = k + 1
  <2>1. ASSUME NEW i \in 1..(n + 1), i # 1
        PROVE  i - 1 \in 1..n /\ i = (i - 1) + 1
    BY <2>1
  <2>2. QED
    BY <2>1
<1>5. \A k \in 1..n : k + 1 \in 1..(n + 1) /\ 1 < k + 1
  OBVIOUS
<1>6. 1 \in 1..(n + 1)
  OBVIOUS
<1>7. Elems(s) = {Head(s)} \cup Elems(Tail(s))
  <2>1. ASSUME NEW x \in Elems(s)
        PROVE  x \in {Head(s)} \cup Elems(Tail(s))
    <3>1. PICK i \in 1..(n + 1) : x = s[i]
      BY <1>1, <2>1 DEF Elems
    <3>2. CASE i = 1
      BY <1>3, <3>1, <3>2
    <3>3. ASSUME NEW k \in 1..n, i = k + 1
          PROVE  x \in Elems(Tail(s))
      BY <1>1, <1>2, <3>1, <3>3 DEF Elems
    <3>4. QED
      BY <1>4, <3>2, <3>3
  <2>2. ASSUME NEW x \in {Head(s)} \cup Elems(Tail(s))
        PROVE  x \in Elems(s)
    BY <1>1, <1>2, <1>3, <1>5, <1>6 DEF Elems
  <2>3. QED
    BY <2>1, <2>2
<1>8. QED
  BY <1>3, <1>7

LEMMA RestFollows ==
  ASSUME NEW s \in Seq(Posted), s # <<>>, NEW R, Follows(s, R)
  PROVE  /\ Follows(Tail(s), R)
         /\ \A x \in Elems(Tail(s)) : <<Head(s), x>> \in R
<1>1. PICK n \in Nat : n = Len(Tail(s)) /\ Len(s) = n + 1
  BY HeadTailProperties, LenProperties
<1>2. \A i \in 1..n : Tail(s)[i] = s[i + 1]
  BY <1>1, HeadTailProperties
<1>3. Head(s) = s[1]
  BY HeadTailProperties
<1>4. Follows(Tail(s), R)
  <2> SUFFICES ASSUME NEW i \in 1..n, NEW j \in 1..n, i < j
               PROVE  <<Tail(s)[i], Tail(s)[j]>> \in R
    BY <1>1 DEF Follows
  <2>1. i + 1 \in 1..(n + 1) /\ j + 1 \in 1..(n + 1) /\ i + 1 < j + 1
    OBVIOUS
  <2>2. <<s[i + 1], s[j + 1]>> \in R
    BY <1>1, <2>1 DEF Follows
  <2>3. QED
    BY <1>2, <2>2
<1>5. ASSUME NEW k \in 1..n
      PROVE  <<s[1], s[k + 1]>> \in R
  <2>1. 1 \in 1..(n + 1) /\ k + 1 \in 1..(n + 1) /\ 1 < k + 1
    OBVIOUS
  <2>2. QED
    BY <1>1, <2>1 DEF Follows
<1>6. QED
  BY <1>1, <1>2, <1>3, <1>4, <1>5 DEF Elems

\* The elements of a sequence are in the set it is a sequence of.
LEMMA ElemsPosted ==
  ASSUME NEW s \in Seq(Posted)
  PROVE  Elems(s) \subseteq Posted /\ (s = <<>> => Elems(s) = {})
<1>1. \A n \in 1..Len(s) : s[n] \in Posted
  BY ElementOfSeq
<1>2. ASSUME s = <<>>
      PROVE  Elems(s) = {}
  <2>1. Len(s) = 0
    BY <1>2
  <2>2. QED
    BY <2>1 DEF Elems
<1>3. QED
  BY <1>1, <1>2 DEF Elems

LEMMA NoElements ==
  Elems(<<>>) = {} /\ \A R : Follows(<<>>, R)
<1>1. Len(<<>>) = 0
  OBVIOUS
<1>2. 1..0 = {}
  OBVIOUS
<1>3. QED
  BY <1>1, <1>2 DEF Elems, Follows

-----------------------------------------------------------------------------
\* Messages and handlers.

LEMMA HandlerTypes ==
  ASSUME NEW h \in Handlers
  PROVE  /\ Message(h) \in Posted
         /\ Message(h).id = h.id /\ Message(h).kind = h.kind /\ Message(h).write = h.write
         /\ Solo(Message(h)) <=> Solo(h)
BY DEF Handlers, Posted, Message, Solo

\* The handler of a message that has been taken off the channel.
Taken(m, at, c) == [id |-> m.id, kind |-> m.kind, write |-> m.write, at |-> at, conn |-> c]

LEMMA TakenTypes ==
  ASSUME NEW m \in Posted, NEW at \in {"connect", "client", "pool"}, NEW c \in Conns \cup {NoConn}
  PROVE  /\ Taken(m, at, c) \in Handlers /\ Message(Taken(m, at, c)) = m
         /\ Taken(m, at, c).id = m.id /\ Taken(m, at, c).kind = m.kind
         /\ Taken(m, at, c).write = m.write
         /\ Taken(m, at, c).at = at /\ Taken(m, at, c).conn = c
<1>1. Message(Taken(m, at, c)) = [id |-> m.id, kind |-> m.kind, write |-> m.write]
  BY DEF Taken, Message
<1>2. [id |-> m.id, kind |-> m.kind, write |-> m.write] = m
  BY DEF Posted
<1>3. QED
  BY <1>1, <1>2 DEF Taken, Handlers, Posted

\* The id tells pending messages apart.
LEMMA PendingIds ==
  ASSUME Base
  PROVE  /\ Pending \subseteq Posted
         /\ \A m, n \in Pending : m.id = n.id => m = n
         /\ \A m \in Pending : m.id \in Nat \ {0} /\ m.id < nextId
<1>1. Wire \subseteq Posted
  BY ElemsPosted DEF Base, WorkerTyped, Wire
<1>2. \A h \in handlers : Message(h) \in Posted /\ Message(h).id = h.id /\ h.id \in Nat
  BY HandlerTypes DEF Base, WorkerTyped, Handlers
<1>3. ASSUME NEW m \in Wire, NEW n \in Wire, m.id = n.id
      PROVE  m = n
  <2>1. PICK i \in 1..Len(channel), j \in 1..Len(channel) : m = channel[i] /\ n = channel[j]
    BY DEF Wire, Elems
  <2>2. PICK k \in Nat : k = Len(channel)
    BY DEF Base, WorkerTyped
  <2>3. i \in 1..k /\ j \in 1..k
    BY <2>2
  <2>4. m.id \in Nat /\ n.id \in Nat
    BY <1>1 DEF Posted
  <2>5. CASE i < j
    <3>1. <<m, n>> \in Earlier
      BY <2>1, <2>5 DEF Base, InOrder, Follows
    <3>2. m.id < n.id
      BY <3>1 DEF Earlier
    <3>3. QED
      BY <1>3, <2>4, <3>2
  <2>6. CASE j < i
    <3>1. <<n, m>> \in Earlier
      BY <2>1, <2>6 DEF Base, InOrder, Follows
    <3>2. n.id < m.id
      BY <3>1 DEF Earlier
    <3>3. QED
      BY <1>3, <2>4, <3>2
  <2>7. QED
    BY <2>1, <2>3, <2>5, <2>6
<1>4. ASSUME NEW h \in handlers, NEW n \in Wire
      PROVE  Message(h).id # n.id
  <2>1. h.id \in Nat /\ n.id \in Nat /\ h.id < n.id
    BY <1>1, <1>2 DEF Base, InOrder, Posted
  <2>2. QED
    BY <1>2, <2>1
<1>5. \A h, g \in handlers : Message(h).id = Message(g).id => h = g
  BY <1>2 DEF Base, InOrder
<1>6. QED
  BY <1>1, <1>2, <1>3, <1>4, <1>5 DEF Pending, Base, WorkerTyped, Posted

-----------------------------------------------------------------------------
\* The queues of the connections.

\* A statement is sent: its handler is g, which may take the place of one that
\* waited for a connection.
LEMMA SentKeepsQueued ==
  ASSUME Base, NEW c \in Conns, NEW g \in Handlers, NEW old,
         handlers' = (handlers \ {old}) \cup {g},
         g.conn = c, g.at # "connect", g.at = "pool" => g.kind = "query",
         \A h \in handlers \ {old} : h.id # g.id,
         old \in handlers => old.at = "connect",
         conn'[c].queue = Append(conn[c].queue, Message(g)),
         \A d \in Conns \ {c} : conn'[d].queue = conn[d].queue
  PROVE  Queued'
<1>1. Message(g) \in Posted /\ Message(g).id = g.id
  BY HandlerTypes
<1>2. conn[c].queue \in Seq(Posted)
  BY DEF Base, WorkerTyped, ConnsOf
<1>3. /\ Sent(c)' = Sent(c) \cup {Message(g)}
      /\ \A d \in Conns \ {c} : Sent(d)' = Sent(d)
  BY <1>1, <1>2, Appended DEF Sent
<1>4. ASSUME NEW d \in Conns, NEW m \in Sent(d)
      PROVE  \E h \in handlers \ {old} : h.conn = d /\ Message(h) = m
  <2>1. PICK h \in handlers : h.conn = d /\ Message(h) = m
    BY DEF Base, Queued
  <2>2. h # old
    BY <2>1, BridgeAssumption DEF Base, Queued
  <2>3. QED
    BY <2>1, <2>2
<1>5. ASSUME NEW x \in Sent(c)
      PROVE  <<x, Message(g)>> \in Different
  <2>1. PICK h \in handlers \ {old} : Message(h) = x
    BY <1>4
  <2>2. x \in Posted /\ x.id # g.id
    BY <2>1, HandlerTypes DEF Base, WorkerTyped
  <2>3. QED
    BY <1>1, <2>2 DEF Different
<1>6. ASSUME NEW d \in Conns
      PROVE  Follows(conn'[d].queue, Different)
  <2>1. Follows(conn[d].queue, Different)
    BY DEF Base, Queued
  <2>2. CASE d = c
    BY <1>1, <1>2, <1>5, <2>1, <2>2, AppendedFollows DEF Sent
  <2>3. QED
    BY <2>1, <2>2
<1>7. ASSUME NEW d \in Conns, NEW m \in Sent(d)'
      PROVE  \E h \in handlers' : h.conn = d /\ Message(h) = m
  BY <1>3, <1>4, <1>7
<1>8. ASSUME NEW h \in handlers'
      PROVE  /\ IF h.at = "connect" THEN h.conn = NoConn
                ELSE h.conn \in Conns /\ Message(h) \in Sent(h.conn)'
             /\ h.at = "pool" => h.kind = "query"
             /\ h.at = "connect" => h.kind \in {"query", "begin"}
  <2>1. CASE h = g
    BY <1>3, <2>1
  <2>2. CASE h \in handlers
    BY <1>3, <2>2 DEF Base, Queued
  <2>3. QED
    BY <2>1, <2>2
<1>9. QED
  BY <1>6, <1>7, <1>8 DEF Queued

\* A handler has its result and is gone.
LEMMA AnswerKeepsQueued ==
  ASSUME Base, NEW h \in handlers,
         handlers' = handlers \ {h},
         IF h.at = "connect" THEN \A d \in Conns : conn'[d].queue = conn[d].queue
         ELSE /\ conn[h.conn].queue # <<>> /\ Message(h) = Head(conn[h.conn].queue)
              /\ conn'[h.conn].queue = Tail(conn[h.conn].queue)
              /\ \A d \in Conns \ {h.conn} : conn'[d].queue = conn[d].queue
  PROVE  Queued'
<1>1. \A g \in handlers : Message(g) \in Posted /\ Message(g).id = g.id
  BY HandlerTypes DEF Base, WorkerTyped
<1>2. \A d \in Conns : conn[d].queue \in Seq(Posted)
  BY DEF Base, WorkerTyped, ConnsOf
<1>3. h.at # "connect" =>
        /\ h.conn \in Conns
        /\ Sent(h.conn) = {Message(h)} \cup Sent(h.conn)'
        /\ \A x \in Sent(h.conn)' : x.id # h.id
        /\ Follows(conn'[h.conn].queue, Different)
  <2> SUFFICES ASSUME h.at # "connect"
               PROVE  /\ h.conn \in Conns
                      /\ Sent(h.conn) = {Message(h)} \cup Sent(h.conn)'
                      /\ \A x \in Sent(h.conn)' : x.id # h.id
                      /\ Follows(conn'[h.conn].queue, Different)
    OBVIOUS
  <2>1. h.conn \in Conns /\ Follows(conn[h.conn].queue, Different)
    BY DEF Base, Queued
  <2>2. /\ Sent(h.conn) = {Message(h)} \cup Elems(Tail(conn[h.conn].queue))
        /\ Follows(Tail(conn[h.conn].queue), Different)
        /\ \A x \in Elems(Tail(conn[h.conn].queue)) : <<Message(h), x>> \in Different
    BY <1>2, <2>1, Rest, RestFollows DEF Sent
  <2>3. ASSUME NEW x \in Elems(Tail(conn[h.conn].queue))
        PROVE  x.id # h.id
    <3>1. <<Message(h), x>> \in Different
      BY <2>2
    <3>2. QED
      BY <1>1, <3>1 DEF Different
  <2>4. QED
    BY <2>1, <2>2, <2>3 DEF Sent
<1>4. \A d \in Conns : h.at = "connect" \/ d # h.conn => Sent(d)' = Sent(d)
  BY DEF Sent
<1>5. ASSUME NEW d \in Conns
      PROVE  Follows(conn'[d].queue, Different)
  <2>1. Follows(conn[d].queue, Different)
    BY DEF Base, Queued
  <2>2. QED
    BY <1>3, <2>1
<1>6. ASSUME NEW d \in Conns, NEW m \in Sent(d)'
      PROVE  \E g \in handlers' : g.conn = d /\ Message(g) = m
  <2>1. m \in Sent(d)
    BY <1>3, <1>4, <1>6
  <2>2. PICK g \in handlers : g.conn = d /\ Message(g) = m
    BY <2>1 DEF Base, Queued
  <2>3. g # h
    <3>1. CASE h.at = "connect"
      BY <2>2, <3>1, BridgeAssumption DEF Base, Queued
    <3>2. CASE h.at # "connect"
      <4>1. CASE d = h.conn
        BY <1>1, <1>3, <1>6, <2>2, <3>2, <4>1
      <4>2. QED
        BY <2>2, <4>1
    <3>3. QED
      BY <3>1, <3>2
  <2>4. QED
    BY <2>2, <2>3
<1>7. ASSUME NEW g \in handlers'
      PROVE  /\ IF g.at = "connect" THEN g.conn = NoConn
                ELSE g.conn \in Conns /\ Message(g) \in Sent(g.conn)'
             /\ g.at = "pool" => g.kind = "query"
             /\ g.at = "connect" => g.kind \in {"query", "begin"}
  <2>1. g \in handlers /\ g # h
    BY <1>7
  <2>2. Message(g) # Message(h)
    BY <1>1, <2>1 DEF Base, InOrder
  <2>3. QED
    BY <1>3, <1>4, <2>1, <2>2 DEF Base, Queued
<1>8. QED
  BY <1>5, <1>6, <1>7 DEF Queued

-----------------------------------------------------------------------------
\* The steps of the main thread keep the first part of the invariant.

LEMMA NewConnTypes == NewConn \in ConnsOf /\ NewConn.queue = <<>>
<1>1. <<>> \in Seq(Posted)
  BY EmptySeq
<1>2. NoTx \in (SUBSET AllWrites) \cup {NoTx}
  OBVIOUS
<1>3. ASSUME NEW Q, NEW T, <<>> \in Q, NoTx \in T
      PROVE  NewConn \in [held : BOOLEAN, queue : Q, tx : T, aborted : BOOLEAN]
  BY <1>3 DEF NewConn
<1>4. NewConn \in ConnsOf
  BY <1>1, <1>2, <1>3 DEF ConnsOf
<1>5. QED
  BY <1>4 DEF NewConn

LEMMA BaseHoldsAtFirst == Init => Base
<1> SUFFICES ASSUME Init
             PROVE  Base
  OBVIOUS
<1>1. Pending = {}
  BY NoElements DEF Init, Pending, Wire
<1>2. NewConn \in ConnsOf /\ NewConn.queue = <<>>
  BY NewConnTypes
<1>3. MainTyped
  <2>1. task \in 0..MaxTasks /\ nextId \in Nat \ {0} /\ waiting \in {0, nextId - 1}
    BY BridgeAssumption DEF Init
  <2>2. QED
    BY <2>1 DEF Init, MainTyped
<1>4. WorkerTyped
  BY <1>1, <1>2 DEF Init, WorkerTyped
<1>5. InOrder
  BY NoElements DEF Init, InOrder
<1>6. Queued
  BY <1>2, NoElements DEF Init, Queued, Sent
<1>7. NoWorker
  BY DEF Init, NoWorker
<1>8. QED
  BY <1>3, <1>4, <1>5, <1>6, <1>7 DEF Base

\* As long as the worker does nothing.
LEMMA IdleWorkerKeepsBase ==
  ASSUME Base, MainTyped', UNCHANGED <<channel, handlers, client, conn, db>>, nextId' = nextId,
         worker' = worker,
         worker' = "none" => waiting' = 0 /\ pc' \in {"idle", "begin", "single"}
  PROVE  Base'
<1>1. WorkerTyped'
  BY DEF Base, WorkerTyped, Pending, Wire
<1>2. InOrder' /\ Queued'
  BY DEF Base, InOrder, Queued, Wire, Sent
<1>3. NoWorker'
  BY DEF Base, NoWorker
<1>4. QED
  BY <1>1, <1>2, <1>3 DEF Base

LEMMA BeginKeepsBase ==
  ASSUME Base, NEW first \in {"begin", "single"}, Begin(first)
  PROVE  Base'
<1>1. MainTyped'
  BY BridgeAssumption DEF Base, MainTyped, Begin
<1>2. QED
  BY <1>1, IdleWorkerKeepsBase DEF Base, NoWorker, Begin, workerVars, dbVars

LEMMA SendKeepsBase ==
  ASSUME Base, Send
  PROVE  Base'
<1> DEFINE new == [id |-> nextId, kind |-> Kind(pc), write |-> WriteOf(pc)]
<1>1. /\ pc \in {"begin", "write1", "write2", "commit", "rollback", "single"}
      /\ task \in 1..MaxTasks /\ waiting = 0 /\ answer = "none"
      /\ nextId \in Nat \ {0} /\ nextId' = nextId + 1
  BY BridgeAssumption DEF Base, MainTyped, Send
<1>2. /\ new \in Posted /\ new.id = nextId
      /\ new.kind = "query" => new.write[2] # 9
  BY <1>1 DEF Kind, WriteOf, Posted, Kinds
<1>3. MainTyped'
  <2>1. /\ pc' \in {"idle", "begin", "write1", "write2", "commit", "rollback", "single"}
        /\ task' = task /\ promised' = promised
        /\ nextId' \in Nat \ {0} /\ waiting' \in {0, nextId' - 1} /\ answer' = "none"
        /\ waiting' # 0 => pc' # "idle"
        /\ bridgeError' = FALSE
    BY <1>1 DEF Send, Throw, Caught
  <2>2. strayed' \in BOOLEAN /\ unsure' \subseteq refused' /\ refused' \subseteq 1..MaxTasks
    BY <1>1 DEF Base, MainTyped, Send, Throw, Unanswered
  <2>3. QED
    BY <1>1, <2>1, <2>2 DEF Base, MainTyped
<1>4. /\ worker' \in {"up", "dead"} /\ (worker' = "dead" <=> worker = "dead")
      /\ worker = "dead" => channel' = channel
      /\ worker # "dead" => channel' = Append(channel, new)
      /\ UNCHANGED <<handlers, client, conn, db>>
  BY DEF Base, WorkerTyped, Send, dbVars
<1> HIDE DEF new
<1>5. \A m \in Pending : m \in Posted /\ m.id \in Nat /\ m.id < nextId
  BY PendingIds
<1>6. /\ channel' \in Seq(Posted)
      /\ Wire' = Wire \/ Wire' = Wire \cup {new}
      /\ Follows(channel', Earlier)
  <2>1. CASE worker = "dead"
    BY <1>4, <2>1 DEF Base, WorkerTyped, InOrder, Wire
  <2>2. CASE worker # "dead"
    <3>1. ASSUME NEW x \in Elems(channel)
          PROVE  <<x, new>> \in Earlier
      BY <1>2, <1>5 DEF Pending, Wire, Earlier
    <3>2. channel \in Seq(Posted) /\ Follows(channel, Earlier)
      BY DEF Base, WorkerTyped, InOrder
    <3>3. QED
      BY <1>2, <1>4, <2>2, <3>1, <3>2, Appended, AppendedFollows DEF Wire
  <2>3. QED
    BY <2>1, <2>2
<1>7. WorkerTyped'
  <2>1. Pending' \subseteq Pending \cup {new}
    BY <1>4, <1>6 DEF Pending
  <2>2. \A m \in Pending' : m.id < nextId' /\ (m.kind = "query" => m.write[2] # 9)
    BY <1>1, <1>2, <1>5, <2>1 DEF Base, WorkerTyped
  <2>3. QED
    BY <1>4, <1>6, <2>2 DEF Base, WorkerTyped
<1>8. InOrder'
  <2>1. \A h \in handlers : h.id < nextId /\ h.id \in Nat
    BY <1>5, HandlerTypes DEF Pending, Base, WorkerTyped
  <2>2. QED
    BY <1>2, <1>4, <1>6, <2>1 DEF Base, InOrder
<1>9. Queued'
  BY <1>4 DEF Base, Queued, Sent
<1>10. NoWorker'
  BY <1>4 DEF Base, NoWorker
<1>11. QED
  BY <1>3, <1>7, <1>8, <1>9, <1>10 DEF Base

LEMMA ReceiveKeepsBase ==
  ASSUME Base, Receive
  PROVE  Base'
<1>1. waiting # 0 /\ pc # "idle" /\ worker # "none" /\ task \in 1..MaxTasks
  BY BridgeAssumption DEF Base, MainTyped, NoWorker, Receive
<1>2. pc' \in {"idle", "write1", "write2", "commit", "rollback"}
  BY DEF Receive, After, Throw, Caught
<1>3. promised' \subseteq AllWrites
  BY <1>1 DEF Base, MainTyped, Receive, Writes, AllWrites
<1>4. MainTyped'
  BY <1>1, <1>2, <1>3 DEF Base, MainTyped, Receive, Throw
<1>5. QED
  BY <1>1, <1>4, IdleWorkerKeepsBase DEF Receive, workerVars, dbVars

LEMMA TimeoutKeepsBase ==
  ASSUME Base, Timeout
  PROVE  Base'
<1>1. waiting # 0 /\ pc # "idle" /\ worker # "none" /\ task \in 1..MaxTasks
  BY BridgeAssumption DEF Base, MainTyped, NoWorker, Timeout
<1>2. MainTyped'
  BY <1>1 DEF Base, MainTyped, Timeout, Throw, Unanswered, Caught
<1>3. QED
  BY <1>1, <1>2, IdleWorkerKeepsBase DEF Timeout, workerVars, dbVars

\* What the worker has is lost, or it is another one.
LEMMA EmptiedKeepsBase ==
  ASSUME Base, MainTyped', channel' = <<>>, handlers' = {}, client' = NoConn,
         conn' = [c \in Conns |-> NewConn], db' \subseteq AllWrites,
         worker' \in {"none", "dead"},
         worker' = "none" => waiting' = 0 /\ pc' \in {"idle", "begin", "single"}
  PROVE  Base'
<1>1. Pending' = {} /\ Wire' = {}
  BY NoElements DEF Pending, Wire
<1>2. NewConn \in ConnsOf /\ NewConn.queue = <<>>
  BY NewConnTypes
<1>3. WorkerTyped'
  BY <1>1, <1>2 DEF Base, WorkerTyped
<1>4. InOrder'
  BY <1>1, NoElements DEF InOrder
<1>5. Queued'
  BY <1>2, NoElements DEF Queued, Sent
<1>6. NoWorker'
  BY DEF NoWorker
<1>7. QED
  BY <1>3, <1>4, <1>5, <1>6 DEF Base

LEMMA ForgetKeepsBase ==
  ASSUME Base, Forget, bridgeError' \in BOOLEAN
  PROVE  Base'
<1>1. /\ pc = "idle" /\ client = NoConn /\ worker' = "none" /\ channel' = <<>> /\ handlers' = {}
      /\ conn' = [c \in Conns |-> NewConn]
      /\ UNCHANGED <<pc, task, waiting, answer, nextId, promised, refused, unsure, strayed, client, db>>
  BY DEF Forget
<1>2. MainTyped' /\ waiting = 0
  BY <1>1 DEF Base, MainTyped
<1>3. db' \subseteq AllWrites
  BY <1>1 DEF Base, WorkerTyped
<1>4. QED
  BY <1>1, <1>2, <1>3, EmptiedKeepsBase

LEMMA StutterKeepsBase ==
  ASSUME Base, UNCHANGED vars
  PROVE  Base'
<1>1. UNCHANGED <<mainVars, workerVars, dbVars>>
  BY DEF vars
<1>2. MainTyped'
  BY <1>1 DEF Base, MainTyped, mainVars
<1>3. QED
  BY <1>1, <1>2, IdleWorkerKeepsBase DEF Base, NoWorker, mainVars, workerVars, dbVars

\* The statement a connection is at, and who awaits it.
LEMMA HeadOfQueue ==
  ASSUME Base, NEW c \in Conns, conn[c].queue # <<>>
  PROVE  \E h \in handlers :
           /\ h.conn = c /\ Message(h) = Head(conn[c].queue) /\ Message(h) \in Pending
           /\ h \in Handlers /\ h.at \in {"client", "pool"}
<1>1. conn[c].queue \in Seq(Posted)
  BY DEF Base, WorkerTyped, ConnsOf
<1>2. Head(conn[c].queue) \in Sent(c)
  BY <1>1, Rest DEF Sent
<1>3. PICK h \in handlers : h.conn = c /\ Message(h) = Head(conn[c].queue)
  BY <1>2 DEF Base, Queued
<1>4. h \in Handlers /\ Message(h) \in Pending
  BY DEF Base, WorkerTyped, Pending
<1>5. h.at # "connect"
  BY <1>3, BridgeAssumption DEF Base, Queued
<1>6. QED
  BY <1>3, <1>4, <1>5 DEF Handlers

\* What it may commit is a write.
LEMMA CommittedTypes ==
  ASSUME Base, NEW c \in Conns, conn[c].queue # <<>>
  PROVE  Committed(c, Head(conn[c].queue), FALSE) \subseteq AllWrites
<1>1. PICK h \in handlers : Message(h) = Head(conn[c].queue) /\ Message(h) \in Pending
  BY HeadOfQueue
<1>2. PICK m \in Pending : m = Head(conn[c].queue)
  BY <1>1
<1>3. m \in Posted /\ (m.kind = "query" => m.write[2] # 9)
  BY PendingIds DEF Base, WorkerTyped
<1>4. m.kind = "query" => m.write \in AllWrites
  BY <1>3 DEF Posted, AllWrites
<1>5. conn[c].tx # NoTx => conn[c].tx \subseteq AllWrites
  BY DEF Base, WorkerTyped, ConnsOf
<1>6. QED
  BY <1>2, <1>4, <1>5 DEF Committed

LEMMA WorkerDiesKeepsBase ==
  ASSUME Base, WorkerDies
  PROVE  Base'
<1>1. /\ worker' = "dead" /\ channel' = <<>> /\ handlers' = {} /\ client' = NoConn
      /\ conn' = [c \in Conns |-> NewConn] /\ UNCHANGED mainVars
  BY DEF WorkerDies
<1>2. MainTyped'
  BY <1>1 DEF Base, MainTyped, mainVars
<1>3. db' \subseteq AllWrites
  <2>1. PICK ran \in SUBSET {c \in Conns : conn[c].queue # <<>>} :
          db' = db \cup UNION {Committed(c, Head(conn[c].queue), FALSE) : c \in ran}
    BY DEF WorkerDies
  <2>2. \A c \in ran : Committed(c, Head(conn[c].queue), FALSE) \subseteq AllWrites
    BY CommittedTypes
  <2>3. QED
    BY <2>1, <2>2 DEF Base, WorkerTyped
<1>4. QED
  BY <1>1, <1>2, <1>3, EmptiedKeepsBase

-----------------------------------------------------------------------------
\* What the steps of the worker do.

MainStill == UNCHANGED <<pc, task, waiting, nextId, bridgeError, promised, refused, unsure, strayed>>

Answers(m, verdict) == answer' = IF m.id = waiting THEN verdict ELSE answer

\* Connection d keeps all but its queue.
SameUse(d) ==
  conn'[d].held = conn[d].held /\ conn'[d].tx = conn[d].tx /\ conn'[d].aborted = conn[d].aborted

\* Message m is taken off the channel.
TakenOff(m) ==
  /\ m \in Wire /\ Wire = {m} \cup Wire'
  /\ \A x \in Wire' : m.id < x.id
  /\ channel' \in Seq(Posted) /\ Follows(channel', Earlier)
  /\ worker = "up" /\ worker' = "up" /\ db' = db
  /\ MainStill

\* ... and sent on the connection of the transaction,
Forwarded(m) ==
  /\ m.kind \in {"query", "commit", "rollback"} /\ client \in Conns
  /\ handlers' = handlers \cup {Taken(m, "client", client)}
  /\ conn' \in [Conns -> ConnsOf]
  /\ conn'[client].queue = Append(conn[client].queue, m)
  /\ \A d \in Conns \ {client} : conn'[d].queue = conn[d].queue
  /\ \A d \in Conns : SameUse(d)
  /\ UNCHANGED <<client, answer>>

\* or has to wait for one,
Waits(m) ==
  /\ m.kind \in {"query", "begin"} /\ client = NoConn
  /\ handlers' = handlers \cup {Taken(m, "connect", NoConn)}
  /\ UNCHANGED <<conn, client, answer>>

\* or is refused.
Refused(m) ==
  /\ \/ m.kind = "begin" /\ client # NoConn
     \/ m.kind \in {"commit", "rollback"} /\ client = NoConn
  /\ Answers(m, "error")
  /\ conn' = Released /\ client' = NoConn
  /\ UNCHANGED handlers

LEMMA ReleasedTypes ==
  ASSUME Base
  PROVE  /\ Released \in [Conns -> ConnsOf]
         /\ \A d \in Conns :
              /\ Released[d].queue = conn[d].queue /\ Released[d].tx = conn[d].tx
              /\ Released[d].aborted = conn[d].aborted
              /\ Released[d].held = (conn[d].held /\ d # client)
<1>1. conn \in [Conns -> ConnsOf] /\ client \in Conns \cup {NoConn}
  BY DEF Base, WorkerTyped
<1>2. CASE client = NoConn
  BY <1>1, <1>2, BridgeAssumption DEF Released, ConnsOf
<1>3. CASE client \in Conns
  <2>1. Released = [conn EXCEPT ![client].held = FALSE]
    BY <1>3, BridgeAssumption DEF Released
  <2>2. \A d \in Conns : Released[d] = IF d = client THEN [conn[d] EXCEPT !.held = FALSE] ELSE conn[d]
    BY <1>1, <2>1
  <2>3. \A r \in ConnsOf :
          LET q == [r EXCEPT !.held = FALSE] IN
          q \in ConnsOf /\ q.queue = r.queue /\ q.tx = r.tx /\ q.aborted = r.aborted /\ q.held = FALSE
    BY DEF ConnsOf
  <2>4. \A d \in Conns : conn[d] \in ConnsOf
    BY <1>1
  <2>5. \A d \in Conns : Released[d] \in ConnsOf
    BY <2>2, <2>3, <2>4
  <2>6. Released \in [Conns -> ConnsOf]
    BY <1>1, <2>1, <2>5
  <2>7. \A d \in Conns : conn[d].held \in BOOLEAN
    BY <2>4 DEF ConnsOf
  <2>8. Released[client].held = FALSE
    BY <1>3, <2>2, <2>3, <2>4
  <2>9. \A d \in Conns \ {client} : Released[d] = conn[d]
    BY <2>2
  <2>10. ASSUME NEW d \in Conns
         PROVE  /\ Released[d].queue = conn[d].queue /\ Released[d].tx = conn[d].tx
                /\ Released[d].aborted = conn[d].aborted
    BY <2>2, <2>3, <2>4
  <2>11. ASSUME NEW d \in Conns
         PROVE  Released[d].held = (conn[d].held /\ d # client)
    <3>1. CASE d = client
      BY <2>8, <3>1
    <3>2. CASE d # client
      BY <2>7, <2>9, <3>2
    <3>3. QED
      BY <3>1, <3>2
  <2>12. QED
    BY <2>6, <2>10, <2>11
<1>4. QED
  BY <1>1, <1>2, <1>3

\* A statement is put into the queue of a connection.
LEMMA QueueTypes ==
  ASSUME Base, NEW c \in Conns, NEW m \in Posted, NEW held \in BOOLEAN,
         conn' \in {[conn EXCEPT ![c].queue = Append(@, m)],
                    [conn EXCEPT ![c].held = TRUE, ![c].queue = Append(@, m)]}
  PROVE  /\ conn' \in [Conns -> ConnsOf]
         /\ conn'[c].queue = Append(conn[c].queue, m)
         /\ conn'[c].tx = conn[c].tx /\ conn'[c].aborted = conn[c].aborted
         /\ \A d \in Conns \ {c} : conn'[d] = conn[d]
<1>1. conn \in [Conns -> ConnsOf] /\ conn[c] \in ConnsOf
  BY DEF Base, WorkerTyped
<1>2. Append(conn[c].queue, m) \in Seq(Posted)
  BY <1>1, Appended DEF ConnsOf
<1>3. ASSUME NEW q \in Seq(Posted)
      PROVE  /\ [conn[c] EXCEPT !.queue = q] \in ConnsOf
             /\ [conn[c] EXCEPT !.held = TRUE, !.queue = q] \in ConnsOf
  BY <1>1 DEF ConnsOf
<1>4. /\ conn'[c] \in {[conn[c] EXCEPT !.queue = Append(conn[c].queue, m)],
                       [conn[c] EXCEPT !.held = TRUE, !.queue = Append(conn[c].queue, m)]}
      /\ \A d \in Conns \ {c} : conn'[d] = conn[d]
      /\ DOMAIN conn' = Conns
  BY <1>1
<1>5. conn'[c] \in ConnsOf
  BY <1>2, <1>3, <1>4
<1>6. conn' \in [Conns -> ConnsOf]
  <2>1. \A d \in Conns : conn'[d] \in ConnsOf
    BY <1>1, <1>4, <1>5
  <2>2. conn' = [d \in Conns |-> conn'[d]]
    BY <1>1
  <2>3. QED
    BY <2>1, <2>2
<1>7. QED
  BY <1>1, <1>4, <1>6 DEF ConnsOf

LEMMA HandleEffect ==
  ASSUME Base, HandleMessage
  PROVE  \E m \in Posted : TakenOff(m) /\ (Forwarded(m) \/ Waits(m) \/ Refused(m))
<1> DEFINE m == Head(channel)
<1>1. /\ channel # <<>> /\ channel \in Seq(Posted) /\ channel' = Tail(channel)
      /\ Follows(channel, Earlier) /\ worker = "up" /\ worker' = "up" /\ db' = db /\ MainStill
  BY DEF Base, WorkerTyped, InOrder, NoWorker, HandleMessage, mainVars, Respond, MainStill
<1>2. m \in Posted /\ TakenOff(m)
  <2>1. /\ m \in Posted /\ channel' \in Seq(Posted) /\ Elems(channel) = {m} \cup Elems(channel')
        /\ Follows(channel', Earlier)
        /\ \A x \in Elems(channel') : <<m, x>> \in Earlier
    BY <1>1, Rest, RestFollows
  <2>2. \A x \in Elems(channel') : m.id < x.id
    BY <2>1 DEF Earlier
  <2>3. QED
    BY <1>1, <2>1, <2>2 DEF TakenOff, Wire
<1> HIDE DEF m
<1>3. \/ /\ m.kind = "query"
         /\ IF client # NoConn THEN Enqueue(client, m, "client") ELSE Awaits(m)
         /\ UNCHANGED <<client, mainVars>>
      \/ /\ m.kind = "begin" /\ client = NoConn
         /\ Awaits(m)
         /\ UNCHANGED <<client, mainVars>>
      \/ /\ m.kind \in {"commit", "rollback"} /\ client # NoConn
         /\ Enqueue(client, m, "client")
         /\ UNCHANGED <<client, mainVars>>
      \/ Refused(m)
  BY DEF m, HandleMessage, Target, Refused, Respond, Answers
<1>4. client \in Conns \cup {NoConn}
  BY DEF Base, WorkerTyped
<1>5. ASSUME m.kind \in {"query", "commit", "rollback"}, client # NoConn,
             Enqueue(client, m, "client"), UNCHANGED <<client, mainVars>>
      PROVE  Forwarded(m)
  <2>1. client \in Conns /\ conn' = [conn EXCEPT ![client].queue = Append(@, m)]
    BY <1>4, <1>5 DEF Enqueue
  <2>2. conn'[client].held = conn[client].held
    BY <2>1 DEF Base, WorkerTyped, ConnsOf
  <2>3. QED
    BY <1>2, <1>5, <2>1, <2>2, QueueTypes DEF Forwarded, Enqueue, Taken, SameUse, mainVars
<1>6. ASSUME m.kind \in {"query", "begin"}, client = NoConn, Awaits(m), UNCHANGED <<client, mainVars>>
      PROVE  Waits(m)
  BY <1>6 DEF Awaits, Waits, Taken, mainVars
<1>7. QED
  BY <1>2, <1>3, <1>5, <1>6

\* A handler that waited for a connection has got c.
Connected(h, c, g) ==
  /\ h \in handlers /\ g \in Handlers /\ h.at = "connect" /\ ~conn[c].held
  /\ Message(g) = Message(h) /\ g.id = h.id /\ g.kind = h.kind /\ g.write = h.write
  /\ g.at = (IF h.kind = "begin" THEN "client" ELSE "pool") /\ g.conn = c
  /\ handlers' = (handlers \ {h}) \cup {g}
  /\ conn' \in [Conns -> ConnsOf]
  /\ conn'[c].queue = Append(conn[c].queue, Message(h))
  /\ conn'[c].held /\ conn'[c].tx = conn[c].tx /\ conn'[c].aborted = conn[c].aborted
  /\ \A d \in Conns \ {c} : conn'[d] = conn[d]
  /\ client' = (IF h.kind = "begin" THEN c ELSE client)
  /\ worker = "up" /\ UNCHANGED <<worker, channel, db, mainVars>>

LEMMA ConnectEffect ==
  ASSUME Base, NEW h \in handlers, NEW c \in Conns, Connect(h, c)
  PROVE  \E g : Connected(h, c, g)
<1>0. PICK at \in {"client", "pool"} : at = IF h.kind = "begin" THEN "client" ELSE "pool"
  OBVIOUS
<1> DEFINE g == [h EXCEPT !.at = at, !.conn = c]
<1>1. h \in Handlers
  BY DEF Base, WorkerTyped
<1>2. /\ g \in Handlers /\ Message(g) = Message(h)
      /\ g.id = h.id /\ g.kind = h.kind /\ g.write = h.write /\ g.at = at /\ g.conn = c
  BY <1>1 DEF Handlers, Message
<1>3. /\ conn' \in [Conns -> ConnsOf]
      /\ conn'[c].queue = Append(conn[c].queue, Message(h))
      /\ conn'[c].tx = conn[c].tx /\ conn'[c].aborted = conn[c].aborted
      /\ \A d \in Conns \ {c} : conn'[d] = conn[d]
  BY <1>1, HandlerTypes, QueueTypes DEF Connect
<1>4. conn'[c].held
  BY DEF Connect, Base, WorkerTyped, ConnsOf
<1>5. handlers' = (handlers \ {h}) \cup {g}
  BY <1>0 DEF Connect
<1>6. worker = "up"
  BY DEF Base, NoWorker
<1> HIDE DEF g
<1>7. Connected(h, c, g)
  BY <1>0, <1>2, <1>3, <1>4, <1>5, <1>6 DEF Connect, Connected
<1>8. QED
  BY <1>7

\* The tx, the aborted and the committed writes after a statement.
TxAfter(c, m, fails) ==
  IF m.kind \in {"commit", "rollback"} THEN NoTx
  ELSE IF m.kind = "begin" /\ ~fails THEN (IF conn[c].tx = NoTx THEN {} ELSE conn[c].tx)
  ELSE IF m.kind = "query" /\ ~fails /\ conn[c].tx # NoTx THEN conn[c].tx \cup {m.write}
  ELSE conn[c].tx

AbortedAfter(c, m, fails) ==
  IF m.kind \in {"commit", "rollback"} THEN FALSE
  ELSE conn[c].aborted \/ (m.kind = "query" /\ fails /\ conn[c].tx # NoTx)

Ends(m) == m.kind \in {"commit", "rollback"}
Gives(m, fails) == Ends(m) \/ (m.kind = "begin" /\ fails)

\* The statement of handler h has run on connection c.
Executed(h, c, fails) ==
  /\ h.conn = c /\ h.at \in {"client", "pool"}
  /\ conn[c].queue # <<>> /\ Message(h) = Head(conn[c].queue)
  /\ conn[c].aborted /\ h.kind = "query" => fails
  /\ handlers' = handlers \ {h}
  /\ conn' \in [Conns -> ConnsOf]
  /\ conn'[c].queue = Tail(conn[c].queue)
  /\ conn'[c].tx = TxAfter(c, h, fails) /\ conn'[c].aborted = AbortedAfter(c, h, fails)
  /\ \A d \in Conns \ {c} : /\ conn'[d].queue = conn[d].queue /\ conn'[d].tx = conn[d].tx
                            /\ conn'[d].aborted = conn[d].aborted
  /\ \A d \in Conns : conn'[d].held =
       (conn[d].held /\ ~(IF h.at = "pool" THEN d = c ELSE Gives(h, fails) /\ d = client))
  /\ db' = db \cup Committed(c, h, fails)
  /\ client' = (IF Gives(h, fails) THEN NoConn ELSE client)
  /\ Answers(h, IF fails \/ (Ends(h) /\ client = NoConn) THEN "error" ELSE "ok")
  /\ worker = "up" /\ UNCHANGED <<worker, channel>> /\ MainStill

LEMMA RanTypes ==
  ASSUME Base, NEW c \in Conns, NEW m \in Posted, NEW fails \in BOOLEAN,
         conn[c].queue # <<>>, m.kind = "query" => m.write[2] # 9
  PROVE  LET r == Ran(c, m, fails) IN
         /\ r \in ConnsOf /\ r.held = conn[c].held /\ r.queue = Tail(conn[c].queue)
         /\ r.tx = TxAfter(c, m, fails) /\ r.aborted = AbortedAfter(c, m, fails)
<1>1. conn[c] \in ConnsOf
  BY DEF Base, WorkerTyped
<1>2. PICK q \in Seq(Posted) : q = Tail(conn[c].queue)
  BY <1>1, Rest DEF ConnsOf
<1>3. m.kind = "query" => m.write \in AllWrites
  BY DEF Posted, AllWrites
<1>4. m.kind \in Kinds
  BY DEF Posted
<1> DEFINE ended == [conn[c] EXCEPT !.tx = NoTx, !.aborted = FALSE, !.queue = q]
<1>5. /\ ended \in ConnsOf /\ ended.held = conn[c].held /\ ended.queue = q
      /\ ended.tx = NoTx /\ ended.aborted = FALSE
  BY <1>1 DEF ConnsOf
<1>6. CASE m.kind \in {"commit", "rollback"}
  <2>1. Ran(c, m, fails) = ended
    BY <1>2, <1>6 DEF Ran
  <2>2. QED
    BY <1>2, <1>5, <1>6, <2>1 DEF TxAfter, AbortedAfter
<1>7. CASE m.kind = "begin"
  <2>1. CASE fails
    <3>1. Ran(c, m, fails) = [conn[c] EXCEPT !.queue = q]
      BY <1>2, <1>7, <2>1 DEF Ran
    <3>2. QED
      BY <1>1, <1>2, <1>7, <2>1, <3>1 DEF TxAfter, AbortedAfter, ConnsOf
  <2>2. CASE ~fails
    <3>1. PICK t \in (SUBSET AllWrites) \cup {NoTx} : t = (IF conn[c].tx = NoTx THEN {} ELSE conn[c].tx)
      BY <1>1 DEF ConnsOf
    <3>2. Ran(c, m, fails) = [ended EXCEPT !.tx = t, !.aborted = conn[c].aborted]
      BY <1>2, <1>7, <2>2, <3>1 DEF Ran
    <3>3. QED
      BY <1>1, <1>2, <1>5, <1>7, <2>2, <3>1, <3>2 DEF TxAfter, AbortedAfter, ConnsOf
  <2>3. QED
    BY <2>1, <2>2
<1>8. CASE m.kind = "query"
  <2>1. CASE ~fails /\ conn[c].tx # NoTx
    <3>1. PICK t \in (SUBSET AllWrites) \cup {NoTx} : t = conn[c].tx \cup {m.write}
      BY <1>1, <1>3, <1>8, <2>1 DEF ConnsOf
    <3>2. Ran(c, m, fails) = [conn[c] EXCEPT !.queue = q, !.tx = t]
      BY <1>2, <1>8, <2>1, <3>1 DEF Ran
    <3>3. QED
      BY <1>1, <1>2, <1>8, <2>1, <3>1, <3>2 DEF TxAfter, AbortedAfter, ConnsOf
  <2>2. CASE fails /\ conn[c].tx # NoTx
    <3>1. Ran(c, m, fails) = [conn[c] EXCEPT !.queue = q, !.aborted = TRUE]
      BY <1>2, <1>8, <2>2 DEF Ran
    <3>2. QED
      BY <1>1, <1>2, <1>8, <2>2, <3>1 DEF TxAfter, AbortedAfter, ConnsOf
  <2>3. CASE conn[c].tx = NoTx
    <3>1. Ran(c, m, fails) = [conn[c] EXCEPT !.queue = q]
      BY <1>2, <1>8, <2>3 DEF Ran
    <3>2. QED
      BY <1>1, <1>2, <1>8, <2>3, <3>1 DEF TxAfter, AbortedAfter, ConnsOf
  <2>4. QED
    BY <2>1, <2>2, <2>3
<1>9. QED
  BY <1>4, <1>6, <1>7, <1>8 DEF Kinds

LEMMA ExecuteEffect ==
  ASSUME Base, NEW c \in Conns, Execute(c)
  PROVE  \E h \in handlers, fails \in BOOLEAN : Executed(h, c, fails)
<1> DEFINE m == Head(conn[c].queue)
<1>1. conn[c].queue # <<>> /\ conn[c].queue \in Seq(Posted)
  BY DEF Execute, Base, WorkerTyped, ConnsOf
<1>2. m \in Sent(c) /\ m \in Posted
  BY <1>1, Rest DEF Sent
<1>3. PICK h \in handlers : h.conn = c /\ Message(h) = m
  BY <1>2 DEF Base, Queued
<1>4. h.id = m.id /\ h.kind = m.kind /\ h.write = m.write /\ h \in Handlers
  BY <1>3, HandlerTypes DEF Base, WorkerTyped
<1>5. h = CHOOSE x \in handlers : x.id = m.id
  <2>1. (CHOOSE x \in handlers : x.id = m.id) \in handlers
        /\ (CHOOSE x \in handlers : x.id = m.id).id = m.id
    BY <1>4
  <2>2. QED
    BY <1>4, <2>1 DEF Base, InOrder
<1>6. h.at \in {"client", "pool"}
  BY <1>3, <1>4, BridgeAssumption DEF Base, Queued, Handlers
<1>7. m.kind = "query" => m.write[2] # 9
  BY <1>3 DEF Base, WorkerTyped, Pending
<1> DEFINE ran(fails) == [conn EXCEPT ![c] = Ran(c, m, fails)]
           back(fails) == IF h.at = "pool" THEN {c} ELSE IF Gives(m, fails) THEN {client} ELSE {}
           k == CHOOSE x \in handlers : x.id = m.id
<1>8. PICK fails \in BOOLEAN :
        /\ conn[c].aborted /\ m.kind = "query" => fails
        /\ conn' = [d \in Conns |-> IF d \in back(fails) THEN [ran(fails)[d] EXCEPT !.held = FALSE]
                                                         ELSE ran(fails)[d]]
        /\ db' = db \cup Committed(c, m, fails)
        /\ client' = IF Gives(m, fails) THEN NoConn ELSE client
        /\ Answers(m, IF fails \/ (Ends(m) /\ client = NoConn) THEN "error" ELSE "ok")
        /\ MainStill
  <2>1. \E fails \in BOOLEAN :
          /\ conn[c].aborted /\ m.kind = "query" => fails
          /\ conn' = [d \in Conns |->
               IF d \in (IF k.at = "pool" THEN {c}
                         ELSE IF m.kind \in {"commit", "rollback"} \/ (m.kind = "begin" /\ fails)
                                THEN {client} ELSE {})
                 THEN [ran(fails)[d] EXCEPT !.held = FALSE] ELSE ran(fails)[d]]
          /\ db' = db \cup Committed(c, m, fails)
          /\ client' = IF m.kind \in {"commit", "rollback"} \/ (m.kind = "begin" /\ fails)
                         THEN NoConn ELSE client
          /\ Respond(m.id, IF fails \/ (m.kind \in {"commit", "rollback"} /\ client = NoConn)
                             THEN "error" ELSE "ok")
    BY Zenon DEF Execute
  <2> HIDE DEF m, k, ran
  <2>2. k = h
    BY <1>5 DEF k
  <2>3. QED
    BY <2>1, <2>2 DEF Gives, Ends, Answers, Respond, MainStill
<1>9. handlers' = handlers \ {h} /\ UNCHANGED <<worker, channel>>
  BY <1>5 DEF Execute
<1> HIDE DEF m
<1>10. /\ Committed(c, h, fails) = Committed(c, m, fails)
       /\ TxAfter(c, h, fails) = TxAfter(c, m, fails)
       /\ AbortedAfter(c, h, fails) = AbortedAfter(c, m, fails)
       /\ Ends(h) = Ends(m) /\ Gives(h, fails) = Gives(m, fails)
  BY <1>4 DEF Committed, TxAfter, AbortedAfter, Ends, Gives
<1>11. PICK r \in ConnsOf :
         /\ r = Ran(c, m, fails)
         /\ r.held = conn[c].held /\ r.queue = Tail(conn[c].queue)
         /\ r.tx = TxAfter(c, m, fails) /\ r.aborted = AbortedAfter(c, m, fails)
  BY <1>1, <1>2, <1>7, RanTypes
<1>12. conn \in [Conns -> ConnsOf]
  BY DEF Base, WorkerTyped
<1>13. /\ ran(fails)[c] = r
       /\ \A d \in Conns \ {c} : ran(fails)[d] = conn[d]
       /\ \A d \in Conns : ran(fails)[d] \in ConnsOf
  BY <1>11, <1>12
<1>14. ASSUME NEW s \in ConnsOf, NEW f, f = [s EXCEPT !.held = FALSE]
       PROVE  f \in ConnsOf /\ f.queue = s.queue /\ f.tx = s.tx /\ f.aborted = s.aborted /\ f.held = FALSE
  BY <1>14 DEF ConnsOf
<1> HIDE DEF ran
<1>15. ASSUME NEW d \in Conns
       PROVE  /\ conn'[d] \in ConnsOf /\ conn'[d].queue = ran(fails)[d].queue
              /\ conn'[d].tx = ran(fails)[d].tx /\ conn'[d].aborted = ran(fails)[d].aborted
              /\ conn'[d].held = (ran(fails)[d].held /\ d \notin back(fails))
  <2>1. ran(fails)[d] \in ConnsOf /\ ran(fails)[d].held \in BOOLEAN
    BY <1>13 DEF ConnsOf
  <2>2. CASE d \in back(fails)
    <3>1. conn'[d] = [ran(fails)[d] EXCEPT !.held = FALSE]
      BY <1>8, <2>2
    <3>2. QED
      BY <1>14, <2>1, <2>2, <3>1, Zenon
  <2>3. CASE d \notin back(fails)
    <3>1. conn'[d] = ran(fails)[d]
      BY <1>8, <2>3
    <3>2. QED
      BY <2>1, <2>3, <3>1
  <2>4. QED
    BY <2>2, <2>3
<1>16. conn' \in [Conns -> ConnsOf]
  <2>1. \A d \in Conns : conn'[d] \in ConnsOf
    BY <1>15
  <2>2. conn' = [d \in Conns |-> conn'[d]]
    BY <1>8
  <2>3. QED
    BY <2>1, <2>2
<1>17. ASSUME NEW d \in Conns
       PROVE  /\ d \in back(fails) <=> IF h.at = "pool" THEN d = c ELSE Gives(m, fails) /\ d = client
              /\ ran(fails)[d].held = conn[d].held
  BY <1>11, <1>13
<1>18. worker = "up"
  BY DEF Base, NoWorker
<1> HIDE DEF back
<1>19. Executed(h, c, fails)
  <2>1. \A d \in Conns : conn'[d].held =
          (conn[d].held /\ ~(IF h.at = "pool" THEN d = c ELSE Gives(h, fails) /\ d = client))
    BY <1>10, <1>15, <1>17
  <2>2. /\ conn'[c].queue = Tail(conn[c].queue)
        /\ conn'[c].tx = TxAfter(c, h, fails) /\ conn'[c].aborted = AbortedAfter(c, h, fails)
        /\ \A d \in Conns \ {c} : /\ conn'[d].queue = conn[d].queue /\ conn'[d].tx = conn[d].tx
                                  /\ conn'[d].aborted = conn[d].aborted
    BY <1>10, <1>11, <1>13, <1>15
  <2>3. /\ db' = db \cup Committed(c, h, fails)
        /\ client' = IF Gives(h, fails) THEN NoConn ELSE client
        /\ Answers(h, IF fails \/ (Ends(h) /\ client = NoConn) THEN "error" ELSE "ok")
    BY <1>4, <1>8, <1>10 DEF Answers
  <2>4. Message(h) = Head(conn[c].queue)
    BY <1>3 DEF m
  <2>5. QED
    BY <1>1, <1>3, <1>4, <1>6, <1>8, <1>9, <1>16, <1>18, <2>1, <2>2, <2>3, <2>4 DEF Executed
<1>20. QED
  BY <1>19

-----------------------------------------------------------------------------
\* The steps of the worker keep the first part of the invariant.

\* A message is answered.
LEMMA AnswerKeepsMain ==
  ASSUME Base, MainStill, NEW m, m.id \in Nat \ {0}, NEW verdict \in {"ok", "error"}, Answers(m, verdict)
  PROVE  MainTyped'
<1>1. answer' \in {"none", "ok", "error", "lost"} /\ (answer' # "none" => waiting # 0)
  BY DEF Base, MainTyped, Answers
<1>2. QED
  BY <1>1 DEF Base, MainTyped, MainStill

LEMMA HandleKeepsBase ==
  ASSUME Base, HandleMessage
  PROVE  Base'
<1>1. PICK m \in Posted : TakenOff(m) /\ (Forwarded(m) \/ Waits(m) \/ Refused(m))
  BY HandleEffect
<1>2. /\ m \in Wire /\ Wire = {m} \cup Wire' /\ (\A x \in Wire' : m.id < x.id)
      /\ channel' \in Seq(Posted) /\ Follows(channel', Earlier)
      /\ worker = "up" /\ worker' = "up" /\ db' = db /\ MainStill /\ m \in Pending
      /\ nextId' = nextId
  BY <1>1 DEF TakenOff, Pending, MainStill
<1>3. \A h \in handlers : h.id < m.id
  BY <1>2 DEF Base, InOrder
<1>4. MainTyped'
  <2>1. CASE answer' = answer
    BY <1>2, <2>1 DEF Base, MainTyped, MainStill
  <2>2. CASE Refused(m)
    BY <1>2, <2>2, AnswerKeepsMain DEF Refused, Posted
  <2>3. QED
    BY <1>1, <2>1, <2>2 DEF Forwarded, Waits
<1>5. NoWorker'
  BY <1>2 DEF NoWorker
<1>6. \A h \in handlers : \A x \in Wire' : h.id < x.id
  BY <1>2 DEF Base, InOrder
\* It has a handler now,
<1>7. ASSUME NEW g \in Handlers, Message(g) = m, g.id = m.id, handlers' = handlers \cup {g},
             conn' \in [Conns -> ConnsOf], client' \in Conns \cup {NoConn}
      PROVE  WorkerTyped' /\ InOrder'
  <2>1. Pending' \subseteq Pending
    BY <1>2, <1>7 DEF Pending
  <2>2. WorkerTyped'
    BY <1>2, <1>7, <2>1 DEF Base, WorkerTyped
  <2>3. g \notin handlers /\ \A h \in handlers : h.id # m.id
    BY <1>3, <1>7 DEF Base, WorkerTyped, Handlers, Posted
  <2>4. \A h, k \in handlers' : h.id = k.id => h = k
    BY <1>7, <2>3 DEF Base, InOrder
  <2>5. \A h \in handlers', x \in Wire' : h.id < x.id
    BY <1>2, <1>6, <1>7
  <2>6. QED
    BY <1>2, <2>2, <2>4, <2>5 DEF InOrder
<1>8. CASE Forwarded(m)
  <2> DEFINE g == Taken(m, "client", client)
  <2>1. /\ g \in Handlers /\ Message(g) = m /\ g.id = m.id /\ g.at = "client" /\ g.conn = client
        /\ client \in Conns
    BY <1>8, TakenTypes DEF Forwarded
  <2>2. handlers' = handlers \cup {g} /\ handlers' = (handlers \ {g}) \cup {g}
    BY <1>8 DEF Forwarded
  <2>3. \A h \in handlers : h.id # m.id
    BY <1>3 DEF Base, WorkerTyped, Handlers, Posted
  <2> HIDE DEF g
  <2>4. WorkerTyped' /\ InOrder'
    BY <1>7, <1>8, <2>1, <2>2 DEF Forwarded
  <2>5. Queued'
    BY <1>8, <2>1, <2>2, <2>3, SentKeepsQueued DEF Forwarded
  <2>6. QED
    BY <1>4, <1>5, <2>4, <2>5 DEF Base
<1>9. CASE Waits(m)
  <2> DEFINE g == Taken(m, "connect", NoConn)
  <2>1. /\ g \in Handlers /\ Message(g) = m /\ g.id = m.id /\ g.at = "connect" /\ g.conn = NoConn
    BY TakenTypes
  <2>2. handlers' = handlers \cup {g} /\ UNCHANGED <<conn, client>> /\ g.kind \in {"query", "begin"}
    BY <1>9, TakenTypes DEF Waits
  <2> HIDE DEF g
  <2>3. WorkerTyped' /\ InOrder'
    BY <1>7, <2>1, <2>2 DEF Base, WorkerTyped
  <2>4. Queued'
    BY <2>1, <2>2 DEF Base, Queued, Sent
  <2>5. QED
    BY <1>4, <1>5, <2>3, <2>4 DEF Base
<1>10. CASE Refused(m)
  <2>1. handlers' = handlers /\ conn' = Released /\ client' = NoConn
    BY <1>10 DEF Refused
  <2>2. conn' \in [Conns -> ConnsOf] /\ \A d \in Conns : conn'[d].queue = conn[d].queue
    BY <2>1, ReleasedTypes
  <2>3. Pending' \subseteq Pending
    BY <1>2, <2>1 DEF Pending
  <2>4. WorkerTyped'
    BY <1>2, <2>1, <2>2, <2>3 DEF Base, WorkerTyped
  <2>5. InOrder'
    BY <1>2, <2>1 DEF Base, InOrder
  <2>6. Queued'
    BY <2>1, <2>2 DEF Base, Queued, Sent
  <2>7. QED
    BY <1>4, <1>5, <2>4, <2>5, <2>6 DEF Base
<1>11. QED
  BY <1>1, <1>8, <1>9, <1>10

LEMMA ConnectKeepsBase ==
  ASSUME Base, NEW h \in handlers, NEW c \in Conns, Connect(h, c)
  PROVE  Base'
<1>1. PICK g : Connected(h, c, g)
  BY ConnectEffect
<1>2. /\ g \in Handlers /\ h.at = "connect" /\ Message(g) = Message(h) /\ g.id = h.id
      /\ g.kind = h.kind /\ g.at # "connect" /\ g.conn = c
      /\ g.at = "pool" => g.kind # "begin"
      /\ handlers' = (handlers \ {h}) \cup {g} /\ UNCHANGED <<channel, db, mainVars>>
      /\ worker' = "up" /\ client' \in Conns \cup {NoConn} /\ conn' \in [Conns -> ConnsOf]
      /\ conn'[c].queue = Append(conn[c].queue, Message(g))
      /\ \A d \in Conns \ {c} : conn'[d].queue = conn[d].queue
  BY <1>1 DEF Connected, Base, WorkerTyped
<1>3. MainTyped'
  BY <1>2 DEF Base, MainTyped, mainVars
<1>4. WorkerTyped'
  <2>1. Pending' \subseteq Pending
    BY <1>2 DEF Pending, Wire
  <2>2. nextId' = nextId
    BY <1>2 DEF mainVars
  <2>3. QED
    BY <1>2, <2>1, <2>2 DEF Base, WorkerTyped
<1>5. \A k \in handlers \ {h} : k.id # g.id
  BY <1>2 DEF Base, InOrder
<1>6. InOrder'
  <2>1. \A k, l \in handlers' : k.id = l.id => k = l
    BY <1>2, <1>5 DEF Base, InOrder
  <2>2. \A k \in handlers', x \in Wire' : k.id < x.id
    BY <1>2 DEF Base, InOrder, Wire
  <2>3. QED
    BY <1>2, <2>1, <2>2 DEF Base, InOrder
<1>7. Queued'
  <2>1. h.kind \in {"query", "begin"}
    BY <1>2 DEF Base, Queued
  <2>2. QED
    BY <1>2, <1>5, <2>1, SentKeepsQueued
<1>8. NoWorker'
  BY <1>2 DEF NoWorker
<1>9. QED
  BY <1>3, <1>4, <1>6, <1>7, <1>8 DEF Base

\* A handler is gone.
LEMMA AnsweredKeepsBase ==
  ASSUME Base, NEW h \in handlers, handlers' = handlers \ {h}, channel' = channel,
         MainTyped', nextId' = nextId, worker' = "up",
         client' \in Conns \cup {NoConn}, conn' \in [Conns -> ConnsOf], db' \subseteq AllWrites,
         Queued'
  PROVE  Base'
<1>1. Pending' \subseteq Pending
  BY DEF Pending, Wire
<1>2. WorkerTyped'
  BY <1>1 DEF Base, WorkerTyped
<1>3. InOrder'
  BY DEF Base, InOrder, Wire
<1>4. NoWorker'
  BY DEF NoWorker
<1>5. QED
  BY <1>2, <1>3, <1>4 DEF Base

LEMMA ConnectFailsKeepsBase ==
  ASSUME Base, NEW h \in handlers, ConnectFails(h)
  PROVE  Base'
<1>1. /\ h.at = "connect" /\ handlers' = handlers \ {h} /\ UNCHANGED <<worker, channel, db>>
      /\ h.id \in Nat \ {0} /\ MainStill /\ Answers(h, "error")
  BY DEF ConnectFails, Base, WorkerTyped, Handlers, Respond, MainStill, Answers
<1>2. MainTyped' /\ nextId' = nextId
  BY <1>1, AnswerKeepsMain DEF MainStill
<1>3. client' \in Conns \cup {NoConn} /\ conn' \in [Conns -> ConnsOf]
      /\ \A d \in Conns : conn'[d].queue = conn[d].queue
  BY ReleasedTypes DEF ConnectFails, Base, WorkerTyped
<1>4. Queued'
  BY <1>1, <1>3, AnswerKeepsQueued
<1>5. worker' = "up"
  BY <1>1 DEF Base, NoWorker
<1>6. db' \subseteq AllWrites
  BY <1>1 DEF Base, WorkerTyped
<1>7. QED
  BY <1>1, <1>2, <1>3, <1>4, <1>5, <1>6, AnsweredKeepsBase

LEMMA ExecuteKeepsBase ==
  ASSUME Base, NEW c \in Conns, Execute(c)
  PROVE  Base'
<1>1. PICK h \in handlers, fails \in BOOLEAN : Executed(h, c, fails)
  BY ExecuteEffect
<1>2. h.id \in Nat \ {0} /\ h.kind \in Kinds /\ (h.kind = "query" => h.write \in AllWrites)
  <2>1. h \in Handlers /\ Message(h) \in Pending
    BY DEF Base, WorkerTyped, Pending
  <2>2. h.kind = "query" => h.write[2] # 9
    BY <2>1, HandlerTypes DEF Base, WorkerTyped
  <2>3. QED
    BY <2>1, <2>2 DEF Handlers, AllWrites
<1>3. MainTyped' /\ nextId' = nextId
  <2>1. PICK verdict \in {"ok", "error"} : Answers(h, verdict)
    BY <1>1 DEF Executed
  <2>2. MainStill
    BY <1>1 DEF Executed
  <2>3. QED
    BY <1>2, <2>1, <2>2, AnswerKeepsMain DEF MainStill
<1>4. client' \in Conns \cup {NoConn} /\ conn' \in [Conns -> ConnsOf]
  BY <1>1 DEF Executed, Base, WorkerTyped
<1>5. db' \subseteq AllWrites
  <2>1. conn[c].tx # NoTx => conn[c].tx \subseteq AllWrites
    BY DEF Base, WorkerTyped, ConnsOf
  <2>2. QED
    BY <1>1, <1>2, <2>1 DEF Executed, Committed, Base, WorkerTyped
<1>6. Queued'
  BY <1>1, AnswerKeepsQueued DEF Executed
<1>7. QED
  BY <1>1, <1>3, <1>4, <1>5, <1>6, AnsweredKeepsBase DEF Executed

LEMMA CloseIdleKeepsBase ==
  ASSUME Base, NEW c \in Conns, CloseIdle(c)
  PROVE  Base'
<1>1. /\ conn[c].queue = <<>> /\ conn' = [conn EXCEPT ![c] = NewConn]
      /\ UNCHANGED <<mainVars, workerVars, db>> /\ conn \in [Conns -> ConnsOf]
  BY DEF CloseIdle, Base, WorkerTyped
<1>2. worker = "up"
  BY DEF CloseIdle, Base, NoWorker, NewConn
<1>3. conn' \in [Conns -> ConnsOf] /\ \A d \in Conns : conn'[d].queue = conn[d].queue
  BY <1>1, NewConnTypes
<1>4. MainTyped'
  BY <1>1 DEF Base, MainTyped, mainVars
<1>5. WorkerTyped'
  BY <1>1, <1>3 DEF Base, WorkerTyped, Pending, Wire, mainVars, workerVars
<1>6. InOrder' /\ Queued'
  BY <1>1, <1>3 DEF Base, InOrder, Queued, Wire, Sent, workerVars
<1>7. NoWorker'
  BY <1>1, <1>2 DEF NoWorker, workerVars
<1>8. QED
  BY <1>4, <1>5, <1>6, <1>7 DEF Base

\* A connection is lost, and all who await something of it are answered.
LEMMA ConnectionLostKeepsBase ==
  ASSUME Base, NEW c \in Conns, ConnectionLost(c)
  PROVE  Base'
<1>1. PICK h \in handlers : h.conn = c /\ h.at = "pool"
  BY DEF ConnectionLost
<1>2. /\ handlers' = {g \in handlers : g.conn # c}
      /\ conn' = [conn EXCEPT ![c] = NewConn] /\ conn \in [Conns -> ConnsOf]
      /\ answer' \in {answer, "lost"} /\ (answer' # answer => \E g \in handlers : g.id = waiting)
      /\ db' = db \/ db' = db \cup Committed(c, Head(conn[c].queue), FALSE)
      /\ UNCHANGED <<pc, task, waiting, nextId, bridgeError, promised, refused, unsure, strayed,
                     worker, channel, client>>
  BY DEF ConnectionLost, Base, WorkerTyped
<1>3. conn[c].queue # <<>>
  <2>1. Message(h) \in Sent(c)
    BY <1>1 DEF Base, Queued
  <2>2. QED
    BY <2>1, NoElements DEF Sent
<1>4. MainTyped'
  <2>1. \A g \in handlers : g.id # 0
    BY DEF Base, WorkerTyped, Handlers
  <2>2. QED
    BY <1>2, <2>1 DEF Base, MainTyped
<1>5. /\ conn' \in [Conns -> ConnsOf] /\ conn'[c].queue = <<>>
      /\ \A d \in Conns \ {c} : conn'[d] = conn[d]
  BY <1>2, NewConnTypes
<1>6. WorkerTyped'
  <2>1. db' \subseteq AllWrites
    BY <1>2, <1>3, CommittedTypes DEF Base, WorkerTyped
  <2>2. Pending' \subseteq Pending
    BY <1>2 DEF Pending, Wire
  <2>3. QED
    BY <1>2, <1>5, <2>1, <2>2 DEF Base, WorkerTyped
<1>7. InOrder'
  BY <1>2 DEF Base, InOrder, Wire
<1>8. Queued'
  <2>1. Sent(c)' = {} /\ \A d \in Conns \ {c} : Sent(d)' = Sent(d)
    BY <1>5, NoElements DEF Sent
  <2>2. \A d \in Conns : Follows(conn'[d].queue, Different)
    BY <1>5, NoElements DEF Base, Queued
  <2>3. ASSUME NEW d \in Conns, NEW m \in Sent(d)'
        PROVE  \E g \in handlers' : g.conn = d /\ Message(g) = m
    <3>1. d # c /\ m \in Sent(d)
      BY <2>1, <2>3
    <3>2. PICK g \in handlers : g.conn = d /\ Message(g) = m
      BY <3>1 DEF Base, Queued
    <3>3. QED
      BY <1>2, <3>1, <3>2
  <2>4. ASSUME NEW g \in handlers'
        PROVE  /\ IF g.at = "connect" THEN g.conn = NoConn
                  ELSE g.conn \in Conns /\ Message(g) \in Sent(g.conn)'
               /\ g.at = "pool" => g.kind = "query"
               /\ g.at = "connect" => g.kind \in {"query", "begin"}
    <3>1. g \in handlers /\ g.conn # c
      BY <1>2
    <3>2. QED
      BY <2>1, <3>1 DEF Base, Queued
  <2>5. QED
    BY <2>2, <2>3, <2>4 DEF Queued
<1>9. NoWorker'
  <2>1. worker = "up"
    BY <1>1 DEF Base, NoWorker
  <2>2. QED
    BY <1>2, <2>1 DEF NoWorker
<1>10. QED
  BY <1>4, <1>6, <1>7, <1>8, <1>9 DEF Base

\* An abandoned worker gets something done.
LEMMA RunsAdriftKeepsBase ==
  ASSUME Base, Deaths, NEW w \in adrift, RunsAdrift(w)
  PROVE  Base'
<1>1. /\ UNCHANGED <<pc, task, waiting, answer, nextId, bridgeError, promised, refused, unsure, strayed>>
      /\ UNCHANGED <<worker, channel, handlers, client, conn>> /\ db' = db \cup {w}
  BY DEF RunsAdrift, mainVars, workerVars
<1>2. MainTyped'
  BY <1>1 DEF Base, MainTyped
<1>3. WorkerTyped'
  BY <1>1 DEF Base, WorkerTyped, Pending, Wire, Deaths
<1>4. InOrder' /\ Queued'
  BY <1>1 DEF Base, InOrder, Queued, Wire, Sent
<1>5. NoWorker'
  BY <1>1 DEF Base, NoWorker
<1>6. QED
  BY <1>2, <1>3, <1>4, <1>5 DEF Base

-----------------------------------------------------------------------------
\* What is pending, and what the main thread is at.

LEMMA PendingKinds ==
  ASSUME Base, PendingOK, NEW m \in Pending
  PROVE  /\ m \in Posted /\ m.id \in Nat \ {0} /\ m.id < nextId
         /\ waiting # 0 => waiting = nextId - 1 /\ pc # "idle"
         /\ m.kind = "begin" => m.id = waiting /\ pc = "begin" /\ answer = "none"
         /\ m.kind = "rollback" => m.id = waiting /\ pc = "rollback" /\ answer = "none"
         /\ m.kind = "commit" => /\ m.id = waiting => pc = "commit" /\ answer = "none"
                                 /\ m.id # waiting => pc = "rollback" /\ task \in unsure
         /\ m.kind = "query" /\ ~Solo(m) =>
              /\ m.id = waiting => answer = "none" /\ \/ pc = "write1" /\ m.write = T1
                                                      \/ pc = "write2" /\ m.write = T2
              /\ m.id # waiting => pc = "rollback" /\ task \in unsure
         /\ Solo(m) => /\ m.id = waiting => pc = "single" /\ answer = "none" /\ m.write = <<task, 0>>
                       /\ m.id # waiting => m.write[1] \in unsure
         /\ m.kind = "query" => m.write \in AllWrites
         /\ m.kind \in Kinds
<1>1. m \in Posted /\ m.id \in Nat \ {0} /\ m.id < nextId
  BY PendingIds
<1>2. waiting # 0 => waiting = nextId - 1 /\ pc # "idle"
  BY DEF Base, MainTyped
<1>3. m.kind \in Kinds /\ (m.kind = "query" => m.write \in AllWrites)
  <2>1. m.kind \in Kinds /\ m.write \in (1..MaxTasks) \X {0, 1, 2, 9}
    BY <1>1 DEF Posted
  <2>2. m.kind = "query" => m.write[2] # 9
    BY DEF Base, WorkerTyped
  <2>3. ASSUME m.write[2] # 9
        PROVE  m.write \in AllWrites
    BY <2>1, <2>3 DEF AllWrites
  <2>4. QED
    BY <2>1, <2>2, <2>3
<1>4. m.id = waiting =>
        /\ pc \in {"begin", "write1", "write2", "commit", "rollback", "single"}
        /\ answer = "none" /\ m.kind = Kind(pc) /\ m.write = WriteOf(pc)
  BY <1>1, <1>2 DEF Base, MainTyped, PendingOK
<1>5. m.id # waiting /\ ~Solo(m) => pc = "rollback" /\ task \in unsure /\ m.kind \in {"query", "commit"}
  BY DEF PendingOK
<1>6. m.id # waiting /\ Solo(m) => m.write[1] \in unsure
  BY DEF PendingOK
<1>7. CASE m.id # waiting
  BY <1>1, <1>2, <1>3, <1>5, <1>6, <1>7 DEF Solo
<1>8. CASE m.id = waiting
  BY <1>1, <1>2, <1>3, <1>4, <1>8 DEF Kind, WriteOf, Solo, T1, T2
<1>9. QED
  BY <1>7, <1>8

\* The main thread waits for nothing: what is pending is single statements, or
\* it is going to roll back.
LEMMA NothingPending ==
  ASSUME Base, PendingOK, NEW m \in Pending,
         pc # "rollback", waiting = 0 \/ answer # "none"
  PROVE  Solo(m) /\ m.id # waiting /\ m.write[1] \in unsure
<1>1. m.id # waiting
  BY PendingIds DEF PendingOK
<1>2. QED
  BY <1>1 DEF PendingOK

\* The worker and the connections stay as they are.
LEMMA MainStepKeepsUsers ==
  ASSUME ConnsOK, UsersOK, UNCHANGED <<channel, handlers, client, conn>>
  PROVE  ConnsOK' /\ UsersOK' /\ Wire' = Wire /\ Pending' = Pending
BY DEF ConnsOK, UsersOK, Wire, Pending

LEMMA CleanAtFirst == Init => Clean
<1> SUFFICES ASSUME Init
             PROVE  Clean
  OBVIOUS
<1>1. Pending = {} /\ Wire = {}
  BY NoElements DEF Init, Pending, Wire
<1>2. PendingOK
  BY <1>1 DEF PendingOK
<1>3. ConnsOK
  BY NoElements, NewConnTypes DEF Init, ConnsOK, NewConn
<1>4. UsersOK
  BY <1>1 DEF Init, UsersOK
<1>5. TxOK
  BY DEF Init, TxOK
<1>6. DataOK
  BY DEF Init, DataOK
<1>7. QED
  BY <1>2, <1>3, <1>4, <1>5, <1>6 DEF Clean

LEMMA BeginKeepsClean ==
  ASSUME Base, Clean, NEW first \in {"begin", "single"}, Begin(first)
  PROVE  Clean'
<1>1. /\ pc = "idle" /\ pc' = first /\ task' = task + 1 /\ waiting = 0 /\ answer = "none"
      /\ client = NoConn /\ task \in Nat /\ task' \in 1..MaxTasks
      /\ UNCHANGED <<waiting, answer, promised, refused, unsure, strayed, worker, channel, handlers,
                     client, conn, db>>
  BY BridgeAssumption DEF Begin, Base, MainTyped, Clean, TxOK, workerVars, dbVars
<1>2. ConnsOK' /\ UsersOK' /\ Pending' = Pending
  BY <1>1, MainStepKeepsUsers DEF Clean
<1>3. \A m \in Pending : Solo(m) /\ m.id # waiting /\ m.write[1] \in unsure
  BY <1>1, NothingPending DEF Clean
<1>4. PendingOK'
  BY <1>1, <1>2, <1>3 DEF PendingOK, Solo
<1>5. TxOK'
  BY <1>1 DEF TxOK
<1>6. DataOK'
  <2>1. \A w \in db : w[1] <= task' /\ w[1] # task'
    BY <1>1 DEF Clean, DataOK, Base, WorkerTyped, AllWrites
  <2>2. \A n \in 0..2 : <<task', n>> \notin db
    BY <2>1
  <2>3. task' \notin refused /\ \A t \in refused : t <= task'
    BY <1>1 DEF Clean, DataOK, Base, MainTyped
  <2>4. QED
    BY <1>1, <2>1, <2>2, <2>3 DEF Clean, DataOK
<1>7. QED
  BY <1>2, <1>4, <1>5, <1>6 DEF Clean

LEMMA ReceiveKeepsClean ==
  ASSUME Base, Clean, Receive
  PROVE  Clean'
<1>1. /\ waiting # 0 /\ answer \in {"ok", "error", "lost"} /\ waiting' = 0 /\ answer' = "none"
      /\ pc \in {"begin", "write1", "write2", "commit", "rollback", "single"}
      /\ task' = task /\ task \in 1..MaxTasks
      /\ pc' = IF answer = "ok" THEN After(pc) ELSE Caught(pc)
      /\ refused' = IF answer = "ok" THEN refused ELSE refused \cup {task}
      /\ unsure' = IF answer = "lost" THEN unsure \cup {task} ELSE unsure
      /\ UNCHANGED <<strayed, worker, channel, handlers, client, conn, db>>
  BY BridgeAssumption DEF Receive, Throw, Base, MainTyped, workerVars, dbVars
<1>2. ConnsOK' /\ UsersOK' /\ Pending' = Pending /\ Wire' = Wire
  BY <1>1, MainStepKeepsUsers DEF Clean
<1>3. \A m \in Pending : m.id # waiting /\ m.id # 0
  BY <1>1, PendingKinds DEF Clean, PendingOK
\* When the rollback is answered, the late statements have run.
<1>4. ASSUME NEW m \in Pending, ~Solo(m), pc = "rollback"
      PROVE  FALSE
  <2>1. client = NoConn /\ m.kind \in {"query", "commit"}
    BY <1>1, <1>3, <1>4 DEF Clean, TxOK, PendingOK
  <2>2. m \notin Wire
    BY <1>4, <2>1 DEF Clean, UsersOK
  <2>3. PICK h \in handlers : m = Message(h)
    BY <2>2 DEF Pending
  <2>4. /\ h \in Handlers /\ h.kind \in {"query", "commit"} /\ ~Solo(h)
    BY <1>4, <2>1, <2>3, HandlerTypes DEF Base, WorkerTyped
  <2>5. h.at = "client" => h.conn \in Conns
    BY DEF Base, Queued
  <2>6. QED
    BY <2>1, <2>4, <2>5, BridgeAssumption DEF Clean, UsersOK, Handlers
<1>5. \A m \in Pending : Solo(m) /\ m.write[1] \in unsure
  BY <1>1, <1>3, <1>4, NothingPending DEF Clean, PendingOK
<1>6. PendingOK'
  BY <1>1, <1>2, <1>3, <1>5 DEF PendingOK, Solo
<1>7. ~CommitPending
  BY <1>5 DEF CommitPending, Solo
<1>8. TxOK'
  <2>1. pc' = "idle" => client = NoConn
    BY <1>1 DEF After, Caught, Clean, TxOK
  <2>2. pc' \in {"idle", "write1", "write2", "commit", "rollback"}
    BY <1>1 DEF After, Caught
  <2>3. worker = "up" /\ pc' \in {"write1", "write2", "commit"} => client # NoConn
    BY <1>1 DEF After, Caught, Clean, TxOK
  <2>4. ASSUME client # NoConn
        PROVE  /\ pc' = "write1" => conn[client].tx = {} /\ ~conn[client].aborted
               /\ pc' = "write2" => conn[client].tx = {T1} /\ ~conn[client].aborted
               /\ pc' = "commit" => conn[client].tx = {T1, T2} /\ ~conn[client].aborted
               /\ pc' \in {"write1", "write2", "rollback"} => conn[client].tx # NoTx
    <3>1. CASE pc' = "write1"
      <4>1. pc = "begin" /\ answer = "ok"
        BY <1>1, <3>1 DEF After, Caught
      <4>2. conn[client].tx = {} /\ ~conn[client].aborted
        BY <2>4, <4>1 DEF Clean, TxOK
      <4>3. QED
        BY <3>1, <4>2, BridgeAssumption
    <3>2. CASE pc' = "write2"
      <4>1. pc = "write1" /\ answer = "ok"
        BY <1>1, <3>2 DEF After, Caught
      <4>2. QED
        BY <2>4, <3>2, <4>1 DEF Clean, TxOK
    <3>3. CASE pc' = "commit"
      <4>1. pc = "write2" /\ answer = "ok"
        BY <1>1, <3>3 DEF After, Caught
      <4>2. QED
        BY <2>4, <3>3, <4>1 DEF Clean, TxOK
    <3>4. CASE pc' = "rollback"
      <4>1. pc \in {"write1", "write2", "commit"} /\ answer = "error"
        BY <1>1, <3>4 DEF After, Caught, Clean, TxOK
      <4>2. QED
        BY <2>4, <3>4, <4>1 DEF Clean, TxOK
    <3>5. QED
      BY <2>2, <3>1, <3>2, <3>3, <3>4
  <2>5. CommitPending' = CommitPending /\ T1' = T1 /\ T2' = T2
    BY <1>1, <1>2 DEF CommitPending, T1, T2
  <2>6. QED
    BY <1>1, <1>7, <2>1, <2>2, <2>3, <2>4, <2>5 DEF TxOK
<1>9. DataOK'
  <2>1. promised' \subseteq db
    <3>1. CASE answer = "ok" /\ pc = "commit"
      <4>1. {T1, T2} \subseteq db /\ promised' \subseteq promised \cup {T1, T2}
        BY <3>1 DEF Receive, Writes, Clean, DataOK, T1, T2
      <4>2. QED
        BY <4>1 DEF Clean, DataOK
    <3>2. CASE answer = "ok" /\ pc = "single"
      <4>1. <<task, 0>> \in db /\ promised' \subseteq promised \cup {<<task, 0>>}
        BY <3>2 DEF Receive, Writes, Clean, DataOK
      <4>2. QED
        BY <4>1 DEF Clean, DataOK
    <3>3. CASE ~(answer = "ok" /\ pc \in {"commit", "single"})
      <4>1. promised' = promised
        BY <1>1, <3>3 DEF Receive, After
      <4>2. QED
        BY <4>1 DEF Clean, DataOK
    <3>4. QED
      BY <3>1, <3>2, <3>3
  <2>2. CASE answer = "ok"
    <3>1. pc' \notin {"idle", "rollback"} =>
            pc \notin {"idle", "rollback", "commit", "single"}
      BY <1>1, <2>2 DEF After
    <3>2. pc' # "rollback"
      BY <1>1, <2>2 DEF After
    <3>3. QED
      BY <1>1, <2>1, <2>2, <3>1, <3>2 DEF Clean, DataOK
  <2>3. CASE answer = "error"
    <3>1. pc' \in {"idle", "rollback"}
      BY <1>1, <2>3 DEF Caught
    <3>2. pc # "rollback" => \A n \in 0..2 : <<task, n>> \notin db
      BY <1>1, <2>3 DEF Clean, DataOK
    <3>3. pc = "rollback" => task \in refused
      BY DEF Clean, DataOK
    <3>4. \A t \in refused' \ unsure', n \in 0..2 : <<t, n>> \notin db
      BY <1>1, <3>2, <3>3 DEF Clean, DataOK
    <3>5. \A t \in refused' : t <= task
      BY <1>1 DEF Clean, DataOK
    <3>6. pc' = "rollback" => task \in refused'
      BY <1>1, <2>3
    <3>7. QED
      BY <1>1, <2>1, <3>1, <3>4, <3>5, <3>6 DEF Clean, DataOK
  <2>4. CASE answer = "lost"
    <3>1. pc' = "idle" /\ unsure' = unsure \cup {task}
      BY <1>1, <2>4 DEF Caught, Clean, TxOK
    <3>2. \A t \in refused' \ unsure' : t \in refused \ unsure
      BY <1>1, <3>1
    <3>3. \A t \in refused' : t <= task
      BY <1>1 DEF Clean, DataOK
    <3>4. QED
      BY <1>1, <2>1, <3>1, <3>2, <3>3 DEF Clean, DataOK
  <2>5. QED
    BY <1>1, <2>2, <2>3, <2>4
<1>10. QED
  BY <1>2, <1>6, <1>8, <1>9 DEF Clean

\* The call throws and the worker goes on with its message, or is dead.
LEMMA UnansweredKeepsClean ==
  ASSUME Base, Clean, pc # "idle", answer = "none",
         pc' = Caught(pc), task' = task, waiting' = 0, answer' = "none",
         refused' = refused \cup {task}, unsure' = unsure \cup {task},
         worker # "dead" => pc \notin {"begin", "rollback"},
         UNCHANGED <<promised, client, conn, db>>,
         CommitPending' => CommitPending \/ pc = "commit"
  PROVE  TxOK' /\ DataOK'
<1>1. /\ pc \in {"begin", "write1", "write2", "commit", "rollback", "single"}
      /\ pc' \in {"idle", "rollback"}
      /\ pc' = "rollback" => pc \in {"write1", "write2", "commit"}
      /\ pc' = "idle" => pc \in {"begin", "rollback", "single"}
      /\ task \in 1..MaxTasks /\ T1' = T1 /\ T2' = T2
  BY BridgeAssumption DEF Base, MainTyped, Caught, T1, T2
<1>2. TxOK'
  <2>1. pc' = "idle" => client = NoConn
    BY <1>1 DEF Base, NoWorker, Clean, TxOK
  <2>2. ASSUME client # NoConn, pc' = "rollback"
        PROVE  conn[client].tx # NoTx
    <3>1. CASE pc = "commit"
      <4>1. conn[client].tx = {T1, T2}
        BY <2>2, <3>1 DEF Clean, TxOK
      <4>2. {T1, T2} \in SUBSET ((1..MaxTasks) \X (0..2))
        BY <1>1 DEF T1, T2
      <4>3. QED
        BY <4>1, <4>2, BridgeAssumption
    <3>2. CASE pc \in {"write1", "write2"}
      BY <2>2, <3>2 DEF Clean, TxOK
    <3>3. QED
      BY <1>1, <2>2, <3>1, <3>2
  <2>3. client # NoConn /\ CommitPending' => conn[client].tx = {T1, T2} /\ ~conn[client].aborted
    BY DEF Clean, TxOK
  <2>4. QED
    BY <1>1, <2>1, <2>2, <2>3 DEF TxOK
<1>3. DataOK'
  <2>1. \A t \in refused' \ unsure' : t \in refused \ unsure
    OBVIOUS
  <2>2. \A t \in refused' : t <= task
    BY <1>1 DEF Clean, DataOK
  <2>3. QED
    BY <1>1, <2>1, <2>2 DEF Clean, DataOK
<1>4. QED
  BY <1>2, <1>3

LEMMA TimeoutKeepsClean ==
  ASSUME Base, Clean, Timeout, ~strayed'
  PROVE  Clean'
<1>1. /\ waiting # 0 /\ answer = "none" /\ waiting' = 0 /\ answer' = "none"
      /\ pc \in {"begin", "write1", "write2", "commit", "rollback", "single"}
      /\ pc' = Caught(pc) /\ task' = task
      /\ refused' = refused \cup {task} /\ unsure' = unsure \cup {task}
      /\ worker # "dead" => pc \notin {"begin", "rollback"}
      /\ UNCHANGED <<promised, channel, handlers, client, conn, db>>
  BY DEF Timeout, Throw, Unanswered, Base, MainTyped, workerVars, dbVars
<1>2. ConnsOK' /\ UsersOK' /\ Pending' = Pending
  BY <1>1, MainStepKeepsUsers DEF Clean
<1>3. TxOK' /\ DataOK'
  BY <1>1, <1>2, UnansweredKeepsClean DEF CommitPending
<1>4. PendingOK'
  <2>1. worker = "dead" => Pending = {}
    BY NoElements DEF Base, NoWorker, Pending, Wire
  <2>2. \A m \in Pending : m.id # 0
    BY PendingIds
  <2>3. ASSUME NEW m \in Pending, Solo(m)
        PROVE  m.write[1] \in unsure'
    BY <1>1, <2>3, PendingKinds DEF Clean
  <2>4. ASSUME NEW m \in Pending, ~Solo(m)
        PROVE  pc' = "rollback" /\ task \in unsure' /\ m.kind \in {"query", "commit"}
    <3>1. pc \notin {"begin", "rollback"}
      BY <1>1, <2>1
    <3>2. m.id = waiting
      BY <2>4, <3>1 DEF Clean, PendingOK
    <3>3. m.kind \in {"query", "commit"} /\ pc \in {"write1", "write2", "commit"}
      BY <2>4, <3>1, <3>2, PendingKinds DEF Clean, Kinds
    <3>4. QED
      BY <1>1, <3>3 DEF Caught
  <2>5. \A m, n \in Pending : m.kind = "commit" /\ ~Solo(n) => n = m \/ n.kind = "rollback"
    BY DEF Clean, PendingOK
  <2>6. QED
    BY <1>1, <1>2, <2>2, <2>3, <2>4, <2>5 DEF PendingOK, Solo
<1>5. QED
  BY <1>2, <1>3, <1>4 DEF Clean

\* The worker is dead: the message goes nowhere.
LEMMA SendToNobodyKeepsClean ==
  ASSUME Base, Clean, Send, worker = "dead", ~strayed'
  PROVE  Clean'
<1>1. /\ waiting = 0 /\ answer = "none" /\ pc # "idle" /\ nextId \in Nat
      /\ UNCHANGED <<task, promised, worker, channel, handlers, client, conn, db>>
      /\ \/ Throw /\ Unanswered
         \/ waiting' = nextId /\ UNCHANGED <<pc, answer, refused, unsure, strayed>>
  BY DEF Send, Base, MainTyped, dbVars
<1>2. Pending = {} /\ client = NoConn
  BY NoElements DEF Base, NoWorker, Pending, Wire
<1>3. ConnsOK' /\ UsersOK' /\ Pending' = Pending
  BY <1>1, MainStepKeepsUsers DEF Clean
<1>4. PendingOK'
  BY <1>2, <1>3 DEF PendingOK
<1>5. CASE Throw /\ Unanswered
  <2>1. TxOK' /\ DataOK'
    BY <1>1, <1>3, <1>5, UnansweredKeepsClean DEF Throw, Unanswered, CommitPending
  <2>2. QED
    BY <1>3, <1>4, <2>1 DEF Clean
<1>6. CASE waiting' = nextId /\ UNCHANGED <<pc, answer, refused, unsure, strayed>>
  <2>1. TxOK'
    BY <1>1, <1>2, <1>6 DEF Clean, TxOK
  <2>2. DataOK'
    BY <1>1, <1>6 DEF Clean, DataOK
  <2>3. QED
    BY <1>3, <1>4, <2>1, <2>2 DEF Clean
<1>7. QED
  BY <1>1, <1>5, <1>6

LEMMA SendKeepsClean ==
  ASSUME Base, Clean, Send, worker # "dead", ~strayed'
  PROVE  Clean'
<1> DEFINE new == [id |-> nextId, kind |-> Kind(pc), write |-> WriteOf(pc)]
<1>1. /\ waiting = 0 /\ answer = "none" /\ nextId \in Nat \ {0} /\ task \in 1..MaxTasks
      /\ pc \in {"begin", "write1", "write2", "commit", "rollback", "single"}
      /\ worker' = "up" /\ channel' = Append(channel, new) /\ channel \in Seq(Posted)
      /\ UNCHANGED <<task, promised, handlers, client, conn, db>>
      /\ \/ Throw /\ Unanswered
         \/ waiting' = nextId /\ UNCHANGED <<pc, answer, refused, unsure, strayed>>
  BY BridgeAssumption DEF Send, Base, MainTyped, WorkerTyped, dbVars
<1>2. /\ new \in Posted /\ new.id = nextId /\ new.kind = Kind(pc) /\ new.write = WriteOf(pc)
      /\ Solo(new) <=> pc = "single"
      /\ Solo(new) => new.write[1] = task
      /\ new.kind = "commit" <=> pc = "commit"
      /\ new.kind = "rollback" <=> pc = "rollback"
      /\ new.kind = "begin" <=> pc = "begin"
      /\ new.kind = "query" /\ ~Solo(new) <=> pc \in {"write1", "write2"}
  BY <1>1 DEF Kind, WriteOf, Posted, Kinds, Solo
<1> HIDE DEF new
<1>3. Wire' = Wire \cup {new} /\ Pending' = Pending \cup {new}
  BY <1>1, <1>2, Appended DEF Wire, Pending
<1>4. ConnsOK'
  BY <1>1 DEF Clean, ConnsOK
<1>5. UsersOK'
  <2>1. pc \in {"begin", "single"} => client = NoConn
    BY <1>1 DEF Clean, TxOK
  <2>2. pc \in {"write1", "write2", "commit"} => client # NoConn
    <3>1. pc \in {"write1", "write2", "commit"} => worker = "up"
      BY DEF Base, NoWorker, WorkerTyped
    <3>2. QED
      BY <1>1, <3>1 DEF Clean, TxOK
  <2>3. /\ Solo(new) \/ new.kind = "begin" => client = NoConn
        /\ new.kind \in {"query", "commit"} /\ ~Solo(new) => client # NoConn
    BY <1>2, <2>1, <2>2
  <2>4. \A m \in Wire' : /\ Solo(m) \/ m.kind = "begin" => client = NoConn
                         /\ m.kind \in {"query", "commit"} /\ ~Solo(m) => client # NoConn
    BY <1>3, <2>3 DEF Clean, UsersOK
  <2>5. QED
    BY <1>1, <2>4 DEF Clean, UsersOK, Solo
<1>6. /\ \A m \in Pending : m.id # nextId /\ m.id # 0
      /\ pc # "rollback" => \A m \in Pending : Solo(m) /\ m.write[1] \in unsure
      /\ \A m \in Pending : Solo(m) => m.write[1] \in unsure
      /\ \A m \in Pending : ~Solo(m) => pc = "rollback" /\ task \in unsure /\ m.kind \in {"query", "commit"}
  BY <1>1, PendingIds, PendingKinds, NothingPending DEF Clean, PendingOK
<1>7. \A m, n \in Pending' : m.kind = "commit" /\ ~Solo(n) => n = m \/ n.kind = "rollback"
  <2> SUFFICES ASSUME NEW m \in Pending', NEW n \in Pending', m.kind = "commit", ~Solo(n)
               PROVE  n = m \/ n.kind = "rollback"
    OBVIOUS
  <2>0. ~Solo(m)
    BY DEF Solo
  <2>1. CASE m \in Pending /\ n \in Pending
    BY <2>1 DEF Clean, PendingOK
  <2>2. CASE m = new /\ n \in Pending
    BY <1>2, <1>6, <2>2
  <2>3. CASE m \in Pending /\ n = new
    BY <1>2, <1>6, <2>0, <2>3
  <2>4. QED
    BY <1>3, <2>1, <2>2, <2>3
<1>8. CommitPending' => CommitPending \/ pc = "commit"
  BY <1>2, <1>3 DEF CommitPending
<1>9. CASE Throw /\ Unanswered
  <2>1. /\ pc \notin {"begin", "rollback"} /\ pc' = Caught(pc) /\ waiting' = 0 /\ answer' = "none"
        /\ refused' = refused \cup {task} /\ unsure' = unsure \cup {task}
    BY <1>9 DEF Throw, Unanswered
  <2>2. TxOK' /\ DataOK'
    BY <1>1, <1>8, <2>1, UnansweredKeepsClean
  <2>3. \A m \in Pending' : Solo(m) => m.write[1] \in unsure'
    BY <1>2, <1>3, <1>6, <2>1
  <2>4. \A m \in Pending' : ~Solo(m) => pc' = "rollback" /\ task' \in unsure' /\ m.kind \in {"query", "commit"}
    <3>1. \A m \in Pending' : ~Solo(m) => m = new
      BY <1>3, <1>6, <2>1
    <3>2. ~Solo(new) => pc \in {"write1", "write2", "commit"} /\ new.kind \in {"query", "commit"}
      BY <1>1, <1>2, <2>1 DEF Kind
    <3>3. QED
      BY <1>1, <2>1, <3>1, <3>2 DEF Caught
  <2>5. \A m \in Pending' : m.id # waiting'
    BY <1>1, <1>2, <1>3, <1>6, <2>1
  <2>6. PendingOK'
    BY <1>7, <2>3, <2>4, <2>5 DEF PendingOK, Solo
  <2>7. QED
    BY <1>4, <1>5, <2>2, <2>6 DEF Clean
<1>10. CASE waiting' = nextId /\ UNCHANGED <<pc, answer, refused, unsure, strayed>>
  <2>1. Kind(pc)' = Kind(pc) /\ WriteOf(pc)' = WriteOf(pc) /\ T1' = T1 /\ T2' = T2
    BY <1>1, <1>10 DEF WriteOf, Kind, T1, T2
  <2>2. \A m \in Pending' : m.id = waiting' <=> m = new
    BY <1>2, <1>3, <1>6, <1>10
  <2>3. PendingOK'
    <3>1. \A m \in Pending' : m.id = waiting' => answer' = "none" /\ m.kind = Kind(pc)' /\ m.write = WriteOf(pc)'
      BY <1>1, <1>2, <1>10, <2>1, <2>2
    <3>2. \A m \in Pending' : Solo(m) => m.write[1] \in unsure' \/ m.id = waiting'
      BY <1>3, <1>6, <1>10, <2>2
    <3>3. \A m \in Pending' : ~Solo(m) /\ m.id # waiting' =>
            pc' = "rollback" /\ task' \in unsure' /\ m.kind \in {"query", "commit"}
      BY <1>1, <1>3, <1>6, <1>10, <2>2
    <3>4. QED
      BY <1>7, <3>1, <3>2, <3>3 DEF PendingOK, Solo
  <2>4. TxOK'
    <3>1. worker # "up" => pc \in {"begin", "single"}
      BY <1>1 DEF Base, NoWorker, WorkerTyped
    <3>2. QED
      BY <1>1, <1>8, <1>10, <2>1, <3>1 DEF Clean, TxOK
  <2>5. DataOK'
    BY <1>1, <1>10, <2>1 DEF Clean, DataOK
  <2>6. QED
    BY <1>4, <1>5, <2>3, <2>4, <2>5 DEF Clean
<1>11. QED
  BY <1>1, <1>9, <1>10

\* What the worker has is lost, or it is another one.
LEMMA EmptiedKeepsUsers ==
  ASSUME channel' = <<>>, handlers' = {}, client' = NoConn, conn' = [c \in Conns |-> NewConn]
  PROVE  PendingOK' /\ ConnsOK' /\ UsersOK'
<1>1. Pending' = {} /\ Wire' = {}
  BY NoElements DEF Pending, Wire
<1>2. PendingOK'
  BY <1>1 DEF PendingOK
<1>3. ConnsOK'
  <2>1. \A c \in Conns : conn'[c] = NewConn
    OBVIOUS
  <2>2. NewConn.tx = NoTx /\ NewConn.aborted = FALSE /\ NewConn.held = FALSE /\ NewConn.queue = <<>>
    BY DEF NewConn
  <2>3. QED
    BY <2>1, <2>2, NoElements DEF ConnsOK
<1>4. UsersOK'
  BY <1>1 DEF UsersOK
<1>5. QED
  BY <1>2, <1>3, <1>4

LEMMA ForgetKeepsClean ==
  ASSUME Base, Clean, Forget
  PROVE  Clean'
<1>1. /\ pc = "idle" /\ client = NoConn /\ worker' = "none" /\ channel' = <<>> /\ handlers' = {}
      /\ conn' = [c \in Conns |-> NewConn]
      /\ UNCHANGED <<pc, task, waiting, answer, nextId, promised, refused, unsure, strayed, client, db>>
  BY DEF Forget
<1>2. PendingOK' /\ ConnsOK' /\ UsersOK'
  BY <1>1, EmptiedKeepsUsers
<1>3. answer = "none"
  BY <1>1 DEF Base, MainTyped
<1>4. TxOK' /\ DataOK'
  BY <1>1, <1>3 DEF Clean, TxOK, DataOK
<1>5. QED
  BY <1>2, <1>4 DEF Clean

LEMMA StutterKeepsClean ==
  ASSUME Clean, UNCHANGED vars
  PROVE  Clean'
<1>1. UNCHANGED <<mainVars, workerVars, dbVars>>
  BY DEF vars
<1>2. /\ UNCHANGED <<pc, task, waiting, answer, nextId, promised, refused, unsure, strayed>>
      /\ UNCHANGED <<worker, channel, handlers, client, conn, db>>
  BY <1>1 DEF mainVars, workerVars, dbVars
<1>3. ConnsOK' /\ UsersOK' /\ Pending' = Pending
  BY <1>2, MainStepKeepsUsers DEF Clean
<1>4. PendingOK'
  BY <1>2, <1>3 DEF Clean, PendingOK, WriteOf
<1>5. TxOK' /\ DataOK'
  BY <1>2, <1>3 DEF Clean, TxOK, DataOK, CommitPending, T1, T2
<1>6. QED
  BY <1>3, <1>4, <1>5 DEF Clean

\* The pool has nothing to close.
LEMMA NoIdleTransaction ==
  ASSUME Base, Clean, NEW c \in Conns
  PROVE  ~CloseIdle(c)
<1>1. CASE c = client
  <2>1. conn[c].held
    BY <1>1, BridgeAssumption DEF Clean, ConnsOK
  <2>2. QED
    BY <2>1 DEF CloseIdle
<1>2. CASE c # client
  <2>1. conn[c].tx = NoTx
    BY <1>2 DEF Clean, ConnsOK
  <2>2. QED
    BY <2>1 DEF CloseIdle
<1>3. QED
  BY <1>1, <1>2

-----------------------------------------------------------------------------
\* The steps of the worker.

\* No message is posted, and if one is answered it is not pending any more.
LEMMA FewerPending ==
  ASSUME PendingOK, MainStill, Pending' \subseteq Pending,
         answer' = answer \/ \A x \in Pending' : x.id # waiting
  PROVE  PendingOK' /\ (CommitPending' => CommitPending) /\ T1' = T1 /\ T2' = T2
<1>1. Kind(pc)' = Kind(pc) /\ WriteOf(pc)' = WriteOf(pc) /\ T1' = T1 /\ T2' = T2
  BY DEF MainStill, WriteOf, Kind, T1, T2
<1>2. PendingOK'
  BY <1>1 DEF MainStill, PendingOK, Solo
<1>3. CommitPending' => CommitPending
  BY DEF CommitPending
<1>4. QED
  BY <1>1, <1>2, <1>3

\* An answer of nobody's call leaves the main thread and the data alone.
LEMMA SameDataKeepsClean ==
  ASSUME Clean, MainStill, UNCHANGED <<answer, db, worker, client>>, PendingOK',
         CommitPending' => CommitPending, T1' = T1, T2' = T2,
         client # NoConn => /\ conn'[client].tx = conn[client].tx
                            /\ conn'[client].aborted = conn[client].aborted
  PROVE  TxOK' /\ DataOK'
<1>1. DataOK'
  BY DEF Clean, DataOK, MainStill
<1>2. TxOK'
  BY DEF Clean, TxOK, MainStill
<1>3. QED
  BY <1>1, <1>2

LEMMA ForwardKeepsClean ==
  ASSUME Base, Clean, NEW m \in Posted, TakenOff(m), Forwarded(m)
  PROVE  Clean'
<1> DEFINE g == Taken(m, "client", client)
<1>1. /\ m \in Wire /\ Wire = {m} \cup Wire' /\ MainStill /\ m \in Pending
      /\ client \in Conns /\ client # NoConn /\ handlers' = handlers \cup {g}
      /\ conn'[client].queue = Append(conn[client].queue, m)
      /\ \A d \in Conns \ {client} : conn'[d].queue = conn[d].queue
      /\ \A d \in Conns : conn'[d].held = conn[d].held /\ conn'[d].tx = conn[d].tx
                          /\ conn'[d].aborted = conn[d].aborted
      /\ UNCHANGED <<client, answer, worker, db>>
  BY BridgeAssumption DEF TakenOff, Forwarded, SameUse, Pending
<1>2. g \in Handlers /\ Message(g) = m /\ g.id = m.id /\ g.at = "client" /\ g.conn = client
  BY <1>1, TakenTypes
<1>3. ~Solo(m) /\ ~Solo(g)
  BY <1>1, <1>2, HandlerTypes DEF Clean, UsersOK
<1> HIDE DEF g
<1>4. PendingOK' /\ (CommitPending' => CommitPending) /\ T1' = T1 /\ T2' = T2
  <2>1. Pending' \subseteq Pending
    BY <1>1, <1>2 DEF Pending
  <2>2. QED
    BY <1>1, <2>1, FewerPending DEF Clean
<1>5. ConnsOK'
  <2>1. ASSUME NEW x \in Sent(client)
        PROVE  <<x, m>> \in Lined
    <3>1. PICK h \in handlers : Message(h) = x
      BY <1>1 DEF Base, Queued
    <3>2. h.id < m.id
      BY <1>1 DEF Base, InOrder
    <3>3. x \in Posted /\ x.id = h.id
      BY <3>1, HandlerTypes DEF Base, WorkerTyped
    <3>4. QED
      BY <3>2, <3>3 DEF Lined
  <2>2. conn[client].queue \in Seq(Posted) /\ Follows(conn[client].queue, Lined)
    BY <1>1 DEF Clean, ConnsOK, Base, WorkerTyped, ConnsOf
  <2>3. Follows(conn'[client].queue, Lined)
    BY <1>1, <2>1, <2>2, AppendedFollows DEF Sent
  <2>4. \A c \in Conns : Follows(conn'[c].queue, Lined)
    BY <1>1, <2>3 DEF Clean, ConnsOK
  <2>5. \A c \in Conns \ {client} : conn'[c].held => \E h \in handlers' : h.at = "pool" /\ h.conn = c
    BY <1>1 DEF Clean, ConnsOK
  <2>6. QED
    BY <1>1, <2>4, <2>5 DEF Clean, ConnsOK
<1>6. UsersOK'
  <2>1. \A h \in handlers : h.at = "pool" => h.conn \in Conns
    BY DEF Base, Queued
  <2>2. \A h \in handlers' : h.at = "pool" => h \in handlers /\ Solo(h) /\ h.conn # client /\ conn'[h.conn].held
    BY <1>1, <1>2, <2>1 DEF Clean, UsersOK
  <2>3. \A h, k \in handlers' : h.at = "pool" /\ k.at = "pool" /\ h.conn = k.conn => h = k
    BY <2>2 DEF Clean, UsersOK
  <2>4. \A h \in handlers' : h.at = "client" =>
          ~Solo(h) /\ (h.conn = client \/ (client = NoConn /\ h.kind = "rollback"))
    BY <1>1, <1>2, <1>3 DEF Clean, UsersOK
  <2>5. \A h \in handlers' : h.at = "connect" => Solo(h) \/ (h.kind = "begin" /\ client = NoConn)
    BY <1>1, <1>2 DEF Clean, UsersOK
  <2>6. \A x \in Wire' : /\ Solo(x) \/ x.kind = "begin" => client = NoConn
                         /\ x.kind \in {"query", "commit"} /\ ~Solo(x) => client # NoConn
    BY <1>1 DEF Clean, UsersOK
  <2>7. QED
    BY <1>1, <2>2, <2>3, <2>4, <2>5, <2>6 DEF UsersOK, Solo
<1>7. TxOK' /\ DataOK'
  BY <1>1, <1>4, SameDataKeepsClean
<1>8. QED
  BY <1>4, <1>5, <1>6, <1>7 DEF Clean

LEMMA WaitKeepsClean ==
  ASSUME Base, Clean, NEW m \in Posted, TakenOff(m), Waits(m)
  PROVE  Clean'
<1> DEFINE g == Taken(m, "connect", NoConn)
<1>1. /\ m \in Wire /\ Wire = {m} \cup Wire' /\ MainStill /\ m \in Pending
      /\ client = NoConn /\ handlers' = handlers \cup {g} /\ m.kind \in {"query", "begin"}
      /\ UNCHANGED <<conn, client, answer, worker, db>>
  BY DEF TakenOff, Waits, Pending
<1>2. g \in Handlers /\ Message(g) = m /\ g.at = "connect" /\ g.kind = m.kind
  BY <1>1, TakenTypes
<1>3. Solo(g) \/ g.kind = "begin"
  BY <1>1, <1>2, HandlerTypes DEF Clean, UsersOK
<1> HIDE DEF g
<1>4. PendingOK' /\ (CommitPending' => CommitPending) /\ T1' = T1 /\ T2' = T2
  <2>1. Pending' \subseteq Pending
    BY <1>1, <1>2 DEF Pending
  <2>2. QED
    BY <1>1, <2>1, FewerPending DEF Clean
<1>5. ConnsOK'
  <2>1. \A c \in Conns \ {client} : conn[c].held => \E h \in handlers' : h.at = "pool" /\ h.conn = c
    BY <1>1 DEF Clean, ConnsOK
  <2>2. QED
    BY <1>1, <2>1 DEF Clean, ConnsOK
<1>6. UsersOK'
  <2>1. \A h \in handlers' : h.at # "connect" => h \in handlers
    BY <1>1, <1>2
  <2>2. \A h \in handlers' : h.at = "connect" => Solo(h) \/ (h.kind = "begin" /\ client = NoConn)
    BY <1>1, <1>3 DEF Clean, UsersOK
  <2>3. \A x \in Wire' : x \in Wire
    BY <1>1
  <2>4. QED
    BY <1>1, <2>1, <2>2, <2>3 DEF Clean, UsersOK, Solo
<1>7. TxOK' /\ DataOK'
  BY <1>1, <1>4, SameDataKeepsClean
<1>8. QED
  BY <1>4, <1>5, <1>6, <1>7 DEF Clean

\* Only a ROLLBACK is refused: the COMMIT that was late has run before it.
LEMMA RefusalKeepsClean ==
  ASSUME Base, Clean, NEW m \in Posted, TakenOff(m), Refused(m)
  PROVE  Clean'
<1>1. /\ m \in Wire /\ Wire = {m} \cup Wire' /\ (\A x \in Wire' : m.id < x.id)
      /\ MainStill /\ m \in Pending
      /\ client' = NoConn /\ Answers(m, "error")
      /\ UNCHANGED <<handlers, worker, db>>
  BY DEF TakenOff, Refused, Pending
<1>2. m.kind = "rollback" /\ client = NoConn
  BY <1>1 DEF Refused, Clean, UsersOK, Solo
<1>3. conn' = conn /\ client' = client
  BY <1>1, <1>2 DEF Refused, Released
<1>4. m.id = waiting /\ pc = "rollback" /\ answer' = "error"
  BY <1>1, <1>2, PendingKinds DEF Clean, Answers
<1>5. Pending' \subseteq Pending /\ \A x \in Pending' : x.id # waiting
  <2>1. Pending' \subseteq Pending
    BY <1>1 DEF Pending
  <2>2. \A x \in Wire' : x.id # m.id
    BY <1>1, PendingIds DEF Pending, Posted
  <2>3. \A h \in handlers : Message(h).id # m.id
    <3>1. \A h \in handlers : h.id < m.id /\ h.id \in Nat /\ Message(h).id = h.id
      BY <1>1, HandlerTypes DEF Base, InOrder, WorkerTyped, Handlers
    <3>2. QED
      BY <3>1 DEF Posted
  <2>4. QED
    BY <1>1, <1>4, <2>1, <2>2, <2>3 DEF Pending
<1>6. PendingOK' /\ T1' = T1 /\ T2' = T2
  BY <1>1, <1>5, FewerPending DEF Clean
<1>7. ConnsOK' /\ UsersOK'
  <2>1. Wire' \subseteq Wire
    BY <1>1
  <2>2. ConnsOK'
    BY <1>1, <1>3 DEF Clean, ConnsOK
  <2>3. UsersOK'
    BY <1>1, <1>3, <2>1 DEF Clean, UsersOK
  <2>4. QED
    BY <2>2, <2>3
<1>8. TxOK' /\ DataOK'
  BY <1>1, <1>4 DEF Clean, TxOK, DataOK, MainStill
<1>9. QED
  BY <1>6, <1>7, <1>8 DEF Clean

LEMMA HandleKeepsClean ==
  ASSUME Base, Clean, HandleMessage
  PROVE  Clean'
BY HandleEffect, ForwardKeepsClean, WaitKeepsClean, RefusalKeepsClean

\* A handler of the clean part of the invariant.
LEMMA HandlerKinds ==
  ASSUME Base, PendingOK, NEW h \in handlers
  PROVE  /\ h \in Handlers /\ Message(h) \in Pending /\ Message(h).id = h.id
         /\ h.id \in Nat \ {0} /\ h.id < nextId
         /\ waiting # 0 => waiting = nextId - 1
         /\ h.kind = "begin" => h.id = waiting /\ pc = "begin" /\ answer = "none"
         /\ h.kind = "rollback" => h.id = waiting /\ pc = "rollback" /\ answer = "none"
         /\ h.kind = "commit" => /\ h.id = waiting => pc = "commit" /\ answer = "none"
                                 /\ h.id # waiting => pc = "rollback" /\ task \in unsure
         /\ h.kind = "query" /\ ~Solo(h) =>
              /\ h.id = waiting => answer = "none" /\ \/ pc = "write1" /\ h.write = T1
                                                      \/ pc = "write2" /\ h.write = T2
              /\ h.id # waiting => pc = "rollback" /\ task \in unsure
         /\ Solo(h) => /\ h.id = waiting => pc = "single" /\ answer = "none" /\ h.write = <<task, 0>>
                       /\ h.id # waiting => h.write[1] \in unsure
         /\ h.kind = "query" => h.write \in AllWrites
         /\ h.kind \in Kinds
<1> DEFINE m == Message(h)
<1>1. h \in Handlers
  BY DEF Base, WorkerTyped
<1>2. /\ m \in Pending /\ m.id = h.id /\ m.kind = h.kind /\ m.write = h.write
      /\ Solo(m) <=> Solo(h)
  BY <1>1, HandlerTypes DEF Pending
<1> HIDE DEF m
<1>3. PICK x \in Pending : x = m
  BY <1>2
<1>4. /\ x.id \in Nat \ {0} /\ x.id < nextId
      /\ waiting # 0 => waiting = nextId - 1
      /\ x.kind = "begin" => x.id = waiting /\ pc = "begin" /\ answer = "none"
      /\ x.kind = "rollback" => x.id = waiting /\ pc = "rollback" /\ answer = "none"
      /\ x.kind = "commit" => /\ x.id = waiting => pc = "commit" /\ answer = "none"
                              /\ x.id # waiting => pc = "rollback" /\ task \in unsure
      /\ x.kind = "query" /\ ~Solo(x) =>
           /\ x.id = waiting => answer = "none" /\ \/ pc = "write1" /\ x.write = T1
                                                   \/ pc = "write2" /\ x.write = T2
           /\ x.id # waiting => pc = "rollback" /\ task \in unsure
      /\ Solo(x) => /\ x.id = waiting => pc = "single" /\ answer = "none" /\ x.write = <<task, 0>>
                    /\ x.id # waiting => x.write[1] \in unsure
      /\ x.kind = "query" => x.write \in AllWrites
      /\ x.kind \in Kinds
  BY PendingKinds
<1>5. QED
  BY <1>1, <1>2, <1>3, <1>4 DEF m

\* BEGIN gets its connection.
LEMMA BeginConnectsCleanly ==
  ASSUME Base, Clean, NEW h, NEW c \in Conns, NEW g, Connected(h, c, g), h.kind = "begin"
  PROVE  Clean'
<1>1. /\ h \in handlers /\ g \in Handlers /\ h.at = "connect" /\ ~conn[c].held
      /\ Message(g) = Message(h) /\ g.kind = "begin" /\ g.id = h.id
      /\ g.at = "client" /\ g.conn = c
      /\ handlers' = (handlers \ {h}) \cup {g}
      /\ conn' \in [Conns -> ConnsOf]
      /\ conn'[c].queue = Append(conn[c].queue, Message(h))
      /\ conn'[c].held /\ conn'[c].tx = conn[c].tx /\ conn'[c].aborted = conn[c].aborted
      /\ \A d \in Conns \ {c} : conn'[d] = conn[d]
      /\ client' = c /\ UNCHANGED <<worker, channel, db>>
      /\ MainStill /\ answer' = answer
  BY DEF Connected, mainVars, MainStill
<1>2. /\ client = NoConn /\ h.id = waiting /\ waiting = nextId - 1 /\ waiting # 0
      /\ pc = "begin" /\ answer = "none" /\ c # NoConn /\ h.id \in Nat /\ nextId \in Nat
  <2>1. client = NoConn
    BY <1>1 DEF Clean, UsersOK, Solo
  <2>2. QED
    BY <1>1, <2>1, HandlerKinds, BridgeAssumption DEF Clean, Base, MainTyped
<1>3. Wire' = {}
  <2>1. ASSUME NEW x \in Wire
        PROVE  FALSE
    <3>1. h.id < x.id
      BY <1>1 DEF Base, InOrder
    <3>2. x.id \in Nat /\ x.id < nextId
      BY PendingIds DEF Pending
    <3>3. QED
      BY <1>2, <3>1, <3>2
  <2>2. QED
    BY <1>1, <2>1 DEF Wire
<1>4. \A k \in handlers : k.kind # "rollback" /\ (k.kind = "begin" => k = h)
  BY <1>1, <1>2, HandlerKinds DEF Clean, Base, InOrder
<1>5. \A k \in handlers : k.at # "client"
  BY <1>2, <1>4, BridgeAssumption DEF Clean, UsersOK, Base, Queued
<1>6. PendingOK' /\ (CommitPending' => CommitPending) /\ T1' = T1 /\ T2' = T2
  <2>1. Pending' \subseteq Pending
    BY <1>1, <1>3 DEF Pending
  <2>2. QED
    BY <1>1, <2>1, FewerPending DEF Clean
<1>7. conn[c].tx = NoTx /\ ~conn[c].aborted
  BY <1>2 DEF Clean, ConnsOK
<1>8. ConnsOK'
  <2>1. ASSUME NEW x \in Sent(c)
        PROVE  <<x, Message(h)>> \in Lined
    <3>1. PICK k \in handlers : k.conn = c /\ Message(k) = x
      BY DEF Base, Queued
    <3>2. k \in Handlers /\ k.at = "pool"
      BY <1>2, <1>5, <3>1 DEF Base, Queued, WorkerTyped, Handlers
    <3>3. Solo(x) /\ x \in Posted
      BY <3>1, <3>2, HandlerTypes DEF Clean, UsersOK
    <3>4. Message(h) \in Posted
      BY <1>1, HandlerTypes DEF Base, WorkerTyped
    <3>5. QED
      BY <3>3, <3>4 DEF Lined
  <2>2. conn[c].queue \in Seq(Posted) /\ Follows(conn[c].queue, Lined) /\ Message(h) \in Posted
    BY <1>1, HandlerTypes DEF Clean, ConnsOK, Base, WorkerTyped, ConnsOf
  <2>3. Follows(conn'[c].queue, Lined)
    BY <1>1, <2>1, <2>2, AppendedFollows DEF Sent
  <2>4. \A d \in Conns : Follows(conn'[d].queue, Lined)
    BY <1>1, <2>3 DEF Clean, ConnsOK
  <2>5. ASSUME NEW d \in Conns \ {c}
        PROVE  /\ conn'[d].tx = NoTx /\ ~conn'[d].aborted
               /\ conn'[d].held => \E k \in handlers' : k.at = "pool" /\ k.conn = d
    <3>1. d # NoConn /\ conn'[d] = conn[d]
      BY <1>1, BridgeAssumption
    <3>2. conn[d].tx = NoTx /\ ~conn[d].aborted
      BY <1>2, <3>1 DEF Clean, ConnsOK
    <3>3. ASSUME conn[d].held
          PROVE  \E k \in handlers' : k.at = "pool" /\ k.conn = d
      <4>1. PICK k \in handlers : k.at = "pool" /\ k.conn = d
        BY <1>2, <3>1, <3>3 DEF Clean, ConnsOK
      <4>2. QED
        BY <1>1, <4>1
    <3>4. QED
      BY <3>1, <3>2, <3>3
  <2>6. QED
    BY <1>1, <2>4, <2>5 DEF ConnsOK
<1>9. UsersOK'
  <2>1. ASSUME NEW k \in handlers', k.at = "pool"
        PROVE  k \in handlers /\ Solo(k) /\ k.conn # c /\ conn'[k.conn].held
    <3>1. k \in handlers
      BY <1>1, <2>1
    <3>2. Solo(k) /\ conn[k.conn].held /\ k.conn \in Conns
      BY <2>1, <3>1 DEF Clean, UsersOK, Base, Queued
    <3>3. QED
      BY <1>1, <3>1, <3>2
  <2>2. \A k, l \in handlers' : k.at = "pool" /\ l.at = "pool" /\ k.conn = l.conn => k = l
    BY <2>1 DEF Clean, UsersOK
  <2>3. \A k \in handlers' : k.at = "client" => ~Solo(k) /\ k.conn = c
    BY <1>1, <1>5 DEF Solo
  <2>4. \A k \in handlers' : k.at = "connect" => Solo(k)
    BY <1>1, <1>4 DEF Clean, UsersOK
  <2>5. QED
    BY <1>1, <1>3, <2>1, <2>2, <2>3, <2>4 DEF UsersOK, Solo
<1>10. ~CommitPending'
  BY <1>2, <1>6, PendingKinds DEF CommitPending, Clean
<1>11. TxOK'
  BY <1>1, <1>2, <1>7, <1>10 DEF TxOK, MainStill
<1>12. DataOK'
  BY <1>1, <1>6 DEF Clean, DataOK, MainStill
<1>13. QED
  BY <1>6, <1>8, <1>9, <1>11, <1>12 DEF Clean

\* A single statement gets its connection.
LEMMA QueryConnectsCleanly ==
  ASSUME Base, Clean, NEW h, NEW c \in Conns, NEW g, Connected(h, c, g), h.kind # "begin"
  PROVE  Clean'
<1>1. /\ h \in handlers /\ g \in Handlers /\ h.at = "connect" /\ ~conn[c].held
      /\ Message(g) = Message(h) /\ g.kind = h.kind /\ g.write = h.write /\ g.id = h.id
      /\ g.at = "pool" /\ g.conn = c
      /\ handlers' = (handlers \ {h}) \cup {g}
      /\ conn' \in [Conns -> ConnsOf]
      /\ conn'[c].queue = Append(conn[c].queue, Message(h))
      /\ conn'[c].held /\ conn'[c].tx = conn[c].tx /\ conn'[c].aborted = conn[c].aborted
      /\ \A d \in Conns \ {c} : conn'[d] = conn[d]
      /\ UNCHANGED <<worker, channel, db, client>>
      /\ MainStill /\ answer' = answer
  BY DEF Connected, mainVars, MainStill
<1>2. Solo(h) /\ Solo(g)
  BY <1>1 DEF Clean, UsersOK, Solo
<1>3. c # client /\ c # NoConn
  BY <1>1, BridgeAssumption DEF Clean, ConnsOK
<1>4. PendingOK' /\ (CommitPending' => CommitPending) /\ T1' = T1 /\ T2' = T2
  <2>1. Pending' \subseteq Pending
    BY <1>1 DEF Pending, Wire
  <2>2. QED
    BY <1>1, <2>1, FewerPending DEF Clean
<1>5. client # NoConn => client \in Conns /\ conn'[client] = conn[client]
  BY <1>1, <1>3 DEF Base, WorkerTyped
<1>6. ConnsOK'
  <2>1. Message(h) \in Posted /\ Solo(Message(h))
    BY <1>1, <1>2, HandlerTypes DEF Base, WorkerTyped
  <2>2. conn[c].queue \in Seq(Posted) /\ Follows(conn[c].queue, Lined)
    BY <1>1 DEF Clean, ConnsOK, Base, WorkerTyped, ConnsOf
  <2>3. \A x \in Elems(conn[c].queue) : <<x, Message(h)>> \in Lined
    BY <2>1, <2>2, ElemsPosted DEF Lined
  <2>4. Follows(conn'[c].queue, Lined)
    BY <1>1, <2>1, <2>2, <2>3, AppendedFollows
  <2>5. \A d \in Conns : Follows(conn'[d].queue, Lined)
    BY <1>1, <2>4 DEF Clean, ConnsOK
  <2>6. ASSUME NEW d \in Conns \ {client}
        PROVE  /\ conn'[d].tx = NoTx /\ ~conn'[d].aborted
               /\ conn'[d].held => \E k \in handlers' : k.at = "pool" /\ k.conn = d
    <3>1. conn[d].tx = NoTx /\ ~conn[d].aborted
      BY DEF Clean, ConnsOK
    <3>2. CASE d = c
      BY <1>1, <3>1, <3>2
    <3>3. CASE d # c
      <4>1. conn'[d] = conn[d]
        BY <1>1, <3>3
      <4>2. ASSUME conn[d].held
            PROVE  \E k \in handlers' : k.at = "pool" /\ k.conn = d
        <5>1. PICK k \in handlers : k.at = "pool" /\ k.conn = d
          BY <4>2 DEF Clean, ConnsOK
        <5>2. QED
          BY <1>1, <5>1
      <4>3. QED
        BY <3>1, <4>1, <4>2
    <3>4. QED
      BY <3>2, <3>3
  <2>7. client # NoConn => conn'[client].held
    BY <1>5 DEF Clean, ConnsOK
  <2>8. QED
    BY <1>1, <2>5, <2>6, <2>7 DEF ConnsOK
<1>7. UsersOK'
  <2>1. ASSUME NEW k \in handlers', k.at = "pool"
        PROVE  /\ Solo(k) /\ k.conn # client /\ conn'[k.conn].held
               /\ k = g \/ (k \in handlers /\ k.conn # c)
    <3>1. CASE k = g
      BY <1>1, <1>2, <1>3, <3>1
    <3>2. CASE k \in handlers
      <4>1. Solo(k) /\ k.conn # client /\ conn[k.conn].held /\ k.conn \in Conns
        BY <2>1, <3>2 DEF Clean, UsersOK, Base, Queued
      <4>2. QED
        BY <1>1, <3>2, <4>1
    <3>3. QED
      BY <1>1, <3>1, <3>2
  <2>2. \A k, l \in handlers' : k.at = "pool" /\ l.at = "pool" /\ k.conn = l.conn => k = l
    BY <1>1, <2>1 DEF Clean, UsersOK
  <2>3. \A k \in handlers' : k.at # "pool" => k \in handlers
    BY <1>1
  <2>4. Wire' = Wire
    BY <1>1 DEF Wire
  <2>5. QED
    BY <1>1, <2>1, <2>2, <2>3, <2>4 DEF Clean, UsersOK, Solo
<1>8. TxOK' /\ DataOK'
  BY <1>1, <1>4, <1>5, SameDataKeepsClean
<1>9. QED
  BY <1>4, <1>6, <1>7, <1>8 DEF Clean

LEMMA ConnectKeepsClean ==
  ASSUME Base, Clean, NEW h \in handlers, NEW c \in Conns, Connect(h, c)
  PROVE  Clean'
BY ConnectEffect, BeginConnectsCleanly, QueryConnectsCleanly

LEMMA ConnectFailsKeepsClean ==
  ASSUME Base, Clean, NEW h \in handlers, ConnectFails(h)
  PROVE  Clean'
<1>1. /\ h.at = "connect" /\ handlers' = handlers \ {h} /\ UNCHANGED <<worker, channel, db>>
      /\ MainStill /\ Answers(h, "error")
  BY DEF ConnectFails, Respond, MainStill, Answers
<1>2. UNCHANGED <<conn, client>>
  BY <1>1 DEF ConnectFails, Released, Clean, UsersOK, Solo
<1>3. \A x \in Pending' : x \in Pending /\ x.id # h.id
  <2>1. \A k \in handlers' : k \in handlers /\ k.id # h.id /\ Message(k).id = k.id
    BY <1>1, HandlerKinds DEF Base, InOrder, Clean
  <2>2. \A x \in Wire : x.id # h.id
    <3>1. \A x \in Wire : h.id < x.id /\ x.id \in Nat
      BY PendingIds DEF Base, InOrder, Pending
    <3>2. h.id \in Nat
      BY HandlerKinds DEF Clean
    <3>3. QED
      BY <3>1, <3>2
  <2>3. QED
    BY <1>1, <2>1, <2>2 DEF Pending, Wire
<1>4. answer' = answer \/ \A x \in Pending' : x.id # waiting
  BY <1>1, <1>3 DEF Answers
<1>5. PendingOK' /\ (CommitPending' => CommitPending) /\ T1' = T1 /\ T2' = T2
  BY <1>1, <1>3, <1>4, FewerPending DEF Clean
<1>6. ConnsOK'
  <2>1. \A c \in Conns \ {client} : conn[c].held => \E k \in handlers' : k.at = "pool" /\ k.conn = c
    BY <1>1 DEF Clean, ConnsOK
  <2>2. QED
    BY <1>2, <2>1 DEF Clean, ConnsOK
<1>7. UsersOK'
  <2>1. Wire' = Wire /\ \A k \in handlers' : k \in handlers
    BY <1>1 DEF Wire
  <2>2. QED
    BY <1>2, <2>1 DEF Clean, UsersOK, Solo
<1>8. TxOK' /\ DataOK'
  <2>1. CASE answer' = answer
    BY <1>1, <1>2, <1>5, <2>1, SameDataKeepsClean
  <2>2. CASE answer' # answer
    <3>1. h.id = waiting /\ answer' = "error" /\ answer = "none" /\ client = NoConn
          /\ pc \in {"begin", "single"}
      <4>1. h.id = waiting /\ answer' = "error"
        BY <1>1, <2>2 DEF Answers
      <4>2. Solo(h) \/ (h.kind = "begin" /\ client = NoConn)
        BY <1>1 DEF Clean, UsersOK
      <4>3. QED
        BY <4>1, <4>2, HandlerKinds DEF Clean, TxOK
    <3>2. TxOK'
      BY <1>1, <1>2, <3>1 DEF Clean, TxOK, MainStill
    <3>3. DataOK'
      <4>1. worker = "up" /\ worker' = "up"
        BY <1>1 DEF Base, NoWorker
      <4>2. QED
        BY <1>1, <3>1, <4>1 DEF Clean, DataOK, MainStill
    <3>4. QED
      BY <3>2, <3>3
  <2>3. QED
    BY <2>1, <2>2
<1>9. QED
  BY <1>5, <1>6, <1>7, <1>8 DEF Clean

-----------------------------------------------------------------------------
\* A statement runs.

\* What all statements have in common.
LEMMA ExecutedPending ==
  ASSUME Base, Clean, NEW c \in Conns, NEW h \in handlers, NEW fails \in BOOLEAN, Executed(h, c, fails)
  PROVE  /\ PendingOK' /\ (CommitPending' => CommitPending) /\ T1' = T1 /\ T2' = T2
         /\ \A x \in Pending' : x \in Pending /\ x.id # h.id
         /\ \A k \in handlers' : k \in handlers /\ k.id # h.id
         /\ Wire' = Wire /\ \A x \in Wire : h.id < x.id /\ x.id < nextId
         /\ \A d \in Conns : Follows(conn'[d].queue, Lined)
<1>1. /\ handlers' = handlers \ {h} /\ channel' = channel /\ MainStill
      /\ h.id # waiting => answer' = answer
      /\ conn[c].queue # <<>> /\ conn[c].queue \in Seq(Posted)
      /\ conn'[c].queue = Tail(conn[c].queue)
      /\ \A d \in Conns \ {c} : conn'[d].queue = conn[d].queue
  BY DEF Executed, Answers, Base, WorkerTyped, ConnsOf
<1>2. \A k \in handlers' : k \in handlers /\ k.id # h.id /\ Message(k).id = k.id
  BY <1>1, HandlerKinds DEF Base, InOrder, Clean
<1>3. \A x \in Wire : h.id < x.id /\ x.id \in Nat /\ x.id < nextId
  BY PendingIds DEF Base, InOrder, Pending
<1>4. Wire' = Wire
  BY <1>1 DEF Wire
<1>5. \A x \in Pending' : x \in Pending /\ x.id # h.id
  <2>1. h.id \in Nat
    BY HandlerKinds DEF Clean
  <2>2. QED
    BY <1>1, <1>2, <1>3, <1>4, <2>1 DEF Pending
<1>6. answer' = answer \/ \A x \in Pending' : x.id # waiting
  BY <1>1, <1>5
<1>7. PendingOK' /\ (CommitPending' => CommitPending) /\ T1' = T1 /\ T2' = T2
  BY <1>1, <1>5, <1>6, FewerPending DEF Clean
<1>8. ASSUME NEW d \in Conns
      PROVE  Follows(conn'[d].queue, Lined)
  <2>1. Follows(conn[d].queue, Lined)
    BY DEF Clean, ConnsOK
  <2>2. CASE d = c
    BY <1>1, <2>1, <2>2, RestFollows
  <2>3. CASE d # c
    BY <1>1, <2>1, <2>3
  <2>4. QED
    BY <2>2, <2>3
<1>9. QED
  BY <1>2, <1>3, <1>4, <1>5, <1>7, <1>8

\* A single statement runs on a connection of its own.
LEMMA PooledKeepsClean ==
  ASSUME Base, Clean, NEW c \in Conns, NEW h \in handlers, NEW fails \in BOOLEAN, Executed(h, c, fails),
         h.at = "pool"
  PROVE  Clean'
<1>1. /\ Solo(h) /\ h.kind = "query" /\ c # client /\ h.conn = c
      /\ conn[c].tx = NoTx /\ ~conn[c].aborted
  BY DEF Executed, Clean, UsersOK, ConnsOK, Solo
<1>2. /\ handlers' = handlers \ {h} /\ MainStill
      /\ conn'[c].tx = NoTx /\ ~conn'[c].aborted /\ ~conn'[c].held
      /\ \A d \in Conns \ {c} : /\ conn'[d].tx = conn[d].tx /\ conn'[d].aborted = conn[d].aborted
                                /\ conn'[d].held = conn[d].held
      /\ client' = client /\ db' = db \cup (IF fails THEN {} ELSE {h.write})
      /\ answer' = IF h.id = waiting THEN IF fails THEN "error" ELSE "ok" ELSE answer
      /\ worker = "up" /\ worker' = worker
  <2>1. ~Gives(h, fails) /\ ~Ends(h)
    BY <1>1 DEF Gives, Ends
  <2>2. TxAfter(c, h, fails) = NoTx /\ ~AbortedAfter(c, h, fails)
    BY <1>1 DEF TxAfter, AbortedAfter
  <2>3. Committed(c, h, fails) = IF fails THEN {} ELSE {h.write}
    BY <1>1 DEF Committed
  <2>4. \A d \in Conns : conn[d].held \in BOOLEAN
    BY DEF Base, WorkerTyped, ConnsOf
  <2>5. QED
    BY <1>1, <2>1, <2>2, <2>3, <2>4 DEF Executed, Answers
<1>3. client # NoConn => client \in Conns \ {c}
  BY <1>1 DEF Base, WorkerTyped
<1>4. ConnsOK'
  <2>1. ASSUME NEW d \in Conns \ {client}
        PROVE  /\ conn'[d].tx = NoTx /\ ~conn'[d].aborted
               /\ conn'[d].held => \E k \in handlers' : k.at = "pool" /\ k.conn = d
    <3>1. CASE d = c
      BY <1>2, <3>1
    <3>2. CASE d # c
      <4>1. conn[d].tx = NoTx /\ ~conn[d].aborted
        BY DEF Clean, ConnsOK
      <4>2. ASSUME conn[d].held
            PROVE  \E k \in handlers' : k.at = "pool" /\ k.conn = d
        <5>1. PICK k \in handlers : k.at = "pool" /\ k.conn = d
          BY <4>2 DEF Clean, ConnsOK
        <5>2. k # h
          BY <1>1, <3>2, <5>1
        <5>3. QED
          BY <1>2, <5>1, <5>2
      <4>3. QED
        BY <1>2, <3>2, <4>1, <4>2
    <3>3. QED
      BY <3>1, <3>2
  <2>2. client # NoConn => conn'[client].held
    BY <1>2, <1>3 DEF Clean, ConnsOK
  <2>3. QED
    BY <1>2, <2>1, <2>2, ExecutedPending DEF ConnsOK
<1>5. UsersOK'
  <2>1. ASSUME NEW k \in handlers', k.at = "pool"
        PROVE  Solo(k) /\ k.conn # client /\ conn'[k.conn].held
    <3>1. k \in handlers /\ k # h
      BY <1>2
    <3>2. k.conn # c
      BY <1>1, <2>1, <3>1 DEF Clean, UsersOK
    <3>3. Solo(k) /\ k.conn # client /\ conn[k.conn].held /\ k.conn \in Conns
      BY <2>1, <3>1 DEF Clean, UsersOK, Base, Queued
    <3>4. QED
      BY <1>2, <3>2, <3>3
  <2>2. Wire' = Wire /\ \A k \in handlers' : k \in handlers
    BY <1>2, ExecutedPending
  <2>3. QED
    BY <1>2, <2>1, <2>2 DEF Clean, UsersOK, Solo
<1>6. h.id = waiting => pc = "single" /\ answer = "none" /\ h.write = <<task, 0>> /\ client = NoConn
  BY <1>1, HandlerKinds DEF Clean, TxOK
<1>7. T1' = T1 /\ T2' = T2 /\ (CommitPending' => CommitPending)
  BY ExecutedPending
<1>8. TxOK'
  <2>1. CASE h.id = waiting
    BY <1>2, <1>6, <2>1 DEF Clean, TxOK, MainStill
  <2>2. CASE h.id # waiting
    BY <1>2, <1>3, <1>7, <2>2 DEF Clean, TxOK, MainStill
  <2>3. QED
    BY <2>1, <2>2
<1>9. DataOK'
  <2>1. /\ h.write \in AllWrites /\ h.write[2] = 0 /\ db \subseteq AllWrites
        /\ h.id # waiting => h.write[1] \in unsure
    BY <1>1, HandlerKinds DEF Solo, Clean, Base, WorkerTyped
  <2>2. unsure \subseteq refused /\ \A t \in refused : t <= task
    BY DEF Base, MainTyped, Clean, DataOK
  <2>3. task \in Nat
    BY BridgeAssumption DEF Base, MainTyped
  <2>4. PICK t \in 1..MaxTasks : h.write = <<t, 0>>
    BY <2>1 DEF AllWrites
  <2>5. CASE h.id = waiting
    <3>1. t = task /\ pc = "single" /\ answer' = IF fails THEN "error" ELSE "ok"
      BY <1>2, <1>6, <2>4, <2>5
    <3>2. /\ task \notin refused /\ \A n \in 0..2 : <<task, n>> \notin db
      BY <1>2, <1>6, <2>5 DEF Clean, DataOK
    <3>3. /\ \A w \in db' : w \in db \/ w = <<task, 0>>
          /\ db \subseteq db' /\ (~fails => <<task, 0>> \in db') /\ (fails => db' = db)
      BY <1>2, <2>4, <3>1
    <3>4. \A w \in db' : w[1] <= task
      BY <2>3, <3>3 DEF Clean, DataOK
    <3>5. ASSUME NEW s \in 1..MaxTasks
          PROVE  <<s, 1>> \in db' <=> <<s, 2>> \in db'
      <4>1. <<s, 1>> \in db <=> <<s, 2>> \in db
        BY DEF Clean, DataOK
      <4>2. <<s, 1>> # <<task, 0>> /\ <<s, 2>> # <<task, 0>>
        OBVIOUS
      <4>3. QED
        BY <3>3, <4>1, <4>2
    <3>6. \A s \in refused \ unsure, n \in 0..2 : <<s, n>> \notin db'
      BY <3>2, <3>3 DEF Clean, DataOK
    <3>7. promised \subseteq db'
      BY <3>3 DEF Clean, DataOK
    <3>8. QED
      BY <1>2, <1>6, <2>5, <3>1, <3>2, <3>3, <3>4, <3>5, <3>6, <3>7 DEF Clean, DataOK, MainStill
  <2>6. CASE h.id # waiting
    <3>1. t \in unsure /\ answer' = answer /\ t \in refused
      BY <1>2, <2>1, <2>2, <2>4, <2>6
    <3>2. db \subseteq db' /\ \A w \in db' : w \in db \/ w = <<t, 0>>
      BY <1>2, <2>4
    <3>3. pc \notin {"idle", "rollback"} => t # task
      BY <3>1 DEF Clean, DataOK
    <3>4. \A w \in db' : w[1] <= task
      BY <2>2, <3>1, <3>2 DEF Clean, DataOK
    <3>5. ASSUME NEW s \in 1..MaxTasks
          PROVE  <<s, 1>> \in db' <=> <<s, 2>> \in db'
      <4>1. <<s, 1>> \in db <=> <<s, 2>> \in db
        BY DEF Clean, DataOK
      <4>2. <<s, 1>> # <<t, 0>> /\ <<s, 2>> # <<t, 0>>
        OBVIOUS
      <4>3. QED
        BY <3>2, <4>1, <4>2
    <3>6. \A s \in refused \ unsure, n \in 0..2 : <<s, n>> \notin db'
      BY <3>1, <3>2 DEF Clean, DataOK
    <3>7. \/ pc \in {"idle", "rollback"} \/ (answer = "ok" /\ pc \in {"commit", "single"})
          \/ (answer = "lost" /\ pc = "single")
          \/ \A n \in 0..2 : <<task, n>> \notin db'
      BY <1>2, <3>2, <3>3 DEF Clean, DataOK
    <3>8. promised \subseteq db'
      BY <3>2 DEF Clean, DataOK
    <3>9. /\ answer = "ok" /\ pc = "commit" => {T1, T2} \subseteq db'
          /\ answer = "ok" /\ pc = "single" => <<task, 0>> \in db'
      BY <3>2 DEF Clean, DataOK
    <3>10. QED
      BY <1>2, <1>7, <3>1, <3>4, <3>5, <3>6, <3>7, <3>8, <3>9 DEF Clean, DataOK, MainStill
  <2>7. QED
    BY <2>5, <2>6
<1>10. QED
  BY <1>4, <1>5, <1>8, <1>9, ExecutedPending DEF Clean

\* A write of a transaction runs.
LEMMA WriteKeepsClean ==
  ASSUME Base, Clean, NEW c \in Conns, NEW h \in handlers, NEW fails \in BOOLEAN, Executed(h, c, fails),
         h.at = "client", h.kind = "query"
  PROVE  Clean'
<1>1. ~Solo(h) /\ h.conn = c /\ c = client /\ client # NoConn
  BY BridgeAssumption DEF Executed, Clean, UsersOK
<1>2. /\ h.id = waiting => answer = "none" /\ \/ pc = "write1" /\ h.write = T1
                                              \/ pc = "write2" /\ h.write = T2
      /\ h.id # waiting => pc = "rollback" /\ task \in unsure
      /\ h.write \in AllWrites
  BY <1>1, HandlerKinds DEF Clean
<1>3. conn[c].tx # NoTx /\ conn[c].tx \subseteq AllWrites
  <2>1. pc \in {"write1", "write2", "rollback"}
    BY <1>2
  <2>2. conn[c].tx # NoTx
    BY <1>1, <2>1 DEF Clean, TxOK
  <2>3. QED
    BY <2>2 DEF Base, WorkerTyped, ConnsOf
<1>4. /\ handlers' = handlers \ {h} /\ MainStill
      /\ conn'[c].tx = (IF fails THEN conn[c].tx ELSE conn[c].tx \cup {h.write})
      /\ ~fails /\ ~conn[c].aborted => ~conn'[c].aborted
      /\ \A d \in Conns \ {c} : /\ conn'[d].tx = conn[d].tx /\ conn'[d].aborted = conn[d].aborted
      /\ \A d \in Conns : conn'[d].held = conn[d].held
      /\ client' = client /\ db' = db
      /\ answer' = IF h.id = waiting THEN IF fails THEN "error" ELSE "ok" ELSE answer
      /\ worker' = worker
  <2>1. ~Gives(h, fails) /\ ~Ends(h)
    BY DEF Gives, Ends
  <2>2. TxAfter(c, h, fails) = (IF fails THEN conn[c].tx ELSE conn[c].tx \cup {h.write})
    BY <1>3 DEF TxAfter
  <2>3. ~fails /\ ~conn[c].aborted => ~AbortedAfter(c, h, fails)
    BY DEF AbortedAfter
  <2>4. Committed(c, h, fails) = {}
    BY <1>3 DEF Committed
  <2>5. \A d \in Conns : conn[d].held \in BOOLEAN
    BY DEF Base, WorkerTyped, ConnsOf
  <2>6. QED
    BY <1>1, <2>1, <2>2, <2>3, <2>4, <2>5 DEF Executed, Answers
<1>5. conn'[c].tx # NoTx
  <2>1. conn[c].tx \cup {h.write} \in SUBSET AllWrites
    BY <1>2, <1>3
  <2>2. QED
    BY <1>3, <1>4, <2>1, BridgeAssumption DEF AllWrites
<1>6. ConnsOK'
  <2>1. \A d \in Conns \ {client} : conn'[d].held => \E k \in handlers' : k.at = "pool" /\ k.conn = d
    <3> SUFFICES ASSUME NEW d \in Conns \ {client}, conn[d].held
                 PROVE  \E k \in handlers' : k.at = "pool" /\ k.conn = d
      BY <1>4
    <3>1. PICK k \in handlers : k.at = "pool" /\ k.conn = d
      BY DEF Clean, ConnsOK
    <3>2. QED
      BY <1>4, <3>1
  <2>2. QED
    BY <1>1, <1>4, <2>1, ExecutedPending DEF Clean, ConnsOK
<1>7. UsersOK'
  <2>1. Wire' = Wire /\ \A k \in handlers' : k \in handlers
    BY <1>4, ExecutedPending
  <2>2. \A k \in handlers : k.at = "pool" => k.conn \in Conns
    BY DEF Base, Queued
  <2>3. QED
    BY <1>4, <2>1, <2>2 DEF Clean, UsersOK, Solo
<1>8. T1' = T1 /\ T2' = T2 /\ ~CommitPending'
  <2>1. ASSUME NEW x \in Pending', x.kind = "commit"
        PROVE  FALSE
    <3>1. x \in Pending /\ Message(h) \in Pending /\ ~Solo(Message(h)) /\ Message(h).kind = "query"
      BY <1>1, <2>1, ExecutedPending, HandlerTypes DEF Pending, Base, WorkerTyped
    <3>2. QED
      BY <2>1, <3>1 DEF Clean, PendingOK
  <2>2. QED
    BY <2>1, ExecutedPending DEF CommitPending
<1>9. TxOK'
  <2>1. CASE h.id = waiting /\ pc = "write1"
    <3>1. conn[c].tx = {} /\ ~conn[c].aborted
      BY <1>1, <1>2, <2>1 DEF Clean, TxOK
    <3>2. ~fails => conn'[c].tx = {T1} /\ ~conn'[c].aborted
      BY <1>2, <1>4, <2>1, <3>1
    <3>3. QED
      BY <1>1, <1>4, <1>5, <1>8, <2>1, <3>2 DEF TxOK, MainStill
  <2>2. CASE h.id = waiting /\ pc = "write2"
    <3>1. conn[c].tx = {T1} /\ ~conn[c].aborted
      BY <1>1, <1>2, <2>2 DEF Clean, TxOK
    <3>2. ~fails => conn'[c].tx = {T1, T2} /\ ~conn'[c].aborted
      BY <1>2, <1>4, <2>2, <3>1
    <3>3. QED
      BY <1>1, <1>4, <1>5, <1>8, <2>2, <3>2 DEF TxOK, MainStill
  <2>3. CASE h.id # waiting
    BY <1>1, <1>2, <1>4, <1>5, <1>8, <2>3 DEF Clean, TxOK, MainStill
  <2>4. QED
    BY <1>2, <2>1, <2>2, <2>3
<1>10. DataOK'
  <2>1. answer' = answer \/ (answer = "none" /\ pc \in {"write1", "write2"})
    BY <1>2, <1>4
  <2>2. worker = "up" /\ worker' = "up"
    BY DEF Executed
  <2>3. QED
    BY <1>4, <1>8, <2>1, <2>2 DEF Clean, DataOK, MainStill
<1>11. QED
  BY <1>6, <1>7, <1>9, <1>10, ExecutedPending DEF Clean

\* BEGIN runs.
LEMMA BeginRunsCleanly ==
  ASSUME Base, Clean, NEW c \in Conns, NEW h \in handlers, NEW fails \in BOOLEAN, Executed(h, c, fails),
         h.at = "client", h.kind = "begin"
  PROVE  Clean'
<1>1. h.conn = c /\ c = client /\ client # NoConn
  BY BridgeAssumption DEF Executed, Clean, UsersOK
<1>2. h.id = waiting /\ pc = "begin" /\ answer = "none" /\ waiting # 0
  BY HandlerKinds DEF Clean
<1>3. conn[c].tx = NoTx /\ ~conn[c].aborted
  BY <1>1, <1>2 DEF Clean, TxOK
<1>4. /\ handlers' = handlers \ {h} /\ MainStill
      /\ conn'[c].tx = (IF fails THEN NoTx ELSE {}) /\ ~conn'[c].aborted
      /\ \A d \in Conns \ {c} : /\ conn'[d].tx = conn[d].tx /\ conn'[d].aborted = conn[d].aborted
                                /\ conn'[d].held = conn[d].held
      /\ conn'[c].held = (conn[c].held /\ ~fails)
      /\ client' = (IF fails THEN NoConn ELSE client) /\ db' = db
      /\ answer' = (IF fails THEN "error" ELSE "ok")
      /\ worker' = worker
  <2>1. Gives(h, fails) = fails /\ ~Ends(h)
    BY DEF Gives, Ends
  <2>2. TxAfter(c, h, fails) = IF fails THEN NoTx ELSE {}
    BY <1>3 DEF TxAfter
  <2>3. ~AbortedAfter(c, h, fails)
    BY <1>3 DEF AbortedAfter
  <2>4. Committed(c, h, fails) = {}
    BY DEF Committed
  <2>5. \A d \in Conns : conn[d].held \in BOOLEAN
    BY DEF Base, WorkerTyped, ConnsOf
  <2>6. QED
    BY <1>1, <1>2, <2>1, <2>2, <2>3, <2>4, <2>5 DEF Executed, Answers
<1>5. \A x \in Pending' : Solo(x)
  BY <1>2, ExecutedPending DEF Clean, PendingOK
<1>6. ConnsOK'
  <2>1. ASSUME NEW d \in Conns \ {client'}
        PROVE  /\ conn'[d].tx = NoTx /\ ~conn'[d].aborted
               /\ conn'[d].held => \E k \in handlers' : k.at = "pool" /\ k.conn = d
    <3>1. CASE d = c
      BY <1>1, <1>4, <3>1
    <3>2. CASE d # c
      <4>1. conn[d].tx = NoTx /\ ~conn[d].aborted
        BY <1>1, <3>2 DEF Clean, ConnsOK
      <4>2. ASSUME conn[d].held
            PROVE  \E k \in handlers' : k.at = "pool" /\ k.conn = d
        <5>1. PICK k \in handlers : k.at = "pool" /\ k.conn = d
          BY <1>1, <3>2, <4>2 DEF Clean, ConnsOK
        <5>2. QED
          BY <1>4, <5>1
      <4>3. QED
        BY <1>4, <3>2, <4>1, <4>2
    <3>3. QED
      BY <3>1, <3>2
  <2>2. client' # NoConn => conn'[client'].held
    BY <1>1, <1>4 DEF Clean, ConnsOK
  <2>3. QED
    BY <2>1, <2>2, ExecutedPending DEF ConnsOK
<1>7. UsersOK'
  <2>1. \A k \in handlers' : k \in handlers /\ k # h /\ Solo(k)
    <3>1. ASSUME NEW k \in handlers'
          PROVE  k \in handlers /\ k # h /\ Solo(k)
      <4>1. k \in handlers /\ k # h
        BY <1>4
      <4>2. Message(k) \in Pending'
        BY DEF Pending
      <4>3. Solo(Message(k))
        BY <1>5, <4>2
      <4>4. QED
        BY <4>1, <4>3, HandlerTypes DEF Base, WorkerTyped
    <3>2. QED
      BY <3>1
  <2>2. \A x \in Wire' : x \in Wire /\ Solo(x) /\ x.kind # "begin"
    BY <1>5, ExecutedPending DEF Pending, Solo
  <2>3. Wire' = {}
    <3>1. ASSUME NEW x \in Wire
          PROVE  FALSE
      <4>1. h.id < x.id /\ x.id < nextId /\ x.id \in Nat /\ h.id = nextId - 1 /\ nextId \in Nat
        BY <1>2, ExecutedPending, PendingIds DEF Base, MainTyped, Pending
      <4>2. QED
        BY <4>1
    <3>2. QED
      BY <3>1, ExecutedPending
  <2>4. ASSUME NEW k \in handlers', k.at = "pool"
        PROVE  Solo(k) /\ k.conn # client' /\ conn'[k.conn].held
    <3>1. Solo(k) /\ k.conn # client /\ conn[k.conn].held /\ k.conn \in Conns /\ k.conn # NoConn
      BY <2>1, <2>4, BridgeAssumption DEF Clean, UsersOK, Base, Queued
    <3>2. QED
      BY <1>1, <1>4, <3>1
  <2>5. \A k, l \in handlers' : k.at = "pool" /\ l.at = "pool" /\ k.conn = l.conn => k = l
    BY <2>1 DEF Clean, UsersOK
  <2>6. \A k \in handlers' : k.at # "client"
    BY <2>1 DEF Clean, UsersOK
  <2>7. QED
    BY <2>1, <2>3, <2>4, <2>5, <2>6 DEF UsersOK, Solo
<1>8. ~CommitPending' /\ T1' = T1 /\ T2' = T2
  BY <1>5, ExecutedPending DEF CommitPending, Solo
<1>9. TxOK'
  BY <1>1, <1>2, <1>4, <1>8 DEF TxOK, MainStill
<1>10. DataOK'
  <2>1. worker = "up" /\ worker' = "up"
    BY DEF Executed
  <2>2. QED
    BY <1>2, <1>4, <1>8, <2>1 DEF Clean, DataOK, MainStill
<1>11. QED
  BY <1>6, <1>7, <1>9, <1>10, ExecutedPending DEF Clean

\* What COMMIT and ROLLBACK do to the connections: there is no transaction
\* any more, and what else is pending is single statements, or the ROLLBACK
\* that follows a late COMMIT.
LEMMA EndKeepsUsers ==
  ASSUME Base, Clean, NEW c \in Conns, NEW h \in handlers, NEW fails \in BOOLEAN, Executed(h, c, fails),
         h.at = "client", h.kind \in {"commit", "rollback"},
         \A x \in Pending' : Solo(x) \/ x.kind = "rollback"
  PROVE  ConnsOK' /\ UsersOK'
<1>1. h.conn = c /\ (c = client \/ client = NoConn)
  BY DEF Executed, Clean, UsersOK
<1>2. /\ handlers' = handlers \ {h}
      /\ conn'[c].tx = NoTx /\ ~conn'[c].aborted
      /\ \A d \in Conns \ {c} : conn'[d].tx = conn[d].tx /\ conn'[d].aborted = conn[d].aborted
      /\ \A d \in Conns : conn'[d].held = (conn[d].held /\ d # client)
      /\ client' = NoConn
  <2>1. Gives(h, fails)
    BY DEF Gives, Ends
  <2>2. TxAfter(c, h, fails) = NoTx /\ ~AbortedAfter(c, h, fails)
    BY DEF TxAfter, AbortedAfter
  <2>3. QED
    BY <2>1, <2>2 DEF Executed
<1>3. ConnsOK'
  <2>1. ASSUME NEW d \in Conns
        PROVE  /\ conn'[d].tx = NoTx /\ ~conn'[d].aborted
               /\ conn'[d].held => \E k \in handlers' : k.at = "pool" /\ k.conn = d
    <3>1. conn'[d].tx = NoTx /\ ~conn'[d].aborted
      <4>1. CASE d = c
        BY <1>2, <4>1
      <4>2. CASE d # c
        <5>1. d # client
          BY <1>1, <4>2, BridgeAssumption
        <5>2. QED
          BY <1>2, <4>2, <5>1 DEF Clean, ConnsOK
      <4>3. QED
        BY <4>1, <4>2
    <3>2. ASSUME conn'[d].held
          PROVE  \E k \in handlers' : k.at = "pool" /\ k.conn = d
      <4>1. d # client /\ conn[d].held
        BY <1>2, <3>2
      <4>2. PICK k \in handlers : k.at = "pool" /\ k.conn = d
        BY <4>1 DEF Clean, ConnsOK
      <4>3. QED
        BY <1>2, <4>2
    <3>3. QED
      BY <3>1, <3>2
  <2>2. QED
    BY <1>2, <2>1, ExecutedPending DEF ConnsOK
<1>4. \A k \in handlers' : k \in handlers /\ (Solo(k) \/ k.kind = "rollback")
  <2> SUFFICES ASSUME NEW k \in handlers'
               PROVE  k \in handlers /\ (Solo(k) \/ k.kind = "rollback")
    OBVIOUS
  <2>1. k \in handlers /\ Message(k) \in Pending'
    BY <1>2 DEF Pending
  <2>2. Solo(Message(k)) \/ Message(k).kind = "rollback"
    BY <2>1
  <2>3. QED
    BY <2>1, <2>2, HandlerTypes DEF Base, WorkerTyped
<1>5. UsersOK'
  <2>1. ASSUME NEW k \in handlers', k.at = "pool"
        PROVE  Solo(k) /\ k.conn # NoConn /\ conn'[k.conn].held
    <3>1. Solo(k) /\ k.conn # client /\ conn[k.conn].held /\ k.conn \in Conns /\ k.conn # NoConn
      BY <1>4, <2>1, BridgeAssumption DEF Clean, UsersOK, Base, Queued
    <3>2. QED
      BY <1>2, <3>1
  <2>2. \A k, l \in handlers' : k.at = "pool" /\ l.at = "pool" /\ k.conn = l.conn => k = l
    BY <1>4 DEF Clean, UsersOK
  <2>3. \A k \in handlers' : k.at = "client" => ~Solo(k) /\ k.kind = "rollback"
    BY <1>4 DEF Clean, UsersOK
  <2>4. \A k \in handlers' : k.at = "connect" => Solo(k) \/ k.kind = "begin"
    BY <1>4 DEF Clean, UsersOK
  <2>5. \A x \in Wire' : x.kind \in {"query", "commit"} => Solo(x)
    BY DEF Pending
  <2>6. QED
    BY <1>2, <2>1, <2>2, <2>3, <2>4, <2>5 DEF UsersOK, Solo
<1>6. QED
  BY <1>3, <1>5

\* COMMIT runs, in time or late.
LEMMA CommitKeepsClean ==
  ASSUME Base, Clean, NEW c \in Conns, NEW h \in handlers, NEW fails \in BOOLEAN, Executed(h, c, fails),
         h.at = "client", h.kind = "commit"
  PROVE  Clean'
<1>1. h.conn = c /\ c = client /\ client # NoConn
  BY BridgeAssumption DEF Executed, Clean, UsersOK
<1>2. /\ h.id = waiting => pc = "commit" /\ answer = "none"
      /\ h.id # waiting => pc = "rollback" /\ task \in unsure
  BY HandlerKinds DEF Clean
<1>3. Message(h) \in Pending /\ Message(h).kind = "commit" /\ Message(h).id = h.id
  BY HandlerTypes, HandlerKinds DEF Clean
<1>4. conn[c].tx = {T1, T2} /\ ~conn[c].aborted
  BY <1>1, <1>3 DEF Clean, TxOK, CommitPending
<1>5. ASSUME NEW x \in Pending'
      PROVE  Solo(x) \/ x.kind = "rollback"
  <2>1. x \in Pending /\ x # Message(h)
    BY <1>3, <1>5, ExecutedPending
  <2>2. QED
    BY <1>3, <2>1 DEF Clean, PendingOK
<1>6. ConnsOK' /\ UsersOK'
  BY <1>5, EndKeepsUsers
<1>7. /\ MainStill /\ client' = NoConn
      /\ db' = db \cup (IF fails THEN {} ELSE {T1, T2})
      /\ answer' = IF h.id = waiting THEN IF fails THEN "error" ELSE "ok" ELSE answer
  <2>1. Gives(h, fails)
    BY DEF Gives, Ends
  <2>2. {T1, T2} # NoTx
    <3>1. task \in 1..MaxTasks
      BY <1>2, BridgeAssumption DEF Base, MainTyped
    <3>2. {T1, T2} \in SUBSET ((1..MaxTasks) \X (0..2))
      BY <3>1 DEF T1, T2
    <3>3. QED
      BY <3>2, BridgeAssumption
  <2>3. Committed(c, h, fails) = IF fails THEN {} ELSE {T1, T2}
    BY <1>4, <2>2 DEF Committed
  <2>4. QED
    BY <1>1, <2>1, <2>3 DEF Executed, Answers
<1>8. T1' = T1 /\ T2' = T2
  BY ExecutedPending
<1>9. TxOK'
  BY <1>2, <1>7 DEF Clean, TxOK, MainStill
<1>10. DataOK'
  <2>1. \A w \in db' : w \in db \/ w \in {T1, T2}
    BY <1>7
  <2>2. db \subseteq db' /\ (~fails => T1 \in db' /\ T2 \in db') /\ (fails => db' = db)
    BY <1>7
  <2>3. task \in Nat /\ task \notin refused \ unsure
    <3>1. task \in Nat
      BY BridgeAssumption DEF Base, MainTyped
    <3>2. QED
      BY <1>2, <3>1 DEF Clean, DataOK
  <2>4. \A w \in db' : w[1] <= task
    BY <2>1, <2>3 DEF Clean, DataOK, T1, T2
  <2>5. ASSUME NEW s \in 1..MaxTasks
        PROVE  <<s, 1>> \in db' <=> <<s, 2>> \in db'
    <3>1. <<s, 1>> \in db <=> <<s, 2>> \in db
      BY DEF Clean, DataOK
    <3>2. CASE s = task
      BY <2>2, <3>1, <3>2 DEF T1, T2
    <3>3. CASE s # task
      <4>1. <<s, 1>> \notin {T1, T2} /\ <<s, 2>> \notin {T1, T2}
        BY <3>3 DEF T1, T2
      <4>2. QED
        BY <2>1, <2>2, <3>1, <4>1
    <3>4. QED
      BY <3>2, <3>3
  <2>6. ASSUME NEW t \in refused \ unsure, NEW n \in 0..2
        PROVE  <<t, n>> \notin db'
    <3>1. <<t, n>> \notin db
      BY DEF Clean, DataOK
    <3>2. <<t, n>> \notin {T1, T2}
      BY <2>3 DEF T1, T2
    <3>3. QED
      BY <2>1, <3>1, <3>2
  <2>7. promised \subseteq db'
    BY <2>2 DEF Clean, DataOK
  <2>0. worker = "up" /\ worker' = "up"
    BY DEF Executed
  <2>8. CASE h.id = waiting
    <3>1. pc = "commit" /\ answer = "none" /\ answer' = IF fails THEN "error" ELSE "ok"
      BY <1>2, <1>7, <2>8
    <3>2. QED
      BY <1>7, <1>8, <2>0, <2>2, <2>4, <2>5, <2>6, <2>7, <3>1 DEF Clean, DataOK, MainStill
  <2>9. CASE h.id # waiting
    <3>1. pc = "rollback" /\ answer' = answer
      BY <1>2, <1>7, <2>9
    <3>2. QED
      BY <1>7, <1>8, <2>4, <2>5, <2>6, <2>7, <3>1 DEF Clean, DataOK, MainStill
  <2>10. QED
    BY <2>8, <2>9
<1>11. QED
  BY <1>6, <1>9, <1>10, ExecutedPending DEF Clean

\* ROLLBACK runs, after all that was late.
LEMMA RollbackKeepsClean ==
  ASSUME Base, Clean, NEW c \in Conns, NEW h \in handlers, NEW fails \in BOOLEAN, Executed(h, c, fails),
         h.at = "client", h.kind = "rollback"
  PROVE  Clean'
<1>1. /\ h.conn = c /\ (c = client \/ client = NoConn)
      /\ conn[c].queue # <<>> /\ Message(h) = Head(conn[c].queue)
      /\ conn'[c].queue = Tail(conn[c].queue) /\ handlers' = handlers \ {h}
      /\ channel' = channel
  BY DEF Executed, Clean, UsersOK
<1>2. /\ h.id = waiting /\ pc = "rollback" /\ answer = "none"
      /\ h.id \in Nat /\ h.id = nextId - 1 /\ nextId \in Nat /\ ~Solo(h)
  BY HandlerKinds DEF Clean, Base, MainTyped, Solo
<1>3. ASSUME NEW x \in Pending'
      PROVE  Solo(x)
  <2> SUFFICES ASSUME ~Solo(x)
               PROVE  FALSE
    OBVIOUS
  <2>1. x \in Pending /\ x.id # h.id /\ x.id \in Nat /\ x.id < nextId
    BY <1>3, ExecutedPending, PendingIds
  <2>2. x.kind \in {"query", "commit"}
    BY <1>2, <2>1 DEF Clean, PendingOK
  <2>3. x \notin Wire
    BY <1>2, <2>1, ExecutedPending
  <2>4. PICK k \in handlers' : x = Message(k)
    BY <2>3, ExecutedPending DEF Pending
  <2>5. k \in handlers /\ k.kind = x.kind /\ ~Solo(k) /\ k \in Handlers
    BY <1>1, <2>4, HandlerTypes DEF Base, WorkerTyped
  <2>6. k.at = "client" /\ k.conn = client /\ k.conn \in Conns
    <3>1. k.at # "pool" /\ k.at # "connect"
      BY <2>2, <2>5 DEF Clean, UsersOK
    <3>2. k.at = "client"
      BY <2>5, <3>1 DEF Handlers
    <3>3. QED
      BY <2>2, <2>5, <3>2 DEF Clean, UsersOK, Base, Queued
  <2>7. k.conn = c
    BY <1>1, <2>6, BridgeAssumption
  <2>8. x \in Elems(Tail(conn[c].queue))
    <3>1. Queued'
      BY AnswerKeepsQueued DEF Executed
    <3>2. x \in Sent(c)'
      BY <2>4, <2>6, <2>7, <3>1 DEF Queued
    <3>3. QED
      BY <1>1, <3>2 DEF Sent
  <2>9. <<Message(h), x>> \in Lined
    BY <1>1, <2>8, RestFollows DEF Clean, ConnsOK, Base, WorkerTyped, ConnsOf
  <2>10. h.id < x.id
    <3>1. ~Solo(Message(h)) /\ Message(h).id = h.id
      BY <1>2, HandlerTypes DEF Base, WorkerTyped
    <3>2. QED
      BY <2>9, <3>1 DEF Lined
  <2>11. QED
    BY <1>2, <2>1, <2>10
<1>4. ConnsOK' /\ UsersOK'
  BY <1>3, EndKeepsUsers
<1>5. MainStill /\ client' = NoConn /\ db' = db /\ answer' \in {"ok", "error"}
  <2>1. Gives(h, fails)
    BY DEF Gives, Ends
  <2>2. Committed(c, h, fails) = {}
    BY DEF Committed
  <2>3. QED
    BY <1>2, <2>1, <2>2 DEF Executed, Answers
<1>6. T1' = T1 /\ T2' = T2
  BY ExecutedPending
<1>7. TxOK'
  BY <1>2, <1>5 DEF Clean, TxOK, MainStill
<1>8. DataOK'
  BY <1>2, <1>5, <1>6 DEF Clean, DataOK, MainStill
<1>9. QED
  BY <1>4, <1>7, <1>8, ExecutedPending DEF Clean

LEMMA ExecuteKeepsClean ==
  ASSUME Base, Clean, NEW c \in Conns, Execute(c)
  PROVE  Clean'
<1>1. PICK h \in handlers, fails \in BOOLEAN : Executed(h, c, fails)
  BY ExecuteEffect
<1>2. h.kind \in Kinds /\ h.at \in {"client", "pool"}
  BY <1>1, HandlerKinds DEF Clean, Executed
<1>3. QED
  BY <1>1, <1>2, PooledKeepsClean, WriteKeepsClean, BeginRunsCleanly, CommitKeepsClean,
     RollbackKeepsClean DEF Kinds

-----------------------------------------------------------------------------
\* Lost connections, dead and abandoned workers.

\* What the statement a connection is at may commit: a single statement that
\* was late, the one of the task, or its transaction.
Overdue(w) == \E t \in unsure : w = <<t, 0>>

LEMMA HeadCommits ==
  ASSUME Base, Clean, NEW c \in Conns, conn[c].queue # <<>>,
         NEW w \in Committed(c, Head(conn[c].queue), FALSE)
  PROVE  \/ Overdue(w)
         \/ c # client /\ w = <<task, 0>> /\ pc = "single" /\ answer = "none"
         \/ /\ c = client /\ Committed(c, Head(conn[c].queue), FALSE) = {T1, T2}
            /\ \/ pc = "commit" /\ answer = "none"
               \/ pc = "rollback" /\ task \in unsure
<1>1. PICK h \in handlers : /\ h.conn = c /\ Message(h) = Head(conn[c].queue)
                            /\ h \in Handlers /\ h.at \in {"client", "pool"}
  BY HeadOfQueue
<1> DEFINE m == Head(conn[c].queue)
<1>2. m.kind = h.kind /\ m.write = h.write /\ (Solo(m) <=> Solo(h))
  BY <1>1, HandlerTypes
<1> HIDE DEF m
<1>3. w \in Committed(c, m, FALSE)
  BY DEF m
<1>4. m.kind \in {"query", "commit"}
  BY <1>3 DEF Committed
<1>5. CASE h.at = "pool"
  <2>1. Solo(h) /\ c # client /\ m.kind = "query"
    BY <1>1, <1>2, <1>5 DEF Clean, UsersOK, Solo
  <2>2. conn[c].tx = NoTx
    BY <2>1 DEF Clean, ConnsOK
  <2>3. w = h.write
    BY <1>2, <1>3, <2>1, <2>2 DEF Committed
  <2>4. /\ h.id = waiting => pc = "single" /\ answer = "none" /\ h.write = <<task, 0>>
        /\ h.id # waiting => h.write[1] \in unsure
        /\ h.write \in AllWrites /\ h.write[2] = 0
    BY <1>2, <2>1, HandlerKinds DEF Clean, Solo
  <2>5. CASE h.id = waiting
    BY <2>1, <2>3, <2>4, <2>5
  <2>6. CASE h.id # waiting
    <3>1. h.write = <<h.write[1], 0>>
      BY <2>4 DEF AllWrites
    <3>2. QED
      BY <2>3, <2>4, <2>6, <3>1 DEF Overdue
  <2>7. QED
    BY <2>5, <2>6
<1>6. CASE h.at = "client"
  <2>1. ~Solo(h) /\ c = client /\ client # NoConn
    BY <1>1, <1>2, <1>4, <1>6, BridgeAssumption DEF Clean, UsersOK
  <2>2. CASE m.kind = "query"
    <3>1. pc \in {"write1", "write2", "rollback"}
      BY <1>2, <2>1, <2>2, HandlerKinds DEF Clean
    <3>2. conn[c].tx # NoTx
      BY <2>1, <3>1 DEF Clean, TxOK
    <3>3. QED
      BY <1>3, <2>2, <3>2 DEF Committed
  <2>3. CASE m.kind = "commit"
    <3>1. \/ pc = "commit" /\ answer = "none"
          \/ pc = "rollback" /\ task \in unsure
      BY <1>2, <2>3, HandlerKinds DEF Clean
    <3>2. Message(h) \in Pending /\ Message(h).kind = "commit"
      BY <1>1, <1>2, <2>3, HandlerKinds, HandlerTypes DEF Clean
    <3>3. CommitPending
      BY <3>2 DEF CommitPending
    <3>4. conn[c].tx = {T1, T2}
      BY <2>1, <3>3 DEF Clean, TxOK
    <3>5. Committed(c, m, FALSE) = {T1, T2}
      BY <1>3, <2>3, <3>4 DEF Committed
    <3>6. QED
      BY <2>1, <3>1, <3>5 DEF m
  <2>4. QED
    BY <1>4, <2>2, <2>3
<1>7. QED
  BY <1>1, <1>5, <1>6

\* The main thread does not learn that some of these writes were committed.
LEMMA UnheardKeepsData ==
  ASSUME Base, Clean, NEW X, db' = db \cup X, T1 \in X <=> T2 \in X,
         \A w \in X : \/ Overdue(w)
                      \/ /\ pc = "single" /\ w = <<task, 0>>
                         /\ answer' = "lost" \/ (answer' = "none" /\ worker' = "dead")
                      \/ /\ w \in {T1, T2}
                         /\ \/ pc = "commit" /\ answer' = "none" /\ worker' = "dead"
                            \/ pc = "rollback" /\ task \in unsure,
         UNCHANGED <<pc, task, promised, refused, unsure>>,
         answer' = answer \/ (answer' = "lost" /\ pc \in {"single", "rollback"}),
         worker' \in {worker, "dead"}
  PROVE  DataOK'
<1>1. task \in Nat /\ unsure \subseteq refused /\ \A t \in refused : t \in Nat /\ t <= task
  BY BridgeAssumption DEF Base, MainTyped, Clean, DataOK
<1>2. T1' = T1 /\ T2' = T2
  BY DEF T1, T2
<1>3. \A w \in db' : w \in db \/ w \in X
  OBVIOUS
<1>4. ASSUME NEW w \in X
      PROVE  w[1] <= task
  BY <1>1 DEF Overdue, T1, T2
<1>5. ASSUME NEW t \in 1..MaxTasks
      PROVE  <<t, 1>> \in db' <=> <<t, 2>> \in db'
  <2>1. <<t, 1>> \in db <=> <<t, 2>> \in db
    BY DEF Clean, DataOK
  <2>2. ASSUME NEW n \in {1, 2}, <<t, n>> \in X
        PROVE  t = task
    <3>1. ~Overdue(<<t, n>>) /\ <<t, n>> # <<task, 0>>
      BY DEF Overdue
    <3>2. <<t, n>> \in {T1, T2}
      BY <2>2, <3>1
    <3>3. QED
      BY <3>2 DEF T1, T2
  <2>3. t = task => T1 = <<t, 1>> /\ T2 = <<t, 2>>
    BY DEF T1, T2
  <2>4. <<t, 1>> \in X <=> <<t, 2>> \in X
    BY <2>2, <2>3
  <2>5. QED
    BY <2>1, <2>4
<1>6. ASSUME NEW t \in refused \ unsure, NEW n \in 0..2
      PROVE  <<t, n>> \notin X
  <2>1. ~Overdue(<<t, n>>)
    BY DEF Overdue
  <2>2. t = task => pc \in {"idle", "rollback"} /\ task \notin unsure
    BY DEF Clean, DataOK
  <2>3. <<t, n>> = <<task, 0>> \/ <<t, n>> \in {T1, T2} => t = task
    BY DEF T1, T2
  <2>4. QED
    BY <2>1, <2>2, <2>3
<1>7. ASSUME pc \notin {"idle", "rollback"}, ~(answer' = "ok" /\ pc \in {"commit", "single"}),
             ~(answer' = "lost" /\ pc = "single"), ~(answer' = "none" /\ worker' = "dead"),
             NEW n \in 0..2
      PROVE  <<task, n>> \notin db'
  <2>1. task \notin refused /\ task \notin unsure
    BY <1>1, <1>7 DEF Clean, DataOK
  <2>2. ~Overdue(<<task, n>>)
    BY <2>1 DEF Overdue
  <2>3. <<task, n>> \notin X
    BY <1>7, <2>1, <2>2
  <2>4. <<task, n>> \notin db
    BY <1>7 DEF Clean, DataOK
  <2>5. QED
    BY <2>3, <2>4
<1>8. promised' \subseteq db' /\ \A w \in db' : w[1] <= task'
  BY <1>3, <1>4 DEF Clean, DataOK
<1>9. \A t \in refused' \ unsure', n \in 0..2 : <<t, n>> \notin db'
  BY <1>3, <1>6 DEF Clean, DataOK
<1>10. /\ answer' = "ok" /\ pc' = "commit" => {T1, T2} \subseteq db'
       /\ answer' = "ok" /\ pc' = "single" => <<task, 0>> \in db'
       /\ pc' \notin {"idle", "rollback"} => task' \notin refused'
       /\ pc' = "rollback" => task' \in refused'
  BY DEF Clean, DataOK
<1>11. QED
  BY <1>1, <1>2, <1>5, <1>7, <1>8, <1>9, <1>10 DEF DataOK

LEMMA WorkerDiesKeepsClean ==
  ASSUME Base, Clean, WorkerDies
  PROVE  Clean'
<1>1. /\ UNCHANGED <<pc, task, waiting, answer, nextId, promised, refused, unsure, strayed>>
      /\ worker' = "dead" /\ channel' = <<>> /\ handlers' = {} /\ client' = NoConn
      /\ conn' = [c \in Conns |-> NewConn]
  BY DEF WorkerDies, mainVars
<1>2. PendingOK' /\ ConnsOK' /\ UsersOK'
  BY <1>1, EmptiedKeepsUsers
<1>3. TxOK'
  BY <1>1, <1>2 DEF Clean, TxOK
<1>4. PICK ran \in SUBSET {c \in Conns : conn[c].queue # <<>>} :
        db' = db \cup UNION {Committed(c, Head(conn[c].queue), FALSE) : c \in ran}
  BY DEF WorkerDies
<1>5. PICK X : X = UNION {Committed(c, Head(conn[c].queue), FALSE) : c \in ran}
  OBVIOUS
<1>6. ASSUME NEW w \in X
      PROVE  \/ Overdue(w)
             \/ w = <<task, 0>> /\ pc = "single" /\ answer = "none"
             \/ /\ {T1, T2} \subseteq X /\ w \in {T1, T2}
                /\ \/ pc = "commit" /\ answer = "none"
                   \/ pc = "rollback" /\ task \in unsure
  <2>1. PICK c \in ran : w \in Committed(c, Head(conn[c].queue), FALSE)
    BY <1>5
  <2>2. Committed(c, Head(conn[c].queue), FALSE) \subseteq X /\ conn[c].queue # <<>> /\ c \in Conns
    BY <1>5
  <2>3. QED
    BY <2>1, <2>2, HeadCommits
<1>7. T1 \in X <=> T2 \in X
  <2>1. ~Overdue(T1) /\ ~Overdue(T2) /\ T1 # <<task, 0>> /\ T2 # <<task, 0>>
    BY DEF Overdue, T1, T2
  <2>2. QED
    BY <1>6, <2>1
<1>8. DataOK'
  BY <1>1, <1>4, <1>5, <1>6, <1>7, UnheardKeepsData
<1>9. QED
  BY <1>2, <1>3, <1>8 DEF Clean

\* The connection of a single statement is lost.
LEMMA ConnectionLostKeepsClean ==
  ASSUME Base, Clean, NEW c \in Conns, ConnectionLost(c)
  PROVE  Clean'
<1>1. PICK h \in handlers : h.conn = c /\ h.at = "pool"
  BY DEF ConnectionLost
<1>2. /\ c # client /\ handlers' = {g \in handlers : g.conn # c}
      /\ conn' = [conn EXCEPT ![c] = NewConn] /\ conn \in [Conns -> ConnsOf]
      /\ answer' = IF \E g \in handlers : g.conn = c /\ g.id = waiting THEN "lost" ELSE answer
      /\ db' = db \/ db' = db \cup Committed(c, Head(conn[c].queue), FALSE)
      /\ UNCHANGED <<pc, task, waiting, nextId, bridgeError, promised, refused, unsure, strayed,
                     worker, channel, client>>
  BY DEF ConnectionLost, Base, WorkerTyped
<1>3. conn[c].queue # <<>>
  <2>1. Message(h) \in Sent(c)
    BY <1>1 DEF Base, Queued
  <2>2. QED
    BY <2>1, NoElements DEF Sent
<1>4. \A d \in Conns \ {c} : conn'[d] = conn[d]
  BY <1>2
<1>5. conn'[c].queue = <<>> /\ conn'[c].tx = NoTx /\ ~conn'[c].aborted /\ ~conn'[c].held
  BY <1>2 DEF NewConn
\* Whose statement it was.
<1>6. ASSUME NEW g \in handlers, g.conn = c
      PROVE  Solo(g) \/ (g.kind = "rollback" /\ client = NoConn)
  <2>1. g.at # "connect"
    BY <1>6, BridgeAssumption DEF Base, Queued
  <2>2. g.at \in {"client", "pool"}
    BY <2>1 DEF Base, WorkerTyped, Handlers
  <2>3. QED
    BY <1>2, <1>6, <2>2 DEF Clean, UsersOK
<1>7. ASSUME answer' # answer
      PROVE  /\ answer = "none" /\ answer' = "lost"
             /\ pc = "single" \/ (pc = "rollback" /\ client = NoConn)
             /\ \A x \in Pending' : x.id # waiting
  <2>1. PICK g \in handlers : g.conn = c /\ g.id = waiting
    BY <1>2, <1>7
  <2>2. /\ Solo(g) => pc = "single" /\ answer = "none"
        /\ g.kind = "rollback" => pc = "rollback" /\ answer = "none"
        /\ Message(g) \in Pending /\ Message(g).id = waiting
    BY <2>1, HandlerKinds DEF Clean
  <2>3. ASSUME NEW k \in handlers, k.conn # c
        PROVE  Message(k).id # waiting
    <3>1. Message(k).id = k.id
      BY HandlerKinds DEF Clean
    <3>2. k # g
      BY <2>1, <2>3
    <3>3. QED
      BY <2>1, <3>1, <3>2 DEF Base, InOrder
  <2>4. ASSUME NEW x \in Wire
        PROVE  x.id # waiting
    <3>1. g.id < x.id /\ g.id \in Nat
      BY HandlerKinds DEF Base, InOrder, Clean
    <3>2. QED
      BY <2>1, <3>1
  <2>5. \A x \in Pending' : x \in Wire \/ \E k \in handlers : k.conn # c /\ x = Message(k)
    BY <1>2 DEF Pending, Wire
  <2>6. \A x \in Pending' : x.id # waiting
    BY <2>3, <2>4, <2>5
  <2>7. QED
    BY <1>2, <1>6, <1>7, <2>1, <2>2, <2>6
<1>8. PendingOK' /\ (CommitPending' => CommitPending) /\ T1' = T1 /\ T2' = T2
  <2>1. Pending' \subseteq Pending
    BY <1>2 DEF Pending, Wire
  <2>2. MainStill
    BY <1>2 DEF MainStill
  <2>3. answer' = answer \/ \A x \in Pending' : x.id # waiting
    BY <1>7
  <2>4. QED
    BY <2>1, <2>2, <2>3, FewerPending DEF Clean
<1>9. ConnsOK'
  <2>1. ASSUME NEW d \in Conns \ {client}
        PROVE  /\ conn'[d].tx = NoTx /\ ~conn'[d].aborted
               /\ conn'[d].held => \E k \in handlers' : k.at = "pool" /\ k.conn = d
    <3>1. CASE d = c
      BY <1>5, <3>1
    <3>2. CASE d # c
      <4>1. conn'[d] = conn[d]
        BY <1>4, <3>2
      <4>2. conn[d].held => \E k \in handlers : k.at = "pool" /\ k.conn = d
        BY DEF Clean, ConnsOK
      <4>3. conn[d].tx = NoTx /\ ~conn[d].aborted
        BY DEF Clean, ConnsOK
      <4>4. QED
        BY <1>2, <3>2, <4>1, <4>2, <4>3
    <3>3. QED
      BY <3>1, <3>2
  <2>2. client # NoConn => conn'[client].held
    <3>1. client # NoConn => client \in Conns \ {c}
      BY <1>2 DEF Base, WorkerTyped
    <3>2. QED
      BY <1>4, <3>1 DEF Clean, ConnsOK
  <2>3. ASSUME NEW d \in Conns
        PROVE  Follows(conn'[d].queue, Lined)
    <3>1. Follows(conn[d].queue, Lined)
      BY DEF Clean, ConnsOK
    <3>2. CASE d = c
      BY <1>5, <3>2, NoElements
    <3>3. CASE d # c
      BY <1>4, <3>1, <3>3
    <3>4. QED
      BY <3>2, <3>3
  <2>4. QED
    BY <1>2, <2>1, <2>2, <2>3 DEF ConnsOK
<1>10. UsersOK'
  <2>1. ASSUME NEW k \in handlers', k.at = "pool"
        PROVE  Solo(k) /\ k.conn # client /\ conn'[k.conn].held
    <3>1. k \in handlers /\ k.conn # c /\ k.conn \in Conns
      BY <1>2, <2>1 DEF Base, Queued
    <3>2. Solo(k) /\ k.conn # client /\ conn[k.conn].held
      BY <2>1, <3>1 DEF Clean, UsersOK
    <3>3. QED
      BY <1>4, <3>1, <3>2
  <2>2. Wire' = Wire /\ \A k \in handlers' : k \in handlers
    BY <1>2 DEF Wire
  <2>3. QED
    BY <1>2, <2>1, <2>2 DEF Clean, UsersOK, Solo
<1>11. TxOK'
  <2>1. client # NoConn => conn'[client] = conn[client]
    <3>1. client # NoConn => client \in Conns \ {c}
      BY <1>2 DEF Base, WorkerTyped
    <3>2. QED
      BY <1>4, <3>1
  <2>2. CASE answer' = answer
    BY <1>2, <1>8, <2>1, <2>2 DEF Clean, TxOK
  <2>3. CASE answer' # answer
    <3>1. client = NoConn /\ answer' = "lost" /\ pc \in {"single", "rollback"}
      BY <1>7, <2>3 DEF Clean, TxOK
    <3>2. QED
      BY <1>2, <3>1 DEF TxOK
  <2>4. QED
    BY <2>2, <2>3
<1>12. DataOK'
  <2>1. answer' = answer \/ (answer' = "lost" /\ pc \in {"single", "rollback"})
    BY <1>7
  <2>2. PICK X : /\ X \in {{}, Committed(c, Head(conn[c].queue), FALSE)}
                 /\ db' = db \cup X
    BY <1>2
  <2>3. ASSUME NEW w \in X
        PROVE  Overdue(w) \/ (pc = "single" /\ w = <<task, 0>> /\ answer' = "lost")
    <3>1. w \in Committed(c, Head(conn[c].queue), FALSE)
      BY <2>2
    <3>2. Overdue(w) \/ (w = <<task, 0>> /\ pc = "single" /\ answer = "none")
      BY <1>2, <1>3, <3>1, HeadCommits
    <3>3. ASSUME ~Overdue(w)
          PROVE  answer' = "lost"
      <4>1. PICK g \in handlers : g.conn = c /\ Message(g) = Head(conn[c].queue)
        BY <1>3, HeadOfQueue
      <4>2. CASE g.id = waiting
        BY <1>2, <4>1, <4>2
      <4>3. CASE g.id # waiting
        <5>1. g.kind = "query" /\ Solo(g)
          <6>1. Message(g).kind = g.kind
            BY HandlerTypes DEF Base, WorkerTyped
          <6>2. g.kind \in {"query", "commit"}
            BY <3>1, <4>1, <6>1 DEF Committed
          <6>3. QED
            BY <1>6, <4>1, <6>2 DEF Solo
        <5>2. g.write[1] \in unsure /\ g.write \in AllWrites /\ g.write[2] = 0
          BY <4>3, <5>1, HandlerKinds DEF Clean, Solo
        <5>3. g.write = <<g.write[1], 0>>
          BY <5>2 DEF AllWrites
        <5>4. conn[c].tx = NoTx
          BY <1>2 DEF Clean, ConnsOK
        <5>5. w = g.write
          <6>1. Message(g).kind = "query" /\ Message(g).write = g.write
            BY <5>1, HandlerTypes DEF Base, WorkerTyped
          <6>2. QED
            BY <3>1, <4>1, <5>4, <6>1 DEF Committed
        <5>6. QED
          BY <3>3, <5>2, <5>3, <5>5 DEF Overdue
      <4>4. QED
        BY <4>2, <4>3
    <3>4. QED
      BY <3>2, <3>3
  <2>4. T1 \notin X /\ T2 \notin X
    BY <2>3 DEF Overdue, T1, T2
  <2>5. QED
    BY <1>2, <2>1, <2>2, <2>3, <2>4, UnheardKeepsData
<1>13. QED
  BY <1>8, <1>9, <1>10, <1>11, <1>12 DEF Clean

\* An abandoned worker gets something done.
LEMMA RunsAdriftKeepsClean ==
  ASSUME Base, Clean, AdriftOK, NEW w \in adrift, RunsAdrift(w)
  PROVE  Clean'
<1>1. /\ UNCHANGED <<pc, task, waiting, answer, nextId, bridgeError, promised, refused, unsure, strayed>>
      /\ UNCHANGED <<worker, channel, handlers, client, conn>> /\ db' = db \cup {w}
  BY DEF RunsAdrift, mainVars, workerVars
<1>2. ConnsOK' /\ UsersOK' /\ Pending' = Pending
  BY <1>1, MainStepKeepsUsers DEF Clean
<1>3. PendingOK'
  BY <1>1, <1>2 DEF Clean, PendingOK, WriteOf
<1>4. TxOK'
  BY <1>1, <1>2 DEF Clean, TxOK, CommitPending, T1, T2
<1>5. Overdue(w)
  BY DEF AdriftOK, Overdue
<1>6. T1 \notin {w} /\ T2 \notin {w}
  BY <1>5 DEF Overdue, T1, T2
<1>7. DataOK'
  BY <1>1, <1>5, <1>6, UnheardKeepsData
<1>8. QED
  BY <1>2, <1>3, <1>4, <1>7 DEF Clean

-----------------------------------------------------------------------------
\* The invariant.

\* Only four steps have to do with the deaths of workers.
LEMMA OthersLeaveDeaths ==
  ASSUME Base, [Next]_vars
  PROVE  \/ UNCHANGED deathVars
         \/ WorkerError \/ WorkerExit \/ WorkerDies \/ \E w \in adrift : RunsAdrift(w)
<1>1. CASE Begin("begin") \/ Begin("single")
  BY <1>1 DEF Begin
<1>2. CASE MainStep
  BY <1>2 DEF MainStep, Send, Receive, Timeout
<1>3. CASE HandleMessage
  BY <1>3 DEF HandleMessage
<1>4. ASSUME NEW h \in handlers, ConnectFails(h)
      PROVE  UNCHANGED deathVars
  BY <1>4 DEF ConnectFails
<1>5. ASSUME NEW h \in handlers, NEW c \in Conns, Connect(h, c)
      PROVE  UNCHANGED deathVars
  BY <1>5 DEF Connect
<1>6. ASSUME NEW c \in Conns, Execute(c)
      PROVE  UNCHANGED deathVars
  BY <1>6 DEF Execute
<1>7. ASSUME NEW c \in Conns, CloseIdle(c) \/ ConnectionLost(c)
      PROVE  UNCHANGED deathVars
  BY <1>7 DEF CloseIdle, ConnectionLost
<1>8. CASE Quiet \/ UNCHANGED vars
  BY <1>8 DEF Quiet, vars
<1>9. QED
  BY <1>1, <1>2, <1>3, <1>4, <1>5, <1>6, <1>7, <1>8 DEF Next, WorkerStep

\* What a worker is abandoned with are the pending statements.
LEMMA UnservedIsPending ==
  Unserved = Pending
BY DEF Unserved, Pending, Wire, Elems

LEMMA StepKeepsDeaths ==
  ASSUME Base, Deaths, [Next]_vars
  PROVE  Deaths'
<1>1. crashes \in Nat /\ exits \in Nat /\ errors \in Nat /\ MaxCrashes \in Nat
  BY BridgeAssumption DEF Deaths
<1>2. CASE UNCHANGED deathVars
  BY <1>2 DEF Deaths, deathVars
<1>3. ASSUME Forget
      PROVE  adrift' \subseteq AllWrites /\ crashes' = crashes
  <2>1. adrift' = adrift \cup {m.write : m \in Pending} /\ \A m \in Pending : m.kind = "query"
    BY <1>3, UnservedIsPending DEF Forget
  <2>2. ASSUME NEW m \in Pending
        PROVE  m.write \in AllWrites
    <3>1. m \in Posted /\ m.write[2] # 9
      BY <2>1, PendingIds DEF Base, WorkerTyped
    <3>2. QED
      BY <3>1 DEF Posted, AllWrites
  <2>3. QED
    BY <1>3, <2>1, <2>2 DEF Deaths, Forget
<1>4. CASE WorkerError
  BY <1>1, <1>3, <1>4 DEF WorkerError, Deaths
<1>5. CASE WorkerExit
  BY <1>1, <1>3, <1>5 DEF WorkerExit, Deaths
<1>6. CASE WorkerDies
  <2>1. /\ crashes < MaxCrashes /\ crashes' = crashes + 1 /\ exits' = exits + 1
        /\ errors' \in {errors, errors + 1} /\ adrift' = adrift
    BY <1>6 DEF WorkerDies
  <2>2. QED
    BY <1>1, <2>1 DEF Deaths
<1>7. CASE \E w \in adrift : RunsAdrift(w)
  BY <1>7 DEF RunsAdrift, Deaths
<1>8. QED
  BY <1>2, <1>4, <1>5, <1>6, <1>7, OthersLeaveDeaths

\* A task that threw without knowing why is not cleared of it.
LEMMA UnsureStays ==
  ASSUME [Next]_vars
  PROVE  unsure \subseteq unsure'
<1>1. CASE Begin("begin") \/ Begin("single")
  BY <1>1 DEF Begin
<1>2. CASE MainStep
  BY <1>2 DEF MainStep, Send, Receive, Timeout, WorkerError, WorkerExit, Forget, Unanswered
<1>3. CASE HandleMessage
  BY <1>3 DEF HandleMessage, mainVars, Respond
<1>4. ASSUME NEW h \in handlers, ConnectFails(h)
      PROVE  unsure' = unsure
  BY <1>4 DEF ConnectFails, Respond
<1>5. ASSUME NEW h \in handlers, NEW c \in Conns, Connect(h, c)
      PROVE  unsure' = unsure
  BY <1>5 DEF Connect, mainVars
<1>6. ASSUME NEW c \in Conns, Execute(c)
      PROVE  unsure' = unsure
  BY <1>6 DEF Execute, Respond
<1>7. ASSUME NEW c \in Conns, CloseIdle(c) \/ ConnectionLost(c)
      PROVE  unsure' = unsure
  BY <1>7 DEF CloseIdle, ConnectionLost, mainVars
<1>8. CASE WorkerDies \/ Quiet \/ UNCHANGED vars
  BY <1>8 DEF WorkerDies, Quiet, vars, mainVars
<1>9. ASSUME NEW w \in adrift, RunsAdrift(w)
      PROVE  unsure' = unsure
  BY <1>9 DEF RunsAdrift, mainVars
<1>10. QED
  BY <1>1, <1>2, <1>3, <1>4, <1>5, <1>6, <1>7, <1>8, <1>9 DEF Next, WorkerStep

LEMMA StepKeepsAdrift ==
  ASSUME Base, Clean, AdriftOK, [Next]_vars
  PROVE  AdriftOK'
<1>1. unsure \subseteq unsure'
  BY UnsureStays
<1>2. CASE adrift' \subseteq adrift
  BY <1>1, <1>2 DEF AdriftOK
<1>3. CASE Forget
  <2>1. adrift' = adrift \cup {m.write : m \in Pending} /\ pc = "idle"
    BY <1>3, UnservedIsPending DEF Forget
  <2>2. ASSUME NEW m \in Pending
        PROVE  \E t \in unsure : m.write = <<t, 0>>
    <3>1. waiting = 0
      BY <2>1 DEF Base, MainTyped
    <3>2. Solo(m) /\ m.write[1] \in unsure
      BY <2>1, <3>1, NothingPending DEF Clean
    <3>3. m.write \in AllWrites /\ m.write[2] = 0
      BY <3>2, PendingKinds DEF Clean, Solo
    <3>4. m.write = <<m.write[1], 0>>
      BY <3>3 DEF AllWrites
    <3>5. QED
      BY <3>2, <3>4
  <2>3. QED
    BY <1>1, <2>1, <2>2 DEF AdriftOK
<1>4. QED
  BY <1>2, <1>3, OthersLeaveDeaths DEF deathVars, WorkerError, WorkerExit, WorkerDies, RunsAdrift

\* No step clears strayed.
LEMMA StrayedStays ==
  ASSUME Base, Next, strayed
  PROVE  strayed'
<1>1. CASE Begin("begin") \/ Begin("single")
  BY <1>1 DEF Begin
<1>2. CASE MainStep
  BY <1>2 DEF MainStep, Send, Receive, Timeout, WorkerError, WorkerExit, Forget, Throw, Unanswered
<1>3. CASE HandleMessage
  BY <1>3 DEF HandleMessage, mainVars, Respond
<1>4. ASSUME NEW h \in handlers, ConnectFails(h)
      PROVE  strayed'
  BY <1>4 DEF ConnectFails, Respond
<1>5. ASSUME NEW h \in handlers, NEW c \in Conns, Connect(h, c)
      PROVE  strayed'
  BY <1>5 DEF Connect, mainVars
<1>6. ASSUME NEW c \in Conns, Execute(c)
      PROVE  strayed'
  BY <1>6 DEF Execute, Respond
<1>7. ASSUME NEW c \in Conns, CloseIdle(c) \/ ConnectionLost(c)
      PROVE  strayed'
  BY <1>7 DEF CloseIdle, ConnectionLost, mainVars
<1>8. CASE WorkerDies \/ Quiet
  BY <1>8 DEF WorkerDies, Quiet, vars, mainVars
<1>9. ASSUME NEW w \in adrift, RunsAdrift(w)
      PROVE  strayed'
  BY <1>9 DEF RunsAdrift, mainVars
<1>10. QED
  BY <1>1, <1>2, <1>3, <1>4, <1>5, <1>6, <1>7, <1>8, <1>9 DEF Next, WorkerStep

LEMMA StepKeepsBase ==
  ASSUME Base, Deaths, [Next]_vars
  PROVE  Base'
<1>1. CASE Begin("begin") \/ Begin("single")
  BY <1>1, BeginKeepsBase
<1>2. CASE WorkerError \/ WorkerExit
  <2>1. bridgeError' \in BOOLEAN
    BY <1>2 DEF WorkerError, WorkerExit, Base, MainTyped
  <2>2. Forget
    BY <1>2 DEF WorkerError, WorkerExit
  <2>3. QED
    BY <2>1, <2>2, ForgetKeepsBase
<1>3. CASE Send \/ Receive \/ Timeout
  BY <1>3, SendKeepsBase, ReceiveKeepsBase, TimeoutKeepsBase
<1>4. CASE WorkerStep
  BY <1>4, HandleKeepsBase, ConnectKeepsBase, ConnectFailsKeepsBase, ExecuteKeepsBase DEF WorkerStep
<1>5. CASE \E c \in Conns : CloseIdle(c) \/ ConnectionLost(c)
  BY <1>5, CloseIdleKeepsBase, ConnectionLostKeepsBase
<1>6. CASE WorkerDies
  BY <1>6, WorkerDiesKeepsBase
<1>7. CASE \E w \in adrift : RunsAdrift(w)
  BY <1>7, RunsAdriftKeepsBase
<1>8. CASE Quiet \/ UNCHANGED vars
  BY <1>8, StutterKeepsBase DEF Quiet
<1>9. QED
  BY <1>1, <1>2, <1>3, <1>4, <1>5, <1>6, <1>7, <1>8 DEF Next, MainStep

LEMMA StepKeepsClean ==
  ASSUME Base, Clean, AdriftOK, [Next]_vars, ~strayed'
  PROVE  Clean'
<1>1. CASE Begin("begin") \/ Begin("single")
  BY <1>1, BeginKeepsClean
<1>2. CASE Send \/ Receive \/ Timeout
  BY <1>2, SendKeepsClean, SendToNobodyKeepsClean, ReceiveKeepsClean, TimeoutKeepsClean
<1>3. CASE WorkerError \/ WorkerExit
  BY <1>3, ForgetKeepsClean DEF WorkerError, WorkerExit
<1>4. CASE WorkerStep
  BY <1>4, HandleKeepsClean, ConnectKeepsClean, ConnectFailsKeepsClean, ExecuteKeepsClean DEF WorkerStep
<1>5. CASE \E c \in Conns : CloseIdle(c) \/ ConnectionLost(c)
  BY <1>5, NoIdleTransaction, ConnectionLostKeepsClean
<1>6. CASE WorkerDies
  BY <1>6, WorkerDiesKeepsClean
<1>7. CASE \E w \in adrift : RunsAdrift(w)
  BY <1>7, RunsAdriftKeepsClean
<1>8. CASE Quiet \/ UNCHANGED vars
  BY <1>8, StutterKeepsClean DEF Quiet
<1>9. QED
  BY <1>1, <1>2, <1>3, <1>4, <1>5, <1>6, <1>7, <1>8 DEF Next, MainStep

LEMMA BridgeInvariant == Spec => []BridgeInv
<1>1. Init => BridgeInv
  <2>1. Init => Deaths /\ AdriftOK
    BY BridgeAssumption DEF Init, Deaths, AdriftOK
  <2>2. QED
    BY <2>1, BaseHoldsAtFirst, CleanAtFirst DEF BridgeInv
<1>2. BridgeInv /\ [Next]_vars => BridgeInv'
  <2> SUFFICES ASSUME BridgeInv, [Next]_vars
               PROVE  BridgeInv'
    OBVIOUS
  <2>1. Base' /\ Deaths'
    BY StepKeepsBase, StepKeepsDeaths DEF BridgeInv
  <2>2. strayed' \/ (Clean' /\ AdriftOK')
    <3>1. CASE strayed
      <4>1. CASE Next
        BY <3>1, <4>1, StrayedStays DEF BridgeInv
      <4>2. CASE UNCHANGED vars
        BY <3>1, <4>2 DEF vars, mainVars
      <4>3. QED
        BY <4>1, <4>2
    <3>2. CASE ~strayed
      BY <3>2, StepKeepsClean, StepKeepsAdrift DEF BridgeInv
    <3>3. QED
      BY <3>1, <3>2
  <2>3. QED
    BY <2>1, <2>2 DEF BridgeInv
<1>3. QED
  BY <1>1, <1>2, PTL DEF Spec

\* Every variable of the bridge keeps its type, and every statement that was
\* sent on a connection has a handler of the worker that awaits its result,
\* however late answers are and whenever the worker dies.
THEOREM TypesHold == Spec => []TypeOK
<1>1. BridgeInv => TypeOK
  <2> SUFFICES ASSUME Base, Deaths
               PROVE  TypeOK
    BY DEF BridgeInv
  <2>1. ASSUME NEW n \in 1..Len(channel)
        PROVE  channel[n] \in Messages
    <3>1. channel[n] \in Pending
      BY DEF Pending, Wire, Elems
    <3>2. PICK m \in Pending : m = channel[n]
      BY <3>1
    <3>3. m \in Posted /\ m.id \in Nat \ {0} /\ m.id < nextId /\ nextId \in Nat
      BY PendingIds DEF Base, MainTyped
    <3>4. m \in Messages
      BY <3>3 DEF Posted, Messages
    <3>5. QED
      BY <3>2, <3>4
  <2>2. ASSUME NEW c \in Conns
        PROVE  /\ conn[c].held \in BOOLEAN /\ conn[c].aborted \in BOOLEAN
               /\ conn[c].tx = NoTx \/ conn[c].tx \subseteq AllWrites
               /\ \A n \in 1..Len(conn[c].queue) :
                    \E h \in handlers : h.conn = c /\ Message(h) = conn[c].queue[n]
    <3>1. conn[c] \in ConnsOf
      BY DEF Base, WorkerTyped
    <3>2. \A n \in 1..Len(conn[c].queue) : conn[c].queue[n] \in Sent(c)
      BY DEF Sent, Elems
    <3>3. QED
      BY <3>1, <3>2 DEF ConnsOf, Base, Queued
  <2>3. waiting \in 0..nextId
    BY DEF Base, MainTyped
  <2>4. QED
    BY <2>1, <2>2, <2>3 DEF TypeOK, Base, MainTyped, WorkerTyped, Deaths
<1>2. QED
  BY <1>1, BridgeInvariant, PTL

\* A task that was told its writes are done finds them in the database, as
\* long as no BEGIN and no ROLLBACK was given up half way.
THEOREM WhatWasAckedIsDurable == Spec => []AckedIsDurable
<1>1. BridgeInv => AckedIsDurable
  BY DEF BridgeInv, Clean, DataOK, AckedIsDurable
<1>2. QED
  BY <1>1, BridgeInvariant, PTL

\* The two writes of a transaction are committed together or not at all, and
\* not when its task threw, unless it threw without knowing what became of its
\* last statement.
THEOREM TransactionsAreAtomic == Spec => []AllOrNothing
<1>1. BridgeInv => AllOrNothing
  <2> SUFFICES ASSUME BridgeInv, ~strayed, NEW t \in 1..MaxTasks
               PROVE  /\ <<t, 1>> \in db <=> <<t, 2>> \in db
                      /\ t \in refused \ unsure => \A n \in 0..2 : <<t, n>> \notin db
    BY DEF AllOrNothing
  <2>1. QED
    BY DEF BridgeInv, Clean, DataOK
<1>2. QED
  BY <1>1, BridgeInvariant, PTL

\* Between two tasks no transaction is open on any connection, and once the
\* worker has nothing to do every connection is back in the pool.
THEOREM NothingLeaks == Spec => []IdleIsClean
<1>1. BridgeInv => IdleIsClean
  <2> SUFFICES ASSUME BridgeInv, ~strayed, pc = "idle"
               PROVE  /\ client = NoConn
                      /\ \A c \in Conns : conn[c].tx = NoTx
                      /\ channel = <<>> /\ handlers = {} => \A c \in Conns : ~conn[c].held
    BY DEF IdleIsClean
  <2>1. client = NoConn
    BY DEF BridgeInv, Clean, TxOK
  <2>2. ASSUME NEW c \in Conns
        PROVE  conn[c].tx = NoTx /\ (conn[c].held => handlers # {})
    <3>1. c # client
      BY <2>1, BridgeAssumption
    <3>2. QED
      BY <3>1 DEF BridgeInv, Clean, ConnsOK
  <2>3. QED
    BY <2>1, <2>2
<1>2. QED
  BY <1>1, BridgeInvariant, PTL
=============================================================================
