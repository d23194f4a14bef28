---------------------------- MODULE PostgresBridge ----------------------------
(***************************************************************************)
(* The synchronous bridge of one Node process: the main thread             *)
(* (src/server/db/postgresSyncBridge.ts) posts a message and blocks until  *)
(* the answer is there or DEFAULT_TIMEOUT_MS have passed; a worker thread  *)
(* (postgresSyncWorker.mjs) runs an async handler for each message, on the *)
(* connection of the open transaction or on one of the pool.               *)
(*                                                                         *)
(* On top of it run the tasks of the services: a single statement, or a    *)
(* transaction of two as runManualTransaction, runBillingTransaction and   *)
(* upsertRowsSync make it.  The main thread has one task at a time, but a  *)
(* message it no longer waits for may still be running in the worker.      *)
(***************************************************************************)
EXTENDS Integers, Sequences, FiniteSets

CONSTANTS
  Conns,      \* the connections of the pool (NOVA_DATA_PG_POOL_MAX)
  NoConn, NoTx,
  Slow,       \* the kinds of messages whose answer may come after the timeout
  Fails,      \* the kinds of messages that may be answered with an error
  MaxTasks,   \* bound: the tasks of a behaviour
  MaxCrashes  \* bound: how often the worker dies

Kinds == {"query", "begin", "commit", "rollback"}

ASSUME BridgeAssumption ==
  /\ NoConn \notin Conns
  /\ \A writes \in SUBSET ((1..MaxTasks) \X (0..2)) : writes # NoTx
  /\ Slow \subseteq Kinds /\ Fails \subseteq Kinds
  /\ MaxTasks \in Nat /\ MaxCrashes \in Nat

VARIABLES
  \* the main thread
  pc,           \* what it has to do next, "idle" between tasks
  task,         \* the number of its task
  waiting,      \* the id of the message it waits for, or 0
  answer,       \* the answer to that message: "none", "ok", "error", or "lost": an
                \* error, but of a connection that is gone
  nextId,       \* nextMessageId
  bridgeError,  \* is there an error of a worker that was not thrown yet?
  promised,     \* the writes of the tasks that succeeded
  refused,      \* the tasks that threw
  unsure,       \* those that threw because of a timeout, a dead worker or a lost connection
  strayed,      \* has a BEGIN or a ROLLBACK thrown that the worker goes on with?
  \* the worker
  worker,       \* "up", "none", or "dead" as long as the main thread does not know
  channel,      \* the messages posted to it
  handlers,     \* the handlers that await something
  client,       \* transactionClient
  errors,       \* the 'error' and 'exit' events of dead workers that the main
  exits,        \* thread has not heard yet
  \* the connections and Postgres
  conn,         \* checked out?, statements sent, open transaction (its writes), aborted?
  db,           \* the committed writes
  adrift,       \* the writes a worker still has that the main thread has abandoned
  crashes

mainVars   == <<pc, task, waiting, answer, nextId, bridgeError, promised, refused, unsure, strayed>>
workerVars == <<worker, channel, handlers, client>>
dbVars     == <<conn, db>>
deathVars  == <<errors, exits, adrift, crashes>>
vars       == <<mainVars, workerVars, dbVars, deathVars>>

NewConn == [held |-> FALSE, queue |-> <<>>, tx |-> NoTx, aborted |-> FALSE]

Init ==
  /\ pc = "idle" /\ task = 0 /\ waiting = 0 /\ answer = "none" /\ nextId = 1
  /\ bridgeError = FALSE
  /\ promised = {} /\ refused = {} /\ unsure = {} /\ strayed = FALSE
  /\ worker = "none" /\ channel = <<>> /\ handlers = {} /\ client = NoConn
  /\ conn = [c \in Conns |-> NewConn]
  /\ db = {}
  /\ errors = 0 /\ exits = 0 /\ adrift = {} /\ crashes = 0

-----------------------------------------------------------------------------
\* The main thread.

Kind(at) == IF at \in {"begin", "commit", "rollback"} THEN at ELSE "query"

\* The write of a statement: 0 for a single one, 1 and 2 in a transaction.
WriteOf(at) ==
  CASE at = "single" -> <<task, 0>>
    [] at = "write1" -> <<task, 1>>
    [] at = "write2" -> <<task, 2>>
    [] OTHER -> <<task, 9>>

\* Mutant of After: the callback's result is returned without a COMMIT.
AfterUncommitted(at) ==
  CASE at = "begin" -> "write1" [] at = "write1" -> "write2" [] OTHER -> "idle"

After(at) ==
  CASE at = "begin" -> "write1"
    [] at = "write1" -> "write2"
    [] at = "write2" -> "commit"
    [] OTHER -> "idle"

Begin(first) ==
  /\ pc = "idle"
  /\ task < MaxTasks
  /\ task' = task + 1
  /\ pc' = first
  /\ UNCHANGED <<waiting, answer, nextId, bridgeError, promised, refused, unsure,
                 strayed, workerVars, dbVars, deathVars>>

\* Mutant of Caught: the wrapper forgets to roll back.
CaughtOnly(at) == "idle"

\* The catch of the wrapper: beginTransactionSync is called outside its try,
\* and errors of the rollback itself are swallowed.
Caught(at) == IF at \in {"write1", "write2", "commit"} THEN "rollback" ELSE "idle"

\* The call has thrown.
Throw ==
  /\ pc' = Caught(pc)
  /\ refused' = refused \cup {task}
  /\ waiting' = 0 /\ answer' = "none"

\* It has thrown although its message will be worked on.
Unanswered ==
  /\ unsure' = unsure \cup {task}
  /\ strayed' = (strayed \/ (worker # "dead" /\ pc \in {"begin", "rollback"}))

\* ensureBridge, postMessage, and the beginning of waitForResponse: an error the
\* last worker left is thrown here, when the message has been posted already.
Send ==
  /\ pc # "idle" /\ waiting = 0
  /\ worker' = IF worker = "none" THEN "up" ELSE worker
  /\ channel' = IF worker = "dead" THEN channel
                ELSE Append(channel, [id |-> nextId, kind |-> Kind(pc), write |-> WriteOf(pc)])
  /\ nextId' = nextId + 1
  /\ bridgeError' = FALSE
  /\ IF bridgeError
       THEN Throw /\ Unanswered
       ELSE waiting' = nextId /\ UNCHANGED <<pc, answer, refused, unsure, strayed>>
  /\ UNCHANGED <<task, promised, handlers, client, dbVars, deathVars>>

Writes(at) == IF at = "single" THEN {<<task, 0>>} ELSE {<<task, 1>>, <<task, 2>>}

\* The answer to its own message has come.
Receive ==
  /\ answer # "none"
  /\ IF answer = "ok"
       THEN /\ pc' = After(pc)
            /\ promised' = IF After(pc) = "idle" /\ pc # "rollback"
                             THEN promised \cup Writes(pc) ELSE promised
            /\ waiting' = 0 /\ answer' = "none"
            /\ UNCHANGED <<refused, unsure>>
       ELSE /\ Throw
            /\ unsure' = IF answer = "lost" THEN unsure \cup {task} ELSE unsure
            /\ UNCHANGED promised
  /\ UNCHANGED <<task, nextId, bridgeError, strayed, workerVars, dbVars, deathVars>>

\* Mutant of Timeout: the polling loop has no deadline.
PollForEver == waiting # 0 /\ answer = "none" /\ UNCHANGED vars

\* POSTGRES_SYNC_QUERY_TIMEOUT: the message is not taken back, and a late
\* answer goes to pendingMessages, where nobody looks for it again.
Timeout ==
  /\ waiting # 0 /\ answer = "none"
  /\ Kind(pc) \in Slow \/ worker = "dead"
  /\ Throw /\ Unanswered
  /\ UNCHANGED <<task, nextId, bridgeError, promised, workerVars, dbVars, deathVars>>

Message(h) == [id |-> h.id, kind |-> h.kind, write |-> h.write]

\* What the worker was sent and has not answered.
Unserved == {channel[n] : n \in 1..Len(channel)} \cup {Message(h) : h \in handlers}

\* Both events make the main thread forget its worker, even if that is not the
\* one that has stopped: what the abandoned one has left to do, it still does.
\* (Left out: one that is in a transaction, where something has strayed.)
Forget ==
  /\ pc = "idle"
  /\ client = NoConn /\ \A m \in Unserved : m.kind = "query"
  /\ adrift' = adrift \cup {m.write : m \in Unserved}
  /\ worker' = "none" /\ channel' = <<>> /\ handlers' = {}
  /\ conn' = [c \in Conns |-> NewConn]
  /\ UNCHANGED <<pc, task, waiting, answer, nextId, promised, refused, unsure, strayed,
                 client, db, crashes>>

\* Back in its event loop, the main thread hears that a worker has failed,
WorkerError ==
  /\ errors > 0
  /\ errors' = errors - 1 /\ bridgeError' = TRUE
  /\ Forget
  /\ UNCHANGED exits

\* and, after that, that it has stopped.
WorkerExit ==
  /\ exits > errors
  /\ exits' = exits - 1
  /\ Forget
  /\ UNCHANGED <<errors, bridgeError>>

-----------------------------------------------------------------------------
\* The worker.  Respond is a postMessage to the main thread.

Respond(id, verdict) ==
  /\ answer' = IF id = waiting THEN verdict ELSE answer
  /\ UNCHANGED <<pc, task, waiting, nextId, bridgeError, promised, refused, unsure, strayed>>

\* transactionClient.release(), to the pool, in whatever state it is, and
\* transactionClient = null.
Released == IF client = NoConn THEN conn ELSE [conn EXCEPT ![client].held = FALSE]

\* Mutant of Target: every statement goes to the pool.
TargetPool == NoConn

\* withQueryTarget
Target == client

\* Mutant of Enqueue: the promise of the statement is not awaited.
EnqueueUnawaited(c, m, at) ==
  /\ conn' = [conn EXCEPT ![c].queue = Append(@, m)]
  /\ UNCHANGED handlers

Enqueue(c, m, at) ==
  /\ handlers' = handlers \cup {[id |-> m.id, kind |-> m.kind, write |-> m.write, at |-> at, conn |-> c]}
  /\ conn' = [conn EXCEPT ![c].queue = Append(@, m)]

Awaits(m) ==
  /\ handlers' = handlers \cup
       {[id |-> m.id, kind |-> m.kind, write |-> m.write, at |-> "connect", conn |-> NoConn]}
  /\ UNCHANGED conn

\* The next message starts its handler, which runs to its first await.  A
\* BEGIN that finds a transaction open is refused, and its catch block gives
\* the open transaction's connection back to the pool.
HandleMessage ==
  LET m == Head(channel) IN
  /\ channel # <<>>
  /\ channel' = Tail(channel)
  /\ \/ /\ m.kind = "query"
        /\ IF Target # NoConn THEN Enqueue(Target, m, "client") ELSE Awaits(m)
        /\ UNCHANGED <<client, mainVars>>
     \/ /\ m.kind = "begin" /\ client = NoConn
        /\ Awaits(m)
        /\ UNCHANGED <<client, mainVars>>
     \/ /\ m.kind \in {"commit", "rollback"} /\ client # NoConn
        /\ Enqueue(client, m, "client")
        /\ UNCHANGED <<client, mainVars>>
     \/ /\ \/ m.kind = "begin" /\ client # NoConn
           \/ m.kind \in {"commit", "rollback"} /\ client = NoConn
        /\ Respond(m.id, "error")
        /\ conn' = Released /\ client' = NoConn
        /\ UNCHANGED handlers
  /\ UNCHANGED <<worker, db, deathVars>>

\* pool.connect, for BEGIN or inside pool.query
Connect(h, c) ==
  /\ h.at = "connect"
  /\ ~conn[c].held
  /\ handlers' = (handlers \ {h}) \cup
       {[h EXCEPT !.at = IF h.kind = "begin" THEN "client" ELSE "pool", !.conn = c]}
  /\ conn' = [conn EXCEPT ![c].held = TRUE, ![c].queue = Append(@, Message(h))]
  /\ client' = IF h.kind = "begin" THEN c ELSE client
  /\ UNCHANGED <<mainVars, worker, channel, db, deathVars>>

\* connectionTimeoutMillis; a BEGIN's catch releases whatever client there is.
ConnectFails(h) ==
  /\ h.at = "connect"
  /\ h.kind \in Fails \/ \A c \in Conns : conn[c].held
  /\ handlers' = handlers \ {h}
  /\ IF h.kind = "begin" THEN conn' = Released /\ client' = NoConn ELSE UNCHANGED <<conn, client>>
  /\ Respond(h.id, "error")
  /\ UNCHANGED <<worker, channel, db, deathVars>>

-----------------------------------------------------------------------------
\* Postgres runs the next statement of connection c, and the worker takes the
\* result.

\* The connection after the statement, and what it commits.
Ran(c, m, fails) ==
  LET tx == conn[c].tx
      ended == [conn[c] EXCEPT !.tx = NoTx, !.aborted = FALSE, !.queue = Tail(@)]
  IN
  CASE m.kind = "begin" /\ ~fails ->
         [ended EXCEPT !.tx = IF tx = NoTx THEN {} ELSE tx, !.aborted = conn[c].aborted]
    [] m.kind \in {"commit", "rollback"} -> ended
    [] m.kind = "query" /\ ~fails /\ tx # NoTx -> [conn[c] EXCEPT !.queue = Tail(@), !.tx = @ \cup {m.write}]
    [] m.kind = "query" /\ fails /\ tx # NoTx -> [conn[c] EXCEPT !.queue = Tail(@), !.aborted = TRUE]
    [] OTHER -> [conn[c] EXCEPT !.queue = Tail(@)]

Committed(c, m, fails) ==
  CASE m.kind = "commit" /\ ~fails /\ ~conn[c].aborted /\ conn[c].tx # NoTx -> conn[c].tx
    [] m.kind = "query" /\ ~fails /\ conn[c].tx = NoTx -> {m.write}
    [] OTHER -> {}

\* A pooled statement gives its connection back, and so do COMMIT, ROLLBACK and
\* a BEGIN that failed: to them it is transactionClient, whoever set it last.
Execute(c) ==
  LET m == Head(conn[c].queue)
      h == CHOOSE x \in handlers : x.id = m.id
      ends == m.kind \in {"commit", "rollback"}
  IN
  /\ conn[c].queue # <<>>
  /\ \E fails \in BOOLEAN :
       LET gives == ends \/ (m.kind = "begin" /\ fails)
           back == IF h.at = "pool" THEN {c} ELSE IF gives THEN {client} ELSE {}
           ran == [conn EXCEPT ![c] = Ran(c, m, fails)]
       IN
       /\ fails => m.kind \in Fails \/ conn[c].aborted
       /\ conn[c].aborted /\ m.kind = "query" => fails
       /\ conn' = [d \in Conns |-> IF d \in back THEN [ran[d] EXCEPT !.held = FALSE] ELSE ran[d]]
       /\ db' = db \cup Committed(c, m, fails)
       /\ client' = IF gives THEN NoConn ELSE client
       /\ Respond(m.id, IF fails \/ (ends /\ client = NoConn) THEN "error" ELSE "ok")
  /\ handlers' = handlers \ {h}
  /\ UNCHANGED <<worker, channel, deathVars>>

\* The connection of pool.query is lost, before or after Postgres has run the
\* statement: an error is all that the worker has to tell.
ConnectionLost(c) ==
  LET hit == {h \in handlers : h.conn = c} IN
  /\ c # client
  /\ \E h \in hit : h.at = "pool" /\ h.kind \in Fails
  /\ db' = db \/ db' = db \cup Committed(c, Head(conn[c].queue), FALSE)
  /\ answer' = IF \E h \in hit : h.id = waiting THEN "lost" ELSE answer
  /\ handlers' = handlers \ hit
  /\ conn' = [conn EXCEPT ![c] = NewConn]
  /\ UNCHANGED <<pc, task, waiting, nextId, bridgeError, promised, refused, unsure, strayed,
                 worker, channel, client, deathVars>>

\* idleTimeoutMillis: the pool closes a connection nobody has used for long.
CloseIdle(c) ==
  /\ ~conn[c].held /\ conn[c].queue = <<>> /\ conn[c].tx # NoTx
  /\ conn' = [conn EXCEPT ![c] = NewConn]
  /\ UNCHANGED <<mainVars, workerVars, db, deathVars>>

\* The worker dies (an unhandled 'error' of a connection is enough, and that
\* of a transaction has no listener), its connections are closed and Postgres
\* rolls their transactions back; statements it had been sent may have run.
WorkerDies ==
  /\ worker = "up"
  /\ crashes < MaxCrashes
  /\ crashes' = crashes + 1
  /\ exits' = exits + 1 /\ errors' \in {errors, errors + 1}
  /\ worker' = "dead"
  /\ channel' = <<>> /\ handlers' = {} /\ client' = NoConn
  /\ \E ran \in SUBSET {c \in Conns : conn[c].queue # <<>>} :
       db' = db \cup UNION {Committed(c, Head(conn[c].queue), FALSE) : c \in ran}
  /\ conn' = [c \in Conns |-> NewConn]
  /\ UNCHANGED <<mainVars, adrift>>

\* An abandoned worker runs a statement.
RunsAdrift(w) ==
  /\ w \in adrift
  /\ adrift' = adrift \ {w}
  /\ db' = db \cup {w}
  /\ UNCHANGED <<mainVars, workerVars, conn, errors, exits, crashes>>

MainStep == Send \/ Receive \/ Timeout \/ WorkerError \/ WorkerExit

WorkerStep ==
  \/ HandleMessage
  \/ \E h \in handlers : ConnectFails(h) \/ \E c \in Conns : Connect(h, c)
  \/ \E c \in Conns : Execute(c)

Quiet == pc = "idle" /\ task = MaxTasks /\ UNCHANGED vars

Next ==
  \/ Begin("begin") \/ Begin("single")
  \/ MainStep \/ WorkerStep
  \/ \E c \in Conns : CloseIdle(c) \/ ConnectionLost(c)
  \/ WorkerDies
  \/ \E w \in adrift : RunsAdrift(w)
  \/ Quiet

\* The main thread and the worker run on, and Postgres answers in the end.
Spec == Init /\ [][Next]_vars /\ WF_vars(MainStep) /\ WF_vars(WorkerStep)

-----------------------------------------------------------------------------
\* Properties.

AllWrites == (1..MaxTasks) \X (0..2)

Messages == [id : 1..nextId, kind : Kinds, write : (1..MaxTasks) \X {0, 1, 2, 9}]

\* Everything has its type, and every statement that was sent has a handler
\* that awaits its result.
TypeOK ==
  /\ pc \in {"idle", "begin", "write1", "write2", "commit", "rollback", "single"}
  /\ task \in 0..MaxTasks
  /\ waiting \in 0..nextId /\ answer \in {"none", "ok", "error", "lost"}
  /\ bridgeError \in BOOLEAN
  /\ promised \subseteq AllWrites /\ db \subseteq AllWrites /\ adrift \subseteq AllWrites
  /\ unsure \subseteq refused /\ refused \subseteq 1..MaxTasks
  /\ worker \in {"up", "none", "dead"}
  /\ crashes \in 0..MaxCrashes /\ exits \in 0..crashes /\ errors \in 0..exits
  /\ \A n \in 1..Len(channel) : channel[n] \in Messages
  /\ client \in Conns \cup {NoConn}
  /\ \A c \in Conns :
       /\ conn[c].held \in BOOLEAN /\ conn[c].aborted \in BOOLEAN
       /\ conn[c].tx = NoTx \/ conn[c].tx \subseteq AllWrites
       /\ \A n \in 1..Len(conn[c].queue) :
            \E h \in handlers : h.conn = c /\ Message(h) = conn[c].queue[n]

\* What a service was told it had written is in the database, if no BEGIN and
\* no ROLLBACK was given up half way: its transaction takes in the statements
\* of later tasks.
AckedIsDurable == ~strayed => promised \subseteq db

\* A transaction is committed as a whole or not at all, and not if its task
\* threw, unless it threw because an answer was late, the worker dead or the
\* connection lost.
AllOrNothing ==
  ~strayed => \A t \in 1..MaxTasks :
    /\ <<t, 1>> \in db <=> <<t, 2>> \in db
    /\ t \in refused \ unsure => \A n \in 0..2 : <<t, n>> \notin db

\* Between two tasks no transaction is open, on no connection, and when the
\* worker has nothing to do all connections are in the pool: no error of a
\* statement, a connection or a COMMIT, late answer or crash leaks one.
IdleIsClean ==
  pc = "idle" /\ ~strayed =>
    /\ client = NoConn
    /\ \A c \in Conns : conn[c].tx = NoTx
    /\ channel = <<>> /\ handlers = {} => \A c \in Conns : ~conn[c].held

\* The main thread, which blocks the whole process, goes on in the end.
EveryTaskEnds == pc # "idle" ~> pc = "idle"
=============================================================================
