-------------------------- MODULE RequestGovernance --------------------------
(***************************************************************************)
(* src/shared/http/apiGovernance.js, as fetchApi of src/utils/api.js uses  *)
(* it, for the requests of one bucket: a circuit breaker with a half-open  *)
(* probe, the pause of a disabled deployment, a smallest gap between       *)
(* requests and the coalescing of equal reads.                             *)
(*                                                                         *)
(* Every browser tab keeps maps of its own and shares deadlines, the       *)
(* failure streak and two advisory locks with the other tabs through       *)
(* localStorage, which locks nothing out: taking an advisory lock is a     *)
(* read, a write and a confirming read, and other tabs run in between.     *)
(* Other code between two awaits is one action.  Of a deadline only the    *)
(* time that is left is kept: Tick lets all of it run down, a deadline in  *)
(* the past is 0.  The code of one event takes no time.                    *)
(***************************************************************************)
EXTENDS Integers, FiniteSets

CONSTANTS
  Tabs,
  Keys, Coalesced,  \* the requests (method, path, body), and those shouldCoalesceRequest admits
  Slots,            \* names for the requests under way
  Free,             \* a slot that is not used
  Nobody,           \* the owner of a lock that is not there
  Gone,             \* the owner of a lock whose tab was closed: no tab has its id
  Threshold,        \* FAILURE_STREAK_BEFORE_BACKOFF
  Backoffs,         \* how long a backoff lasts: it grows, and it is jittered
  ProbeTtl,         \* of the lock probe:<bucket>
  SpacingTtl,       \* of the lock spacing:<bucket>
  LockWait,         \* SHARED_LOCK_WAIT_MS
  PauseTime,        \* GLOBAL_PAUSE_ON_VERCEL_MS
  Worlds            \* gap: MIN_GAP_MS of the bucket, 0 for most; answers: what the
                    \* server may say; bounds: slots, the requests under way at a
                    \* time, closes, the tabs that are closed meanwhile; stores:
                    \* FALSE if localStorage is full and every setItem throws

\* The times a deadline, a gap or a lock may have left.
Times ==
  UNION {0..n : n \in {w.gap : w \in Worlds} \cup Backoffs \cup {PauseTime, ProbeTtl, SpacingTtl, LockWait}}

Requests ==
  [tab : Tabs, key : Keys, stage : {"queued", "locking", "sleeping", "starting", "fetch"},
   wait : Times, locked : BOOLEAN, probe : {"no", "alone", "disturbed"}]

ASSUME GovernanceAssumption ==
  /\ Coalesced \subseteq Keys
  /\ Free \notin Slots \cup Requests
  /\ {Nobody, Gone} \cap Tabs = {}
  /\ Threshold \in Nat \ {0}
  /\ Backoffs \subseteq Nat \ {0}
  /\ {ProbeTtl, SpacingTtl, PauseTime, LockWait} \subseteq Nat \ {0}
  /\ Worlds \subseteq [gap : Nat, answers : SUBSET {"ok", "failure", "disabled"},
                       slots : SUBSET Slots, closes : Nat, stores : BOOLEAN]

VARIABLES
  mine,      \* mine[t]: what tab t knows: streak, backoff, gap, pause, halfOpen
  shared,    \* the same in localStorage, without halfOpen
  lock,      \* the advisory locks probe:<bucket> and spacing:<bucket>: owner and time left
  trying,    \* trying[t]: how far tab t is in tryAcquireAdvisoryLock, for which lock and
             \* caller; raced, for ProbesAlone only: another tab was in it at the same time
  req,       \* the requests under way
  inFlight,  \* inFlight[t][k]: the request others of tab t may join
  rest,      \* rest[t]: what is left of Gap since t's own last request, for TabSpacing only
  closes,    \* how many tabs were closed
  world      \* the bucket and the server, which do not change

vars == <<mine, shared, lock, trying, req, inFlight, rest, closes, world>>

Fresh   == [streak |-> 0, backoff |-> 0, gap |-> 0, pause |-> 0]
NewTab  == [streak |-> 0, backoff |-> 0, gap |-> 0, pause |-> 0, halfOpen |-> FALSE]
LockNames == {"probe", "spacing"}

NoLock  == [owner |-> Nobody, left |-> 0]
NoTry   == [at |-> "no", lock |-> "probe", caller |-> Free, raced |-> FALSE]
Nothing == [k \in Keys |-> Free]

Init ==
  /\ mine = [t \in Tabs |-> NewTab]
  /\ shared = Fresh
  /\ lock = [n \in LockNames |-> NoLock]
  /\ trying = [t \in Tabs |-> NoTry]
  /\ req = [r \in Slots |-> Free]
  /\ inFlight = [t \in Tabs |-> Nothing]
  /\ rest = [t \in Tabs |-> 0]
  /\ closes = 0
  /\ world \in Worlds

Gap == world.gap

Larger(a, b) == IF a > b THEN a ELSE b

\* syncBucketStateFromShared
Synced(m) ==
  [m EXCEPT !.streak = Larger(@, shared.streak), !.backoff = Larger(@, shared.backoff),
            !.gap = Larger(@, shared.gap)]

\* writeStoredJson: a setItem that throws is passed over.
Stored(old, value) == IF world.stores THEN value ELSE old

Running(t) == {r \in Slots : req[r] # Free /\ req[r].tab = t}

-----------------------------------------------------------------------------
\* tryAcquireAdvisoryLock.  While a tab is in it nothing else of the tab runs.

Idle(t) == trying[t].at = "no"

\* Mutant of Acquirable: another tab's lock is overwritten.
AcquirableAlways(l, t) == TRUE

Acquirable(l, t) == l.left = 0 \/ l.owner \in {t, Nobody}

Ttl(name) == IF name = "probe" THEN ProbeTtl ELSE SpacingTtl

\* The first read finds the lock free, or the tab's own.
Looks(t, name, caller) ==
  LET rivals == {u \in Tabs \ {t} : ~Idle(u) /\ trying[u].lock = name /\ name = "probe"} IN
  /\ Acquirable(lock[name], t)
  /\ trying' = [u \in Tabs |->
       IF u = t THEN [at |-> "write", lock |-> name, caller |-> caller, raced |-> rivals # {}]
       ELSE IF u \in rivals THEN [trying[u] EXCEPT !.raced = TRUE] ELSE trying[u]]

\* It is written, whatever other tabs have written since.
WritesLock(t) ==
  LET name == trying[t].lock IN
  /\ trying[t].at = "write"
  /\ trying' = [trying EXCEPT ![t].at = "confirm"]
  /\ lock' = [lock EXCEPT ![name] = Stored(@, [owner |-> t, left |-> Ttl(name)])]
  /\ UNCHANGED <<mine, shared, req, inFlight, rest, closes, world>>

\* The second read finds the tab's own id, or not.
Confirms(t, name, isOwn) ==
  /\ trying[t].at = "confirm" /\ trying[t].lock = name
  /\ (lock[name].owner = t) = isOwn
  /\ trying' = [trying EXCEPT ![t] = NoTry]

Released(l, t) == IF l.owner = t THEN NoLock ELSE l

-----------------------------------------------------------------------------
\* fetchApi up to its first await.

Joins(t, k) == k \in Coalesced /\ inFlight[t][k] # Free

\* Bound: a call finds a slot, besides those of the tabs trying to probe.
HasRoom(t, k) ==
  \/ Joins(t, k)
  \/ Cardinality({r \in world.slots : req[r] = Free})
       > Cardinality({u \in Tabs : ~Idle(u) /\ trying[u].lock = "probe"})

\* A request starts; which slot it takes does not matter.
Begin(t, k, mark) ==
  LET free == {r \in world.slots : req[r] = Free}
      r == CHOOSE r \in free : TRUE
  IN
  /\ free # {}
  /\ req' = [req EXCEPT ![r] =
       [tab |-> t, key |-> k, stage |-> IF Gap = 0 THEN "starting" ELSE "queued", wait |-> 0,
        locked |-> FALSE, probe |-> mark]]
  /\ inFlight' = IF k \in Coalesced THEN [inFlight EXCEPT ![t][k] = r] ELSE inFlight

\* runCoalescedFetch: the caller shares the answer of a request under way.
\* A caller let through as the probe may end up here: that request is the probe.
Join(t, k, mark) ==
  /\ req' = IF mark # "no" THEN [req EXCEPT ![inFlight[t][k]].probe = mark] ELSE req
  /\ UNCHANGED inFlight

Send(t, k, mark) ==
  IF Joins(t, k) THEN Join(t, k, mark) ELSE Begin(t, k, mark)

\* syntheticIfGlobalPaused, syntheticIfBucketBackoff: the tab learns what the
\* others know, and most calls in bad times end here with a 503 of its own.
Known(t) == [Synced(mine[t]) EXCEPT !.pause = Larger(@, shared.pause)]

Paused(t) ==
  /\ Idle(t)
  /\ Larger(mine[t].pause, shared.pause) > 0
  /\ mine' = [mine EXCEPT ![t].pause = Larger(@, shared.pause)]
  /\ UNCHANGED <<shared, lock, trying, req, inFlight, rest, closes, world>>

BackedOff(t) ==
  /\ Idle(t)
  /\ Known(t).pause = 0
  /\ Known(t).backoff > 0 \/ (Known(t).streak >= Threshold
                                /\ (mine[t].halfOpen \/ ~Acquirable(lock["probe"], t)))
  /\ mine' = [mine EXCEPT ![t] = Known(t)]
  /\ UNCHANGED <<shared, lock, trying, req, inFlight, rest, closes, world>>

\* The breaker is closed.
Admitted(t, k) ==
  /\ Idle(t) /\ HasRoom(t, k)
  /\ Known(t).pause = 0 /\ Known(t).backoff = 0 /\ Known(t).streak < Threshold
  /\ mine' = [mine EXCEPT ![t] = Known(t)]
  /\ Send(t, k, "no")
  /\ UNCHANGED <<shared, lock, trying, rest, closes, world>>

\* It is half-open, and this request would be the probe.
WouldProbe(t, k) ==
  /\ Idle(t) /\ HasRoom(t, k)
  /\ Known(t).pause = 0 /\ Known(t).backoff = 0 /\ Known(t).streak >= Threshold
  /\ ~mine[t].halfOpen
  /\ mine' = [mine EXCEPT ![t] = Known(t)]
  /\ Looks(t, "probe", k)
  /\ UNCHANGED <<shared, lock, req, inFlight, rest, closes, world>>

AdmittedAsProbe(t) ==
  /\ Confirms(t, "probe", TRUE)
  /\ mine' = [mine EXCEPT ![t].halfOpen = TRUE]
  /\ Send(t, trying[t].caller, IF trying[t].raced THEN "disturbed" ELSE "alone")
  /\ UNCHANGED <<shared, lock, rest, closes, world>>

\* Another tab has written meanwhile, or nothing can be written: a 503.
ProbeLost(t) ==
  /\ Confirms(t, "probe", FALSE)
  /\ UNCHANGED <<mine, shared, lock, req, inFlight, rest, closes, world>>

Call(t, k) == Paused(t) \/ BackedOff(t) \/ Admitted(t, k) \/ WouldProbe(t, k)

-----------------------------------------------------------------------------
\* waitRequestSpacing

Waits(r, stage) == req[r] # Free /\ Idle(req[r].tab) /\ req[r].stage = stage

\* acquireAdvisoryLock: the lock is tried at once, and polled until LockWait is over.
Locking(r) ==
  LET t == req[r].tab IN
  /\ req' = [req EXCEPT ![r].stage = "locking", ![r].wait = LockWait]
  /\ IF Acquirable(lock["spacing"], t) THEN Looks(t, "spacing", r) ELSE UNCHANGED trying
  /\ UNCHANGED <<mine, shared, lock, inFlight, rest, closes, world>>

\* Mutant of TakeTurn: the waiters of a tab are not chained.
TakeTurnAny(r) == Waits(r, "queued") /\ Locking(r)

\* Mutant of TakeTurn: each waits for all the others.
TakeTurnLast(r) ==
  /\ Waits(r, "queued")
  /\ \A s \in Running(req[r].tab) \ {r} : req[s].stage = "fetch"
  /\ Locking(r)

\* The requests of a tab go through spacingQueue one at a time.
TakeTurn(r) ==
  /\ Waits(r, "queued")
  /\ \A s \in Running(req[r].tab) : req[s].stage \notin {"locking", "sleeping"}
  /\ Locking(r)

\* A poll that finds the lock taken changes nothing.
PollSpacing(r) ==
  /\ Waits(r, "locking")
  /\ req[r].wait > 0
  /\ Looks(req[r].tab, "spacing", r)
  /\ UNCHANGED <<mine, shared, lock, req, inFlight, rest, closes, world>>

\* With or without the lock, the request works out how long it has to wait.
Sleep(r, locked) ==
  LET t == req[r].tab
      known == Synced(mine[t])
  IN
  /\ mine' = [mine EXCEPT ![t] = known]
  /\ req' = [req EXCEPT ![r] = [@ EXCEPT !.stage = "sleeping", !.wait = known.gap, !.locked = locked]]
  /\ UNCHANGED <<shared, lock, inFlight, rest, closes, world>>

LockSpacing(t) == Confirms(t, "spacing", TRUE) /\ Sleep(trying[t].caller, TRUE)

\* It will be polled again.
SpacingLost(t) ==
  /\ Confirms(t, "spacing", FALSE)
  /\ UNCHANGED <<mine, shared, lock, req, inFlight, rest, closes, world>>

\* The request goes on without the lock.
LockTimesOut(r) ==
  /\ Waits(r, "locking")
  /\ req[r].wait = 0
  /\ Sleep(r, FALSE)
  /\ UNCHANGED trying

\* The timer is up: lastRequestStart is written and the lock let go.
Stamp(r) ==
  /\ Waits(r, "sleeping")
  /\ req[r].wait = 0
  /\ mine' = [mine EXCEPT ![req[r].tab].gap = Gap]
  /\ shared' = Stored(shared, [shared EXCEPT !.gap = Larger(@, Gap)])
  /\ lock' = IF req[r].locked THEN [lock EXCEPT !["spacing"] = Released(@, req[r].tab)] ELSE lock
  /\ req' = [req EXCEPT ![r].stage = "starting"]
  /\ rest' = [rest EXCEPT ![req[r].tab] = Gap]
  /\ UNCHANGED <<trying, inFlight, closes, world>>

\* withAuthHeaders has its token, however late, or does without: the request
\* leaves the browser.
Depart(r) ==
  /\ Waits(r, "starting")
  /\ req' = [req EXCEPT ![r].stage = "fetch"]
  /\ UNCHANGED <<mine, shared, lock, trying, inFlight, rest, closes, world>>

-----------------------------------------------------------------------------
\* finalizeGovernedRequest

\* The request leaves; a probe of the same tab that is still under way has
\* lost its flag and its lock.
Leave(r) ==
  LET t == req[r].tab
      k == req[r].key
  IN
  /\ req' = [s \in Slots |->
       IF s = r THEN Free
       ELSE IF req[s] # Free /\ req[s].tab = t /\ req[s].probe = "alone"
         THEN [req[s] EXCEPT !.probe = "disturbed"] ELSE req[s]]
  /\ lock' = [lock EXCEPT !["probe"] = Released(@, t)]
  /\ inFlight' = IF inFlight[t][k] = r THEN [inFlight EXCEPT ![t][k] = Free] ELSE inFlight

\* bumpFailure, on what the tab knows after the pause (if any) was set.
Bumped(t, pause, d) ==
  LET known == Synced(mine[t])
      n == IF known.streak < Threshold THEN known.streak + 1 ELSE Threshold
      backoff == IF n >= Threshold THEN d ELSE 0
  IN
  /\ mine' = [mine EXCEPT ![t] =
       [known EXCEPT !.streak = n, !.backoff = IF n >= Threshold THEN d ELSE @,
                     !.pause = pause, !.halfOpen = FALSE]]
  /\ shared' = Stored(shared, [shared EXCEPT !.streak = Larger(@, n), !.pause = Larger(@, pause),
                                             !.backoff = Larger(@, backoff)])

\* Mutant of Fails: the flag is cleared on success only.
FailsKeepsFlag(r) ==
  /\ "failure" \in world.answers
  /\ Waits(r, "fetch")
  /\ LET t == req[r].tab IN
       /\ mine' = [mine EXCEPT ![t] = [Synced(@) EXCEPT !.streak = Threshold]]
       /\ shared' = Stored(shared, [shared EXCEPT !.streak = Threshold])
  /\ Leave(r)
  /\ UNCHANGED <<trying, rest, closes, world>>

\* No answer, 429 or 5xx.
Fails(r) ==
  /\ "failure" \in world.answers
  /\ Waits(r, "fetch")
  /\ \E d \in Backoffs : Bumped(req[r].tab, mine[req[r].tab].pause, d)
  /\ Leave(r)
  /\ UNCHANGED <<trying, rest, closes, world>>

\* 402 DEPLOYMENT_DISABLED: everything pauses, in all tabs.
Disabled(r) ==
  /\ "disabled" \in world.answers
  /\ Waits(r, "fetch")
  /\ \E d \in Backoffs : Bumped(req[r].tab, Larger(PauseTime, shared.pause), d)
  /\ Leave(r)
  /\ UNCHANGED <<trying, rest, closes, world>>

\* 2xx and 4xx (fetch follows redirects, so there is no 3xx): clearBucketHealth
\* forgets the failures, here and in localStorage, where the time of the last
\* request goes with them.
Succeeds(r) ==
  LET t == req[r].tab IN
  /\ "ok" \in world.answers
  /\ Waits(r, "fetch")
  /\ mine' = [mine EXCEPT ![t] = [@ EXCEPT !.streak = 0, !.backoff = 0, !.halfOpen = FALSE]]
  /\ shared' = [Fresh EXCEPT !.pause = shared.pause]
  /\ Leave(r)
  /\ UNCHANGED <<trying, rest, closes, world>>

-----------------------------------------------------------------------------
\* A tab is closed, with all it knows and all it waits for, and another is
\* opened in its place; the locks it held stay until they run out.
CloseTab(t) ==
  LET orphaned(l) == IF l.owner = t THEN [l EXCEPT !.owner = Gone] ELSE l IN
  /\ closes < world.closes
  /\ closes' = closes + 1
  /\ mine' = [mine EXCEPT ![t] = NewTab]
  /\ lock' = [n \in LockNames |-> orphaned(lock[n])]
  /\ trying' = [trying EXCEPT ![t] = NoTry]
  /\ req' = [r \in Slots |-> IF r \in Running(t) THEN Free ELSE req[r]]
  /\ inFlight' = [inFlight EXCEPT ![t] = Nothing]
  /\ rest' = [rest EXCEPT ![t] = 0]
  /\ UNCHANGED <<shared, world>>

Less(n) == IF n = 0 THEN 0 ELSE n - 1

Later(m) == [m EXCEPT !.backoff = Less(@), !.gap = Less(@), !.pause = Less(@)]

\* A lock that runs out counts as not there.
Older(l) == IF l.left > 1 THEN [l EXCEPT !.left = @ - 1] ELSE NoLock

Tick ==
  /\ \A t \in Tabs : Idle(t)
  /\ mine' = [t \in Tabs |-> Later(mine[t])]
  /\ shared' = Later(shared)
  /\ lock' = [n \in LockNames |-> Older(lock[n])]
  /\ req' = [r \in Slots |->
       IF req[r] = Free THEN Free
       ELSE [req[r] EXCEPT !.wait = Less(@),
                           !.probe = IF @ = "alone" /\ lock["probe"].left <= 1 THEN "disturbed" ELSE @]]
  /\ rest' = [t \in Tabs |-> Less(rest[t])]
  /\ UNCHANGED <<trying, inFlight, closes, world>>

Finish(r) == Fails(r) \/ Disabled(r) \/ Succeeds(r)

Step(r) ==
  \/ TakeTurn(r) \/ PollSpacing(r) \/ LockTimesOut(r) \/ Stamp(r)
  \/ Depart(r) \/ Finish(r)

\* A tab goes on with the lock it is trying to take.
TryStep(t) ==
  \/ WritesLock(t) \/ AdmittedAsProbe(t) \/ ProbeLost(t)
  \/ LockSpacing(t) \/ SpacingLost(t)

Next ==
  \/ \E t \in Tabs : CloseTab(t) \/ TryStep(t) \/ \E k \in Keys : Call(t, k)
  \/ \E r \in Slots : Step(r)
  \/ Tick

\* Time passes, code that has begun runs on, every request is answered or
\* fails, and the user goes on using the tabs.
Spec ==
  /\ Init /\ [][Next]_vars
  /\ SF_vars(Tick)
  /\ \A r \in Slots : SF_vars(Step(r))
  /\ \A t \in Tabs :
       /\ WF_vars(TryStep(t))
       /\ SF_vars(\E k \in Keys : Admitted(t, k) \/ WouldProbe(t, k))

-----------------------------------------------------------------------------
\* Properties.

Knowledge == [streak : 0..Threshold, backoff : Times, gap : Times, pause : Times]

TabKnowledge ==
  [streak : 0..Threshold, backoff : Times, gap : Times, pause : Times, halfOpen : BOOLEAN]

Locks == [owner : Tabs \cup {Nobody, Gone}, left : Times]

Tries ==
  [at : {"no", "write", "confirm"}, lock : LockNames, caller : Keys \cup Slots \cup {Free},
   raced : BOOLEAN]

\* Everything has its type, a request others may join is under way, and a
\* tab whose half-open flag is set has a request that will clear it.
TypeOK ==
  /\ mine \in [Tabs -> TabKnowledge]
  /\ shared \in Knowledge
  /\ lock \in [LockNames -> Locks]
  /\ trying \in [Tabs -> Tries]
  /\ req \in [Slots -> Requests \cup {Free}]
  /\ inFlight \in [Tabs -> [Keys -> Slots \cup {Free}]]
  /\ \A t \in Tabs, k \in Keys : inFlight[t][k] # Free =>
       k \in Coalesced /\ inFlight[t][k] \in Running(t) /\ req[inFlight[t][k]].key = k
  /\ \A t \in Tabs : mine[t].halfOpen => Running(t) # {}
  /\ rest \in [Tabs -> Times]
  /\ world \in Worlds /\ closes \in 0..world.closes

\* Among the probes of all tabs that are under way, at most one took the lock
\* while no other tab was trying to, has kept it since, and is of a tab that
\* has finished no other request of the bucket meanwhile: two tabs probe
\* together only if their calls of tryAcquireAdvisoryLock overlapped, if a lock
\* ran out or if an older request ended.
ProbesAlone ==
  Cardinality({r \in Slots : req[r] # Free /\ req[r].probe = "alone"}) <= 1

\* "Allows exactly ONE probe request; concurrent callers are blocked until the
\* probe finalises": a tab has at most one probe under way.
OneProbe ==
  \A t \in Tabs : Cardinality({r \in Running(t) : req[r].probe # "no"}) <= 1

\* The start times of a tab's requests (lastRequestStart) are at least Gap
\* apart, however many wait, with the lock or without.  The requests themselves
\* leave later, after withAuthHeaders, and may leave together.
TabSpacing ==
  [][\A r \in Slots :
       req[r] # Free /\ req[r].stage = "sleeping" /\ req'[r] # Free /\ req'[r].stage = "starting"
         => rest[req[r].tab] = 0]_vars

\* No tab is shut out for good: when the server has recovered and localStorage
\* can be written, the breaker of every tab that is used closes, whatever tab
\* was closed while it held the probe's lock, whoever tries for the lock at the
\* same time and whatever callers were coalesced with a probe.
ServerRecovers == <>[][\A r \in Slots : ~Fails(r) /\ ~Disabled(r)]_vars

BreakersClose ==
  ServerRecovers /\ world.stores => \A t \in Tabs : []<>(mine[t].streak < Threshold)

\* Every request is sent and answered in the end, whoever holds the locks.
RequestsEnd == \A r \in Slots : req[r] # Free ~> req[r] = Free
=============================================================================
