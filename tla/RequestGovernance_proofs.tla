---------------------- MODULE RequestGovernance_proofs ----------------------
(***************************************************************************)
(* What holds of the governed requests however many tabs, requests, locks  *)
(* and deadlines there are.  The smallest gap holds because the waiters of *)
(* a tab take their turns.  A probe is alone because the half-open flag    *)
(* keeps out its own tab and the lock, taken while nobody else tried to,   *)
(* keeps out the others; and no probe is alone while a tab is in           *)
(* tryAcquireAdvisoryLock, since that tab would have found the lock.       *)
(***************************************************************************)
EXTENDS RequestGovernance, FiniteSetTheorems, TLAPS

\* The requests under way, and those others of a tab may join.
RequestsTyped ==
  /\ req \in [Slots -> Requests \cup {Free}]
  /\ inFlight \in [Tabs -> [Keys -> Slots \cup {Free}]]
  /\ \A t \in Tabs, k \in Keys : inFlight[t][k] # Free =>
       k \in Coalesced /\ inFlight[t][k] \in Running(t) /\ req[inFlight[t][k]].key = k

FlagsCleared == \A t \in Tabs : mine[t].halfOpen => Running(t) # {}

\* A request between its turn and its start.
Taking(r) == req[r] # Free /\ req[r].stage \in {"locking", "sleeping"}

\* A tab knows of its own last request, one of its waiters at a time looks at
\* it, and sleeps at least as long as is left.
Spaced ==
  /\ \A t \in Tabs : rest[t] <= mine[t].gap
  /\ \A r \in Slots : req[r] # Free /\ req[r].stage = "sleeping" => rest[req[r].tab] <= req[r].wait
  /\ \A r, s \in Slots : Taking(r) /\ Taking(s) /\ req[r].tab = req[s].tab => r = s

Alone(r) == req[r] # Free /\ req[r].probe = "alone"

TriesToProbe(t) == ~Idle(t) /\ trying[t].lock = "probe"

\* A probe that is alone has the flag of its tab and the lock of all, and no
\* tab has come past the first read of the lock since.  Tabs that try for it
\* at the same time know that they race.
ProbeHolds ==
  /\ lock["probe"].owner \in Tabs => lock["probe"].left > 0
  /\ \A r \in Slots : Alone(r) =>
       /\ lock["probe"].owner = req[r].tab /\ lock["probe"].left > 0
       /\ mine[req[r].tab].halfOpen
       /\ \A t \in Tabs : ~TriesToProbe(t)
  /\ \A r, s \in Slots : Alone(r) /\ Alone(s) => r = s
  /\ \A t, u \in Tabs : TriesToProbe(t) /\ TriesToProbe(u) /\ t # u => trying[t].raced
  /\ \A t \in Tabs : TriesToProbe(t) => trying[t].caller \in Keys

\* A tab that tries for the other lock does so for a request whose turn it is.
SpacingTries ==
  \A t \in Tabs : ~Idle(t) /\ trying[t].lock = "spacing" =>
    /\ trying[t].caller \in Slots /\ req[trying[t].caller] # Free
    /\ req[trying[t].caller].tab = t /\ req[trying[t].caller].stage = "locking"

GovernanceInv == TypeOK /\ Spaced /\ ProbeHolds /\ SpacingTries

LEMMA TypeParts ==
  TypeOK <=>
    /\ mine \in [Tabs -> TabKnowledge]
    /\ shared \in Knowledge
    /\ lock \in [LockNames -> Locks]
    /\ trying \in [Tabs -> Tries]
    /\ RequestsTyped
    /\ FlagsCleared
    /\ rest \in [Tabs -> Times]
    /\ world \in Worlds /\ closes \in 0..world.closes
BY DEF TypeOK, RequestsTyped, FlagsCleared

LEMMA TypePartsNext ==
  TypeOK' <=>
    /\ mine' \in [Tabs -> TabKnowledge]
    /\ shared' \in Knowledge
    /\ lock' \in [LockNames -> Locks]
    /\ trying' \in [Tabs -> Tries]
    /\ RequestsTyped'
    /\ FlagsCleared'
    /\ rest' \in [Tabs -> Times]
    /\ world' \in Worlds /\ closes' \in 0..world'.closes
BY DEF TypeOK, RequestsTyped, FlagsCleared

-----------------------------------------------------------------------------
\* Times are natural numbers, and every time the code sets is one of them.
LEMMA TimesAre ==
  /\ Times \subseteq Nat /\ 0 \in Times
  /\ Backoffs \subseteq Times /\ {PauseTime, ProbeTtl, SpacingTtl, LockWait} \subseteq Times
  /\ \A w \in Worlds : w.gap \in Times
<1> DEFINE Bounds == {w.gap : w \in Worlds} \cup Backoffs \cup {PauseTime, ProbeTtl, SpacingTtl, LockWait}
<1>1. Bounds \subseteq Nat
  BY GovernanceAssumption
<1>2. Times = UNION {0..n : n \in Bounds}
  BY DEF Times
<1>3. \A n \in Bounds : n \in Times
  <2> SUFFICES ASSUME NEW n \in Bounds PROVE n \in Times
    OBVIOUS
  <2> HIDE DEF Bounds
  <2>1. n \in 0..n
    BY <1>1
  <2>2. QED
    BY <1>2, <2>1
<1>4. Times \subseteq Nat
  BY <1>2
<1>5. 0 \in Times
  <2>1. PauseTime \in Nat /\ 0 \in 0..PauseTime
    BY GovernanceAssumption
  <2>2. QED
    BY <1>2, <2>1
<1>6. QED
  BY <1>3, <1>4, <1>5

LEMMA LessIsTime ==
  ASSUME NEW n \in Times
  PROVE  Less(n) \in Times /\ Less(n) \in Nat /\ (n > 0 => Less(n) = n - 1)
<1> DEFINE Bounds == {w.gap : w \in Worlds} \cup Backoffs \cup {PauseTime, ProbeTtl, SpacingTtl, LockWait}
<1>1. PICK m \in Bounds : n \in 0..m /\ 0..m \subseteq Times
  BY DEF Times
<1>2. m \in Nat
  BY GovernanceAssumption
<1>3. n = 0 \/ n - 1 \in 0..m
  BY <1>1, <1>2
<1>4. QED
  BY <1>1, <1>2, <1>3, TimesAre DEF Less

LEMMA LargerIs ==
  ASSUME NEW a \in Nat, NEW b \in Nat
  PROVE  Larger(a, b) \in {a, b} /\ Larger(a, b) >= a /\ Larger(a, b) >= b
BY DEF Larger

\* What a tab learns from the others, it does not forget its own by.
LEMMA SyncedTyped ==
  ASSUME TypeOK, NEW t \in Tabs
  PROVE  /\ Synced(mine[t]) \in TabKnowledge
         /\ Synced(mine[t]).gap >= mine[t].gap
         /\ Synced(mine[t]).halfOpen = mine[t].halfOpen
<1>1. mine[t] \in TabKnowledge /\ shared \in Knowledge
  BY TypeParts
<1>2. /\ Larger(mine[t].streak, shared.streak) \in 0..Threshold
      /\ Larger(mine[t].backoff, shared.backoff) \in Times
      /\ Larger(mine[t].gap, shared.gap) \in Times
      /\ Larger(mine[t].gap, shared.gap) >= mine[t].gap
  BY <1>1, TimesAre, LargerIs, GovernanceAssumption DEF TabKnowledge, Knowledge, Larger
<1>3. QED
  BY <1>1, <1>2 DEF Synced, TabKnowledge

LEMMA KnownTyped ==
  ASSUME TypeOK, NEW t \in Tabs
  PROVE  /\ Known(t) \in TabKnowledge
         /\ Known(t).gap >= mine[t].gap
         /\ Known(t).halfOpen = mine[t].halfOpen
<1>1. Larger(mine[t].pause, shared.pause) \in Times
  BY TypeParts, TimesAre, LargerIs DEF TabKnowledge, Knowledge, Larger
<1>2. Known(t) = [Synced(mine[t]) EXCEPT !.pause = Larger(mine[t].pause, shared.pause)]
  BY SyncedTyped, TypeParts DEF Known, Synced, TabKnowledge
<1>3. QED
  BY <1>1, <1>2, SyncedTyped DEF TabKnowledge

\* One tab learns something.
LEMMA GapsStay ==
  ASSUME TypeOK, NEW t \in Tabs, NEW m \in TabKnowledge, m.gap >= mine[t].gap,
         mine' = [mine EXCEPT ![t] = m]
  PROVE  /\ mine' \in [Tabs -> TabKnowledge]
         /\ \A u \in Tabs : mine'[u].gap >= mine[u].gap
         /\ mine'[t].halfOpen = m.halfOpen
         /\ \A u \in Tabs \ {t} : mine'[u].halfOpen = mine[u].halfOpen
<1> USE TypeParts
<1>1. mine' \in [Tabs -> TabKnowledge] /\ mine'[t] = m /\ \A u \in Tabs \ {t} : mine'[u] = mine[u]
  OBVIOUS
<1>2. ASSUME NEW u \in Tabs \ {t} PROVE mine[u].gap >= mine[u].gap
  <2>1. mine[u].gap \in Nat
    BY TimesAre DEF TabKnowledge
  <2>2. QED
    BY <2>1
<1>3. QED
  BY <1>1, <1>2

\* A request starts or is joined: one slot changes, and it is the tab's own.
LEMMA SendChangesOne ==
  ASSUME TypeOK, NEW t \in Tabs, NEW k \in Keys, NEW mark \in {"no", "alone", "disturbed"},
         Send(t, k, mark)
  PROVE  /\ RequestsTyped'
         /\ \E c \in Slots :
              /\ \A r \in Slots \ {c} : req'[r] = req[r]
              /\ req'[c] # Free /\ req'[c].tab = t
              /\ \/ req[c] = Free /\ req'[c].stage \in {"queued", "starting"}
                 \/ req[c] # Free /\ req[c].tab = t
                    /\ req'[c].stage = req[c].stage /\ req'[c].wait = req[c].wait
              /\ req'[c] = req[c] \/ req'[c].probe = mark
<1> USE TypeParts
<1>1. CASE Joins(t, k)
  <2> DEFINE c == inFlight[t][k]
  <2>1. c \in Slots /\ req[c] \in Requests /\ req[c] # Free /\ req[c].tab = t /\ req[c].key = k
    BY <1>1 DEF RequestsTyped, Running, Joins
  <2>2. req' = (IF mark # "no" THEN [req EXCEPT ![c].probe = mark] ELSE req) /\ inFlight' = inFlight
    BY <1>1 DEF Send, Join
  <2>3. req'[c] \in Requests /\ req'[c].tab = t /\ req'[c].stage = req[c].stage
        /\ req'[c].wait = req[c].wait /\ req'[c].key = req[c].key
        /\ (req'[c] = req[c] \/ req'[c].probe = mark)
    BY <2>1, <2>2 DEF RequestsTyped, Requests
  <2>4. req'[c] # Free
    BY <2>3, GovernanceAssumption
  <2>5. \A r \in Slots \ {c} : req'[r] = req[r]
    BY <2>2 DEF RequestsTyped
  <2>6. RequestsTyped'
    <3>1. req' \in [Slots -> Requests \cup {Free}]
      BY <2>1, <2>2, <2>3 DEF RequestsTyped
    <3>2. \A r \in Slots : req[r] # Free => req'[r] # Free /\ req'[r].tab = req[r].tab
                                           /\ req'[r].key = req[r].key
      BY <2>1, <2>3, <2>4, <2>5
    <3>3. QED
      BY <2>2, <3>1, <3>2 DEF RequestsTyped, Running
  <2>7. QED
    BY <2>1, <2>2, <2>3, <2>4, <2>5, <2>6
<1>2. CASE ~Joins(t, k)
  <2>1. Begin(t, k, mark)
    BY <1>2 DEF Send
  <2> DEFINE free == {r \in world.slots : req[r] = Free}
             c == CHOOSE r \in free : TRUE
             v == [tab |-> t, key |-> k, stage |-> IF Gap = 0 THEN "starting" ELSE "queued", wait |-> 0,
                   locked |-> FALSE, probe |-> mark]
  <2>2. c \in free
    BY <2>1 DEF Begin
  <2>3. world.slots \subseteq Slots
    BY GovernanceAssumption
  <2>4. c \in Slots /\ req[c] = Free
    BY <2>2, <2>3
  <2> HIDE DEF c
  <2>5. req' = [req EXCEPT ![c] = v]
        /\ inFlight' = IF k \in Coalesced THEN [inFlight EXCEPT ![t][k] = c] ELSE inFlight
    BY <2>1 DEF Begin, c
  <2>6. v \in Requests
    BY TimesAre DEF Requests
  <2>7. v # Free
    BY <2>6, GovernanceAssumption
  <2>8. req'[c] = v /\ \A r \in Slots \ {c} : req'[r] = req[r]
    BY <2>4, <2>5 DEF RequestsTyped
  <2>9. RequestsTyped'
    <3>1. req' \in [Slots -> Requests \cup {Free}]
      BY <2>5, <2>6 DEF RequestsTyped
    <3>2. inFlight' \in [Tabs -> [Keys -> Slots \cup {Free}]]
      BY <2>4, <2>5 DEF RequestsTyped
    <3>3. ASSUME NEW u \in Tabs, NEW j \in Keys, inFlight'[u][j] # Free
          PROVE  /\ j \in Coalesced
                 /\ inFlight'[u][j] \in Slots /\ req'[inFlight'[u][j]] # Free
                 /\ req'[inFlight'[u][j]].tab = u /\ req'[inFlight'[u][j]].key = j
      <4>1. CASE k \in Coalesced /\ u = t /\ j = k
        <5>1. inFlight'[u][j] = c
          BY <2>5, <4>1 DEF RequestsTyped
        <5>2. QED
          BY <2>4, <2>7, <2>8, <4>1, <5>1
      <4>2. CASE ~(k \in Coalesced /\ u = t /\ j = k)
        <5>1. inFlight'[u][j] = inFlight[u][j]
          BY <2>5, <4>2 DEF RequestsTyped
        <5>2. j \in Coalesced /\ inFlight[u][j] \in Running(u) /\ req[inFlight[u][j]].key = j
          BY <3>3, <5>1 DEF RequestsTyped
        <5>3. QED
          BY <2>4, <2>8, <5>1, <5>2 DEF Running
      <4>3. QED
        BY <4>1, <4>2
    <3>4. QED
      BY <3>1, <3>2, <3>3 DEF RequestsTyped, Running
  <2>10. QED
    BY <2>4, <2>7, <2>8, <2>9
<1>3. QED
  BY <1>1, <1>2

-----------------------------------------------------------------------------
\* The calls that end before the first await.
LEMMA RefusalKeeps ==
  ASSUME GovernanceInv, NEW t \in Tabs, Paused(t) \/ BackedOff(t)
  PROVE  GovernanceInv'
<1> USE TypeParts, TypePartsNext DEF GovernanceInv
<1>1. PICK m \in TabKnowledge :
        mine' = [mine EXCEPT ![t] = m] /\ m.gap >= mine[t].gap /\ m.halfOpen = mine[t].halfOpen
  <2>1. CASE Paused(t)
    <3> DEFINE m == [mine[t] EXCEPT !.pause = Larger(@, shared.pause)]
    <3>1. Larger(mine[t].pause, shared.pause) \in Times
      BY TimesAre DEF TabKnowledge, Knowledge, Larger
    <3>2. m \in TabKnowledge /\ m.gap >= mine[t].gap /\ m.halfOpen = mine[t].halfOpen
      BY <3>1, TimesAre DEF TabKnowledge
    <3>3. mine' = [mine EXCEPT ![t] = m]
      BY <2>1 DEF Paused
    <3>4. QED
      BY <3>2, <3>3
  <2>2. CASE BackedOff(t)
    BY <2>2, KnownTyped DEF BackedOff
  <2>3. QED
    BY <2>1, <2>2
<1>2. UNCHANGED <<shared, lock, trying, req, inFlight, rest, closes, world>>
  BY DEF Paused, BackedOff
<1>3. mine' \in [Tabs -> TabKnowledge]
      /\ \A u \in Tabs : mine'[u].gap >= mine[u].gap /\ mine'[u].halfOpen = mine[u].halfOpen
  <2>1. mine' \in [Tabs -> TabKnowledge] /\ \A u \in Tabs : mine'[u] = IF u = t THEN m ELSE mine[u]
    BY <1>1
  <2>2. ASSUME NEW u \in Tabs
        PROVE  mine[u].gap >= mine[u].gap
    <3>1. mine[u] \in TabKnowledge
      OBVIOUS
    <3>2. mine[u].gap \in Nat
      BY <3>1, TimesAre DEF TabKnowledge
    <3>3. QED
      BY <3>2
  <2>3. QED
    BY <1>1, <2>1, <2>2
<1>4. TypeOK'
  <2>1. RequestsTyped' /\ FlagsCleared'
    BY <1>2, <1>3 DEF RequestsTyped, FlagsCleared, Running
  <2>2. QED
    BY <1>2, <1>3, <2>1
<1>5. Spaced'
  <2>1. \A u \in Tabs : rest[u] \in Nat /\ mine[u].gap \in Nat /\ mine'[u].gap \in Nat
    BY <1>3, TimesAre DEF TabKnowledge
  <2>2. QED
    BY <1>2, <1>3, <2>1 DEF Spaced, Taking
<1>6. ProbeHolds'
  <2>1. \A r \in Slots : req[r] # Free => req[r].tab \in Tabs
    BY DEF RequestsTyped, Requests
  <2>2. QED
    BY <1>2, <1>3, <2>1 DEF ProbeHolds, Alone, TriesToProbe, Idle
<1>7. SpacingTries'
  BY <1>2 DEF SpacingTries, Idle
<1>8. QED
  BY <1>4, <1>5, <1>6, <1>7

\* A tab that is done with its try.
LEMMA TryEnds ==
  ASSUME TypeOK, NEW t \in Tabs, trying' = [trying EXCEPT ![t] = NoTry]
  PROVE  /\ trying' \in [Tabs -> Tries] /\ Idle(t)'
         /\ \A u \in Tabs : ~Idle(u)' => u # t /\ ~Idle(u) /\ trying'[u] = trying[u]
         /\ \A u \in Tabs : TriesToProbe(u)' => TriesToProbe(u) /\ u # t /\ trying'[u] = trying[u]
<1> USE TypeParts
<1>1. trying' \in [Tabs -> Tries] /\ trying'[t] = NoTry /\ \A u \in Tabs \ {t} : trying'[u] = trying[u]
  BY DEF Tries, NoTry, LockNames
<1>2. QED
  BY <1>1 DEF Idle, TriesToProbe, NoTry

\* What a request that is let through changes for the gap and for who tries.
LEMMA AdmissionKeeps ==
  ASSUME GovernanceInv, NEW t \in Tabs, NEW k \in Keys, NEW mark \in {"no", "alone", "disturbed"},
         Send(t, k, mark), NEW m \in TabKnowledge, m.gap >= mine[t].gap,
         mine' = [mine EXCEPT ![t] = m], trying' = trying \/ trying' = [trying EXCEPT ![t] = NoTry],
         Idle(t)', UNCHANGED <<shared, lock, rest, closes, world>>
  PROVE  /\ TypeOK' /\ Spaced' /\ SpacingTries'
         /\ mine'[t].halfOpen = m.halfOpen
         /\ \A u \in Tabs \ {t} : mine'[u].halfOpen = mine[u].halfOpen
         /\ \A u \in Tabs : TriesToProbe(u)' => TriesToProbe(u) /\ u # t /\ trying'[u] = trying[u]
         /\ \E c \in Slots :
              /\ req'[c] # Free /\ req'[c].tab = t
              /\ Alone(c)' => (Alone(c) /\ req'[c] = req[c]) \/ mark = "alone"
              /\ \A r \in Slots \ {c} : req'[r] = req[r]
<1> USE TypeParts, TypePartsNext DEF GovernanceInv
<1>1. /\ mine' \in [Tabs -> TabKnowledge]
      /\ \A u \in Tabs : mine'[u].gap >= mine[u].gap
      /\ mine'[t].halfOpen = m.halfOpen
      /\ \A u \in Tabs \ {t} : mine'[u].halfOpen = mine[u].halfOpen
  BY GapsStay
<1>2. RequestsTyped'
  BY SendChangesOne
<1>3. PICK c \in Slots :
        /\ \A r \in Slots \ {c} : req'[r] = req[r]
        /\ req'[c] # Free /\ req'[c].tab = t
        /\ \/ req[c] = Free /\ req'[c].stage \in {"queued", "starting"}
           \/ req[c] # Free /\ req[c].tab = t
              /\ req'[c].stage = req[c].stage /\ req'[c].wait = req[c].wait
        /\ req'[c] = req[c] \/ req'[c].probe = mark
  BY SendChangesOne
<1>4. /\ trying' \in [Tabs -> Tries]
      /\ \A u \in Tabs : ~Idle(u)' => u # t /\ trying'[u] = trying[u]
  <2>1. CASE trying' = trying
    BY <2>1 DEF Idle
  <2>2. CASE trying' = [trying EXCEPT ![t] = NoTry]
    BY <2>2, TryEnds
  <2>3. QED
    BY <2>1, <2>2
<1>5. TypeOK'
  <2>1. \A u \in Tabs : Running(u) \subseteq Running(u)'
    BY <1>3 DEF Running
  <2>2. Running(t)' # {}
    BY <1>3 DEF Running
  <2>3. FlagsCleared'
    BY <1>1, <2>1, <2>2 DEF FlagsCleared
  <2>4. QED
    BY <1>1, <1>2, <1>4, <2>3
<1>6. Spaced'
  <2>1. \A u \in Tabs : rest[u] \in Nat /\ mine[u].gap \in Nat /\ mine'[u].gap \in Nat
    BY <1>1, TimesAre DEF TabKnowledge
  <2>2. \A u \in Tabs : rest'[u] <= mine'[u].gap
    BY <1>1, <2>1 DEF Spaced
  <2>3. \A r \in Slots : Taking(r)' => Taking(r) /\ req'[r].tab = req[r].tab
            /\ req'[r].stage = req[r].stage /\ req'[r].wait = req[r].wait
    BY <1>3 DEF Taking
  <2>4. QED
    BY <2>2, <2>3 DEF Spaced, Taking
<1>7. SpacingTries'
  <2> SUFFICES ASSUME NEW u \in Tabs, ~Idle(u)', trying'[u].lock = "spacing"
               PROVE  /\ trying'[u].caller \in Slots /\ req'[trying'[u].caller] # Free
                      /\ req'[trying'[u].caller].tab = u
                      /\ req'[trying'[u].caller].stage = "locking"
    BY DEF SpacingTries
  <2>1. u # t /\ trying'[u] = trying[u] /\ ~Idle(u)
    BY <1>4 DEF Idle
  <2>2. /\ trying[u].caller \in Slots /\ req[trying[u].caller] # Free
        /\ req[trying[u].caller].tab = u /\ req[trying[u].caller].stage = "locking"
    BY <2>1 DEF SpacingTries
  <2>3. QED
    BY <1>3, <2>1, <2>2
<1>8. \A u \in Tabs : TriesToProbe(u)' => TriesToProbe(u) /\ u # t /\ trying'[u] = trying[u]
  BY <1>4 DEF TriesToProbe, Idle
<1>9. Alone(c)' => (Alone(c) /\ req'[c] = req[c]) \/ mark = "alone"
  BY <1>3 DEF Alone
<1>10. QED
  BY <1>1, <1>3, <1>5, <1>6, <1>7, <1>8, <1>9

LEMMA AdmittedKeeps ==
  ASSUME GovernanceInv, NEW t \in Tabs, NEW k \in Keys, Admitted(t, k)
  PROVE  GovernanceInv'
<1> USE TypeParts DEF GovernanceInv
<1> DEFINE m == Known(t)
<1>1. m \in TabKnowledge /\ m.gap >= mine[t].gap /\ m.halfOpen = mine[t].halfOpen
  BY KnownTyped
<1>2. mine' = [mine EXCEPT ![t] = m] /\ Send(t, k, "no")
      /\ UNCHANGED <<shared, lock, trying, rest, closes, world>> /\ Idle(t) /\ Idle(t)'
  BY DEF Admitted, Idle
<1> HIDE DEF m
<1>3. /\ TypeOK' /\ Spaced' /\ SpacingTries'
      /\ mine'[t].halfOpen = m.halfOpen
      /\ \A u \in Tabs \ {t} : mine'[u].halfOpen = mine[u].halfOpen
      /\ \A u \in Tabs : TriesToProbe(u)' => TriesToProbe(u) /\ u # t /\ trying'[u] = trying[u]
  BY <1>1, <1>2, AdmissionKeeps
<1>4. \A r \in Slots : Alone(r)' => Alone(r) /\ req'[r] = req[r]
  <2>1. PICK c \in Slots :
          /\ Alone(c)' => Alone(c) /\ req'[c] = req[c]
          /\ \A r \in Slots \ {c} : req'[r] = req[r]
    BY <1>1, <1>2, AdmissionKeeps
  <2>2. QED
    BY <2>1 DEF Alone
<1>5. ProbeHolds'
  <2>1. \A r \in Slots : req[r] # Free => req[r].tab \in Tabs
    BY DEF RequestsTyped, Requests
  <2>2. QED
    BY <1>1, <1>2, <1>3, <1>4, <2>1 DEF ProbeHolds, Alone
<1>6. QED
  BY <1>3, <1>5

-----------------------------------------------------------------------------
\* tryAcquireAdvisoryLock

LEMMA LooksTyped ==
  ASSUME TypeOK, NEW t \in Tabs, NEW name \in LockNames, NEW caller, Looks(t, name, caller),
         caller \in Keys \cup Slots
  PROVE  /\ trying' \in [Tabs -> Tries]
         /\ trying'[t].at = "write" /\ trying'[t].lock = name /\ trying'[t].caller = caller
         /\ \A u \in Tabs \ {t} :
              /\ trying'[u].at = trying[u].at /\ trying'[u].lock = trying[u].lock
              /\ trying'[u].caller = trying[u].caller
              /\ trying[u].raced => trying'[u].raced
              /\ name = "probe" /\ TriesToProbe(u) => trying'[u].raced /\ trying'[t].raced
<1> USE TypeParts
<1> DEFINE rivals == {u \in Tabs \ {t} : ~Idle(u) /\ trying[u].lock = name /\ name = "probe"}
<1>1. trying' = [u \in Tabs |->
        IF u = t THEN [at |-> "write", lock |-> name, caller |-> caller, raced |-> rivals # {}]
        ELSE IF u \in rivals THEN [trying[u] EXCEPT !.raced = TRUE] ELSE trying[u]]
  BY DEF Looks
<1>2. trying'[t] = [at |-> "write", lock |-> name, caller |-> caller, raced |-> rivals # {}]
  BY <1>1
<1>3. trying'[t] \in Tries
  BY <1>2 DEF Tries
<1>4. ASSUME NEW u \in Tabs \ {t}
      PROVE  /\ trying'[u] \in Tries
             /\ trying'[u].at = trying[u].at /\ trying'[u].lock = trying[u].lock
             /\ trying'[u].caller = trying[u].caller
             /\ trying[u].raced => trying'[u].raced
             /\ name = "probe" /\ TriesToProbe(u) => trying'[u].raced /\ trying'[t].raced
  <2>1. trying[u] \in Tries
    OBVIOUS
  <2>2. CASE u \in rivals
    <3>1. trying'[u] = [trying[u] EXCEPT !.raced = TRUE] /\ trying'[t].raced
      BY <1>1, <1>2, <2>2
    <3>2. QED
      BY <2>1, <3>1 DEF Tries
  <2>3. CASE u \notin rivals
    <3>1. trying'[u] = trying[u]
      BY <1>1, <2>3
    <3>2. ~(name = "probe" /\ TriesToProbe(u))
      BY <2>3 DEF TriesToProbe
    <3>3. QED
      BY <2>1, <3>1, <3>2
  <2>4. QED
    BY <2>2, <2>3
<1>5. QED
  BY <1>1, <1>2, <1>3, <1>4

\* No probe is alone that a tab would find the lock of.
LEMMA ProbeKeepsOut ==
  ASSUME GovernanceInv, NEW t \in Tabs, ~mine[t].halfOpen, Acquirable(lock["probe"], t),
         NEW r \in Slots
  PROVE  ~Alone(r)
<1> USE TypeParts DEF GovernanceInv
<1> SUFFICES ASSUME Alone(r) PROVE FALSE
  OBVIOUS
<1>1. lock["probe"].owner = req[r].tab /\ lock["probe"].left > 0 /\ mine[req[r].tab].halfOpen
  BY DEF ProbeHolds
<1>2. req[r].tab \in Tabs
  BY DEF Alone, RequestsTyped, Requests
<1>3. lock["probe"].owner = t
  BY <1>1, <1>2, GovernanceAssumption DEF Acquirable
<1>4. QED
  BY <1>1, <1>3

LEMMA WouldProbeKeeps ==
  ASSUME GovernanceInv, NEW t \in Tabs, NEW k \in Keys, WouldProbe(t, k)
  PROVE  GovernanceInv'
<1> USE TypeParts, TypePartsNext DEF GovernanceInv
<1> DEFINE m == Known(t)
<1>1. m \in TabKnowledge /\ m.gap >= mine[t].gap /\ m.halfOpen = mine[t].halfOpen
  BY KnownTyped
<1>2. /\ mine' = [mine EXCEPT ![t] = m] /\ Looks(t, "probe", k)
      /\ Idle(t) /\ ~mine[t].halfOpen /\ Acquirable(lock["probe"], t)
      /\ UNCHANGED <<shared, lock, req, inFlight, rest, closes, world>>
  BY DEF WouldProbe, Looks
<1> HIDE DEF m
<1>3. /\ trying' \in [Tabs -> Tries]
      /\ trying'[t].at = "write" /\ trying'[t].lock = "probe" /\ trying'[t].caller = k
      /\ \A u \in Tabs \ {t} :
           /\ trying'[u].at = trying[u].at /\ trying'[u].lock = trying[u].lock
           /\ trying'[u].caller = trying[u].caller
           /\ trying[u].raced => trying'[u].raced
           /\ TriesToProbe(u) => trying'[u].raced /\ trying'[t].raced
  BY <1>2, LooksTyped DEF LockNames
<1>4. mine' \in [Tabs -> TabKnowledge]
      /\ \A u \in Tabs : mine'[u].gap >= mine[u].gap /\ mine'[u].halfOpen = mine[u].halfOpen
  BY <1>1, <1>2, GapsStay
<1>5. TypeOK'
  BY <1>2, <1>3, <1>4 DEF RequestsTyped, FlagsCleared, Running
<1>6. Spaced'
  <2>1. \A u \in Tabs : rest[u] \in Nat /\ mine[u].gap \in Nat /\ mine'[u].gap \in Nat
    BY <1>4, TimesAre DEF TabKnowledge
  <2>2. QED
    BY <1>2, <1>4, <2>1 DEF Spaced, Taking
<1>7. ProbeHolds'
  <2>1. \A r \in Slots : ~Alone(r)'
    BY <1>2, ProbeKeepsOut DEF Alone
  <2>2. \A u \in Tabs \ {t} : TriesToProbe(u)' => TriesToProbe(u)
    BY <1>3 DEF TriesToProbe, Idle
  <2>3. \A u, v \in Tabs : TriesToProbe(u)' /\ TriesToProbe(v)' /\ u # v => trying'[u].raced
    BY <1>3, <2>2 DEF ProbeHolds
  <2>4. \A u \in Tabs : TriesToProbe(u)' => trying'[u].caller \in Keys
    BY <1>3, <2>2 DEF ProbeHolds
  <2>5. QED
    BY <1>2, <2>1, <2>3, <2>4 DEF ProbeHolds
<1>8. SpacingTries'
  BY <1>2, <1>3 DEF SpacingTries, Idle
<1>9. QED
  BY <1>5, <1>6, <1>7, <1>8

\* The lock is the tab's, unless nothing can be stored.
LEMMA WritesLockKeeps ==
  ASSUME GovernanceInv, NEW t \in Tabs, WritesLock(t)
  PROVE  GovernanceInv'
<1> USE TypeParts, TypePartsNext DEF GovernanceInv
<1> DEFINE name == trying[t].lock
           mineNow == [owner |-> t, left |-> Ttl(name)]
<1>1. /\ trying[t].at = "write" /\ trying' = [trying EXCEPT ![t].at = "confirm"]
      /\ lock' = [lock EXCEPT ![name] = Stored(@, mineNow)]
      /\ UNCHANGED <<mine, shared, req, inFlight, rest, closes, world>>
  BY DEF WritesLock
<1>2. name \in LockNames
  BY DEF Tries
<1>3. Ttl(name) \in Times /\ Ttl(name) > 0
  BY TimesAre, GovernanceAssumption DEF Ttl
<1>4. mineNow \in Locks
  BY <1>3 DEF Locks
<1>5. lock' \in [LockNames -> Locks]
      /\ \A n \in LockNames \ {name} : lock'[n] = lock[n]
      /\ lock'[name] \in {lock[name], mineNow}
  BY <1>1, <1>2, <1>4 DEF Stored
<1>6. /\ trying' \in [Tabs -> Tries]
      /\ trying'[t].at = "confirm" /\ trying'[t].lock = trying[t].lock
      /\ trying'[t].caller = trying[t].caller /\ trying'[t].raced = trying[t].raced
      /\ \A u \in Tabs \ {t} : trying'[u] = trying[u]
  BY <1>1 DEF Tries
<1>7. TypeOK'
  BY <1>1, <1>5, <1>6 DEF RequestsTyped, FlagsCleared, Running
<1>8. Spaced'
  BY <1>1 DEF Spaced, Taking
<1>9. \A u \in Tabs : (Idle(u)' <=> Idle(u)) /\ trying'[u].lock = trying[u].lock
        /\ trying'[u].caller = trying[u].caller /\ trying'[u].raced = trying[u].raced
  BY <1>1, <1>6 DEF Idle
<1>10. ProbeHolds'
  <2>1. name = "probe" => \A r \in Slots : ~Alone(r)
    BY <1>1 DEF ProbeHolds, TriesToProbe, Idle
  <2>2. \A r \in Slots : Alone(r)' <=> Alone(r)
    BY <1>1 DEF Alone
  <2>3. \A u \in Tabs : TriesToProbe(u)' <=> TriesToProbe(u)
    BY <1>9 DEF TriesToProbe
  <2>4. lock'["probe"].owner \in Tabs => lock'["probe"].left > 0
    BY <1>3, <1>5 DEF ProbeHolds, LockNames
  <2>5. \A r \in Slots : Alone(r) => lock'["probe"] = lock["probe"]
    BY <1>5, <2>1 DEF LockNames
  <2>6. QED
    BY <1>1, <1>9, <2>2, <2>3, <2>4, <2>5 DEF ProbeHolds
<1>11. SpacingTries'
  BY <1>1, <1>9 DEF SpacingTries
<1>12. QED
  BY <1>7, <1>8, <1>10, <1>11

LEMMA LostKeeps ==
  ASSUME GovernanceInv, NEW t \in Tabs, ProbeLost(t) \/ SpacingLost(t)
  PROVE  GovernanceInv'
<1> USE TypeParts, TypePartsNext DEF GovernanceInv
<1>1. trying' = [trying EXCEPT ![t] = NoTry]
      /\ UNCHANGED <<mine, shared, lock, req, inFlight, rest, closes, world>>
  BY DEF ProbeLost, SpacingLost, Confirms
<1>2. /\ trying' \in [Tabs -> Tries]
      /\ \A u \in Tabs : ~Idle(u)' => u # t /\ ~Idle(u) /\ trying'[u] = trying[u]
      /\ \A u \in Tabs : TriesToProbe(u)' => TriesToProbe(u) /\ u # t /\ trying'[u] = trying[u]
  BY <1>1, TryEnds
<1>3. TypeOK'
  BY <1>1, <1>2 DEF RequestsTyped, FlagsCleared, Running
<1>4. Spaced'
  BY <1>1 DEF Spaced, Taking
<1>5. ProbeHolds'
  BY <1>1, <1>2 DEF ProbeHolds, Alone
<1>6. SpacingTries'
  BY <1>1, <1>2 DEF SpacingTries
<1>7. QED
  BY <1>3, <1>4, <1>5, <1>6

\* The probe is alone if nobody else was trying for the lock.
LEMMA ProbeKeeps ==
  ASSUME GovernanceInv, NEW t \in Tabs, AdmittedAsProbe(t)
  PROVE  GovernanceInv'
<1> USE TypeParts DEF GovernanceInv
<1>1. /\ trying[t].at = "confirm" /\ trying[t].lock = "probe" /\ lock["probe"].owner = t
      /\ trying' = [trying EXCEPT ![t] = NoTry]
      /\ mine' = [mine EXCEPT ![t] = [mine[t] EXCEPT !.halfOpen = TRUE]]
      /\ Send(t, trying[t].caller, IF trying[t].raced THEN "disturbed" ELSE "alone")
      /\ UNCHANGED <<shared, lock, rest, closes, world>>
  BY DEF AdmittedAsProbe, Confirms
<1>2. TriesToProbe(t) /\ trying[t].caller \in Keys
  BY <1>1 DEF TriesToProbe, Idle, ProbeHolds
<1>3. PICK m \in TabKnowledge :
        m.gap >= mine[t].gap /\ m.halfOpen /\ mine' = [mine EXCEPT ![t] = m]
  <2> DEFINE n == [mine[t] EXCEPT !.halfOpen = TRUE]
  <2>1. mine[t] \in TabKnowledge
    OBVIOUS
  <2>2. n \in TabKnowledge /\ n.gap = mine[t].gap /\ n.halfOpen
    BY <2>1 DEF TabKnowledge
  <2>3. mine[t].gap \in Nat
    BY <2>1, TimesAre DEF TabKnowledge
  <2>4. n.gap >= mine[t].gap /\ mine' = [mine EXCEPT ![t] = n]
    BY <1>1, <2>2, <2>3
  <2> HIDE DEF n
  <2>5. QED
    BY <2>2, <2>4
<1>4. PICK k \in Keys, mark \in {"no", "alone", "disturbed"} :
        Send(t, k, mark) /\ (mark = "alone" => ~trying[t].raced)
  BY <1>1, <1>2
<1>5. Idle(t)'
  BY <1>1, TryEnds
<1>6. /\ TypeOK' /\ Spaced' /\ SpacingTries'
      /\ mine'[t].halfOpen = m.halfOpen
      /\ \A u \in Tabs : TriesToProbe(u)' => TriesToProbe(u) /\ u # t /\ trying'[u] = trying[u]
      /\ \E c \in Slots :
           /\ req'[c] # Free /\ req'[c].tab = t
           /\ Alone(c)' => (Alone(c) /\ req'[c] = req[c]) \/ mark = "alone"
           /\ \A r \in Slots \ {c} : req'[r] = req[r]
  <2>1. trying' = trying \/ trying' = [trying EXCEPT ![t] = NoTry]
    BY <1>1
  <2>2. m \in TabKnowledge /\ m.gap >= mine[t].gap /\ mine' = [mine EXCEPT ![t] = m]
    BY <1>3
  <2>3. Send(t, k, mark) /\ UNCHANGED <<shared, lock, rest, closes, world>>
    BY <1>1, <1>4
  <2> HIDE DEF GovernanceInv
  <2>4. TypeOK' /\ Spaced' /\ SpacingTries'
    BY <2>1, <2>2, <2>3, <1>5, AdmissionKeeps, Zenon
  <2>5. mine'[t].halfOpen = m.halfOpen
    BY <2>2 DEF GovernanceInv
  <2>6. \A u \in Tabs : TriesToProbe(u)' => TriesToProbe(u) /\ u # t /\ trying'[u] = trying[u]
    BY <2>1, <2>2, <2>3, <1>5, AdmissionKeeps, Zenon
  <2>7. \E c \in Slots :
           /\ req'[c] # Free /\ req'[c].tab = t
           /\ Alone(c)' => (Alone(c) /\ req'[c] = req[c]) \/ mark = "alone"
           /\ \A r \in Slots \ {c} : req'[r] = req[r]
    <3>1. PICK c \in Slots :
            /\ \A r \in Slots \ {c} : req'[r] = req[r]
            /\ req'[c] # Free /\ req'[c].tab = t
            /\ req'[c] = req[c] \/ req'[c].probe = mark
      BY <2>3, SendChangesOne DEF GovernanceInv
    <3>2. Alone(c)' => (Alone(c) /\ req'[c] = req[c]) \/ mark = "alone"
      BY <3>1 DEF Alone
    <3>3. QED
      BY <3>1, <3>2
  <2>8. QED
    BY <2>4, <2>5, <2>6, <2>7
<1>7. PICK c \in Slots :
        /\ req'[c] # Free /\ req'[c].tab = t
        /\ Alone(c)' => (Alone(c) /\ req'[c] = req[c]) \/ mark = "alone"
        /\ \A r \in Slots \ {c} : req'[r] = req[r]
  BY <1>6
<1>8. \A r \in Slots : ~Alone(r)
  BY <1>2 DEF ProbeHolds
<1>9. \A r \in Slots : Alone(r)' => r = c /\ ~trying[t].raced
  BY <1>4, <1>7, <1>8 DEF Alone
<1>10. ~trying[t].raced => \A u \in Tabs : ~TriesToProbe(u)'
  BY <1>2, <1>6 DEF ProbeHolds
<1>11. ProbeHolds'
  <2>1. lock' = lock /\ lock["probe"].left > 0
    BY <1>1 DEF ProbeHolds
  <2>2. \A u, v \in Tabs : TriesToProbe(u)' /\ TriesToProbe(v)' /\ u # v => trying'[u].raced
    BY <1>6 DEF ProbeHolds
  <2>3. QED
    BY <1>1, <1>3, <1>6, <1>7, <1>9, <1>10, <2>1, <2>2 DEF ProbeHolds
<1>12. QED
  BY <1>6, <1>11

-----------------------------------------------------------------------------
\* What is the same before and after a request waits its turn.
LEMMA WaitingTyped ==
  ASSUME GovernanceInv, NEW r \in Slots, req[r] # Free, NEW v \in Requests,
         v.tab = req[r].tab, v.key = req[r].key, v.probe = req[r].probe,
         req' = [req EXCEPT ![r] = v], UNCHANGED inFlight
  PROVE  /\ RequestsTyped'
         /\ req'[r] = v /\ v # Free /\ \A s \in Slots \ {r} : req'[s] = req[s]
         /\ \A u \in Tabs : Running(u)' = Running(u)
         /\ \A s \in Slots : (Alone(s)' <=> Alone(s)) /\ (Alone(s) => req'[s].tab = req[s].tab)
<1> USE TypeParts, TypePartsNext DEF GovernanceInv
<1>1. req'[r] = v /\ v # Free /\ \A s \in Slots \ {r} : req'[s] = req[s]
  BY GovernanceAssumption DEF RequestsTyped
<1>2. req' \in [Slots -> Requests \cup {Free}]
  BY DEF RequestsTyped
<1>3. \A s \in Slots : (req'[s] = Free <=> req[s] = Free)
        /\ (req[s] # Free => req'[s].tab = req[s].tab /\ req'[s].key = req[s].key)
  BY <1>1
<1>4. \A u \in Tabs : Running(u)' = Running(u)
  BY <1>3 DEF Running
<1>5. RequestsTyped'
  <2>1. \A u \in Tabs, k \in Keys : inFlight[u][k] # Free => inFlight[u][k] \in Slots
            /\ req[inFlight[u][k]] # Free
    BY DEF RequestsTyped, Running
  <2>2. QED
    BY <1>2, <1>3, <1>4, <2>1 DEF RequestsTyped
<1>6. \A s \in Slots : (Alone(s)' <=> Alone(s)) /\ (Alone(s) => req'[s].tab = req[s].tab)
  BY <1>1 DEF Alone
<1>7. QED
  BY <1>1, <1>4, <1>5, <1>6

\* A tab that is not trying for a lock does nothing to those that are.
LEMMA SpacingTriesStay ==
  ASSUME GovernanceInv, NEW t \in Tabs,
         \A u \in Tabs : ~Idle(u)' => u # t /\ ~Idle(u) /\ trying'[u] = trying[u],
         \A s \in Slots : req[s] # Free /\ req[s].tab # t =>
           req'[s] # Free /\ req'[s].tab = req[s].tab /\ req'[s].stage = req[s].stage
  PROVE  SpacingTries'
<1> SUFFICES ASSUME NEW u \in Tabs, ~Idle(u)', trying'[u].lock = "spacing"
             PROVE  /\ trying'[u].caller \in Slots /\ req'[trying'[u].caller] # Free
                    /\ req'[trying'[u].caller].tab = u
                    /\ req'[trying'[u].caller].stage = "locking"
  BY DEF SpacingTries
<1>1. u # t /\ ~Idle(u) /\ trying'[u] = trying[u]
  OBVIOUS
<1>2. /\ trying[u].caller \in Slots /\ req[trying[u].caller] # Free
      /\ req[trying[u].caller].tab = u /\ req[trying[u].caller].stage = "locking"
  BY <1>1 DEF SpacingTries, GovernanceInv
<1>3. QED
  BY <1>1, <1>2

\* The spacing lock is tried for at once, or polled.
LEMMA SpacingLooksKeeps ==
  ASSUME GovernanceInv, NEW r \in Slots, req[r] # Free, Idle(req[r].tab),
         Looks(req[r].tab, "spacing", r), req'[r] # Free, req'[r].tab = req[r].tab,
         req'[r].stage = "locking", \A s \in Slots \ {r} : req'[s] = req[s],
         \A s \in Slots : (Alone(s)' <=> Alone(s)) /\ (Alone(s) => req'[s].tab = req[s].tab),
         UNCHANGED <<mine, lock>>
  PROVE  trying' \in [Tabs -> Tries] /\ ProbeHolds' /\ SpacingTries'
<1> USE TypeParts DEF GovernanceInv
<1> DEFINE t == req[r].tab
<1>1. t \in Tabs
  BY DEF RequestsTyped, Requests
<1>2. /\ trying' \in [Tabs -> Tries]
      /\ trying'[t].at = "write" /\ trying'[t].lock = "spacing" /\ trying'[t].caller = r
      /\ \A u \in Tabs \ {t} :
           /\ trying'[u].at = trying[u].at /\ trying'[u].lock = trying[u].lock
           /\ trying'[u].caller = trying[u].caller
           /\ trying[u].raced => trying'[u].raced
  BY <1>1, LooksTyped DEF LockNames
<1>3. ProbeHolds'
  <2>1. \A u \in Tabs : TriesToProbe(u)' =>
          /\ TriesToProbe(u) /\ trying'[u].caller = trying[u].caller
          /\ trying[u].raced => trying'[u].raced
    BY <1>2 DEF TriesToProbe, Idle
  <2>2. QED
    BY <2>1 DEF ProbeHolds
<1>4. SpacingTries'
  <2> SUFFICES ASSUME NEW u \in Tabs, ~Idle(u)', trying'[u].lock = "spacing"
               PROVE  /\ trying'[u].caller \in Slots /\ req'[trying'[u].caller] # Free
                      /\ req'[trying'[u].caller].tab = u
                      /\ req'[trying'[u].caller].stage = "locking"
    BY DEF SpacingTries
  <2>1. CASE u = t
    BY <1>2, <2>1
  <2>2. CASE u # t
    <3>1. ~Idle(u) /\ trying'[u].caller = trying[u].caller /\ trying[u].lock = "spacing"
      BY <1>2, <2>2 DEF Idle
    <3>2. /\ trying[u].caller \in Slots /\ req[trying[u].caller] # Free
          /\ req[trying[u].caller].tab = u /\ req[trying[u].caller].stage = "locking"
      BY <3>1 DEF SpacingTries
    <3>3. QED
      BY <2>2, <3>1, <3>2
  <2>3. QED
    BY <2>1, <2>2
<1>5. QED
  BY <1>2, <1>3, <1>4

LEMMA TakeTurnKeeps ==
  ASSUME GovernanceInv, NEW r \in Slots, TakeTurn(r)
  PROVE  GovernanceInv'
<1> USE TypeParts, TypePartsNext DEF GovernanceInv
<1> DEFINE t == req[r].tab
           v == [req[r] EXCEPT !.stage = "locking", !.wait = LockWait]
<1>1. /\ req[r] # Free /\ req[r] \in Requests /\ t \in Tabs /\ Idle(t)
      /\ req' = [req EXCEPT ![r] = v]
      /\ UNCHANGED <<mine, shared, lock, inFlight, rest, closes, world>>
      /\ Looks(t, "spacing", r) \/ trying' = trying
  BY DEF TakeTurn, Locking, Waits, RequestsTyped, Requests
<1>2. v \in Requests /\ v.tab = req[r].tab /\ v.key = req[r].key /\ v.probe = req[r].probe
      /\ v.stage = "locking"
  BY <1>1, TimesAre DEF Requests
<1> HIDE DEF v
<1>3. /\ RequestsTyped'
      /\ req'[r] = v /\ v # Free /\ \A s \in Slots \ {r} : req'[s] = req[s]
      /\ \A u \in Tabs : Running(u)' = Running(u)
      /\ \A s \in Slots : (Alone(s)' <=> Alone(s)) /\ (Alone(s) => req'[s].tab = req[s].tab)
  BY <1>1, <1>2, WaitingTyped
<1>4. trying' \in [Tabs -> Tries] /\ ProbeHolds' /\ SpacingTries'
  <2>1. CASE Looks(t, "spacing", r)
    BY <1>1, <1>2, <1>3, <2>1, SpacingLooksKeeps
  <2>2. CASE trying' = trying
    <3>1. SpacingTries'
      BY <1>1, <1>3, <2>2, SpacingTriesStay DEF Idle
    <3>2. QED
      BY <1>1, <1>3, <2>2, <3>1 DEF ProbeHolds, TriesToProbe, Idle
  <2>3. QED
    BY <1>1, <2>1, <2>2
<1>5. TypeOK'
  BY <1>1, <1>3, <1>4 DEF FlagsCleared
<1>6. Spaced'
  <2>1. \A s \in Slots : req[s] # Free /\ req[s].tab = req[r].tab => ~Taking(s)
    BY DEF TakeTurn, Running, Taking
  <2>2. \A s \in Slots \ {r} : Taking(s)' <=> Taking(s)
    BY <1>3 DEF Taking
  <2>3. QED
    BY <1>1, <1>2, <1>3, <2>1, <2>2 DEF Spaced, Taking
<1>7. QED
  BY <1>4, <1>5, <1>6

LEMMA PollKeeps ==
  ASSUME GovernanceInv, NEW r \in Slots, PollSpacing(r)
  PROVE  GovernanceInv'
<1> USE TypeParts, TypePartsNext DEF GovernanceInv
<1>1. /\ req[r] # Free /\ Idle(req[r].tab) /\ req[r].stage = "locking"
      /\ Looks(req[r].tab, "spacing", r)
      /\ UNCHANGED <<mine, shared, lock, req, inFlight, rest, closes, world>>
  BY DEF PollSpacing, Waits
<1>2. trying' \in [Tabs -> Tries] /\ ProbeHolds' /\ SpacingTries'
  BY <1>1, SpacingLooksKeeps DEF Alone
<1>3. TypeOK' /\ Spaced'
  BY <1>1, <1>2 DEF RequestsTyped, FlagsCleared, Running, Spaced, Taking
<1>4. QED
  BY <1>2, <1>3

\* With the lock or without it, the request sleeps for what is left.
LEMMA SleepKeeps ==
  ASSUME GovernanceInv, NEW r \in Slots, req[r] # Free, req[r].stage = "locking",
         NEW locked \in BOOLEAN, Sleep(r, locked), trying' \in [Tabs -> Tries],
         \A u \in Tabs : ~Idle(u)' => u # req[r].tab /\ ~Idle(u) /\ trying'[u] = trying[u]
  PROVE  GovernanceInv'
<1> USE TypeParts, TypePartsNext DEF GovernanceInv
<1>2. req[r] \in Requests /\ req[r].tab \in Tabs
  BY DEF RequestsTyped, Requests
<1> DEFINE t == req[r].tab
           known == Synced(mine[t])
<1>3. /\ mine' = [mine EXCEPT ![t] = known]
      /\ req' = [req EXCEPT ![r] = [@ EXCEPT !.stage = "sleeping", !.wait = known.gap, !.locked = locked]]
      /\ UNCHANGED <<shared, lock, inFlight, rest, closes, world>>
  BY DEF Sleep
<1>5. known \in TabKnowledge /\ known.gap >= mine[t].gap /\ known.halfOpen = mine[t].halfOpen
  BY <1>2, SyncedTyped
<1> HIDE DEF known
<1> DEFINE v == [req[r] EXCEPT !.stage = "sleeping", !.wait = known.gap, !.locked = locked]
<1>6. v \in Requests /\ v.tab = req[r].tab /\ v.key = req[r].key /\ v.probe = req[r].probe
      /\ v.stage = "sleeping" /\ v.wait = known.gap
  BY <1>2, <1>5 DEF Requests, TabKnowledge
<1>7. req' = [req EXCEPT ![r] = v]
  BY <1>3
<1> HIDE DEF v
<1>8. /\ RequestsTyped'
      /\ req'[r] = v /\ v # Free /\ \A s \in Slots \ {r} : req'[s] = req[s]
      /\ \A u \in Tabs : Running(u)' = Running(u)
      /\ \A s \in Slots : (Alone(s)' <=> Alone(s)) /\ (Alone(s) => req'[s].tab = req[s].tab)
  BY <1>3, <1>6, <1>7, WaitingTyped
<1>9. mine' \in [Tabs -> TabKnowledge]
      /\ \A u \in Tabs : mine'[u].gap >= mine[u].gap /\ mine'[u].halfOpen = mine[u].halfOpen
  BY <1>2, <1>3, <1>5, TimesAre DEF TabKnowledge
<1>10. TypeOK'
  BY <1>3, <1>8, <1>9 DEF FlagsCleared
<1>11. Spaced'
  <2>1. \A u \in Tabs : rest[u] \in Nat /\ mine[u].gap \in Nat /\ mine'[u].gap \in Nat
    BY <1>9, TimesAre DEF TabKnowledge
  <2>2. \A u \in Tabs : rest'[u] <= mine'[u].gap
    BY <1>3, <1>9, <2>1 DEF Spaced
  <2>3. rest[t] <= v.wait
    <3>1. known.gap \in Nat
      BY <1>5, TimesAre DEF TabKnowledge
    <3>2. QED
      BY <1>2, <1>5, <1>6, <2>1, <3>1 DEF Spaced
  <2>4. \A s \in Slots : Taking(s)' <=> Taking(s)
    BY <1>6, <1>8 DEF Taking
  <2>5. QED
    BY <1>3, <1>6, <1>8, <2>2, <2>3, <2>4 DEF Spaced, Taking
<1>12. ProbeHolds'
  <2>1. \A s \in Slots : Alone(s) => req[s].tab \in Tabs
    BY DEF Alone, RequestsTyped, Requests
  <2>2. \A u \in Tabs : TriesToProbe(u)' => TriesToProbe(u) /\ trying'[u] = trying[u]
    BY DEF TriesToProbe
  <2>3. QED
    BY <1>3, <1>8, <1>9, <2>1, <2>2 DEF ProbeHolds
<1>13. SpacingTries'
  BY <1>2, <1>8, SpacingTriesStay
<1>14. QED
  BY <1>10, <1>11, <1>12, <1>13

LEMMA LockSpacingKeeps ==
  ASSUME GovernanceInv, NEW t \in Tabs, LockSpacing(t)
  PROVE  GovernanceInv'
<1> DEFINE r == trying[t].caller
<1>1. ~Idle(t) /\ trying[t].lock = "spacing" /\ trying' = [trying EXCEPT ![t] = NoTry] /\ Sleep(r, TRUE)
  BY DEF LockSpacing, Confirms, Idle
<1>2. r \in Slots /\ req[r] # Free /\ req[r].tab = t /\ req[r].stage = "locking"
  BY <1>1 DEF GovernanceInv, SpacingTries
<1>3. /\ trying' \in [Tabs -> Tries]
      /\ \A u \in Tabs : ~Idle(u)' => u # t /\ ~Idle(u) /\ trying'[u] = trying[u]
  BY <1>1, TryEnds DEF GovernanceInv
<1> HIDE DEF r
<1>4. QED
  BY <1>1, <1>2, <1>3, SleepKeeps

LEMMA LockTimesOutKeeps ==
  ASSUME GovernanceInv, NEW r \in Slots, LockTimesOut(r)
  PROVE  GovernanceInv'
<1>1. req[r] # Free /\ req[r].stage = "locking" /\ Idle(req[r].tab) /\ Sleep(r, FALSE) /\ trying' = trying
  BY DEF LockTimesOut, Waits
<1>2. trying' \in [Tabs -> Tries]
  BY <1>1, TypeParts DEF GovernanceInv
<1>3. QED
  BY <1>1, <1>2, SleepKeeps DEF Idle

\* The timer is up: the time of this request is the one the next looks at.
LEMMA StampKeeps ==
  ASSUME GovernanceInv, NEW r \in Slots, Stamp(r)
  PROVE  GovernanceInv'
<1> USE TypeParts, TypePartsNext DEF GovernanceInv
<1>1. req[r] # Free /\ req[r].stage = "sleeping" /\ req[r] \in Requests /\ req[r].tab \in Tabs
      /\ Idle(req[r].tab)
  BY DEF Stamp, Waits, RequestsTyped, Requests
<1> DEFINE t == req[r].tab
           v == [req[r] EXCEPT !.stage = "starting"]
<1>2. /\ mine' = [mine EXCEPT ![t].gap = Gap]
      /\ shared' = Stored(shared, [shared EXCEPT !.gap = Larger(@, Gap)])
      /\ req' = [req EXCEPT ![r] = v]
      /\ rest' = [rest EXCEPT ![t] = Gap]
      /\ UNCHANGED <<trying, inFlight, closes, world>>
  BY DEF Stamp
<1>3. Gap \in Times
  BY TimesAre DEF Gap
<1>4. v \in Requests /\ v.tab = req[r].tab /\ v.key = req[r].key /\ v.probe = req[r].probe
      /\ v.stage = "starting"
  BY <1>1 DEF Requests
<1> HIDE DEF v
<1>5. /\ RequestsTyped'
      /\ req'[r] = v /\ v # Free /\ \A s \in Slots \ {r} : req'[s] = req[s]
      /\ \A u \in Tabs : Running(u)' = Running(u)
      /\ \A s \in Slots : (Alone(s)' <=> Alone(s)) /\ (Alone(s) => req'[s].tab = req[s].tab)
  BY <1>1, <1>2, <1>4, WaitingTyped
<1>6. /\ mine' \in [Tabs -> TabKnowledge] /\ rest' \in [Tabs -> Times]
      /\ mine'[t].gap = Gap /\ rest'[t] = Gap
      /\ \A u \in Tabs : mine'[u].halfOpen = mine[u].halfOpen
      /\ \A u \in Tabs \ {t} : mine'[u] = mine[u] /\ rest'[u] = rest[u]
  BY <1>1, <1>2, <1>3 DEF TabKnowledge
<1>7. shared' \in Knowledge
  BY <1>2, <1>3, TimesAre DEF Knowledge, Larger, Stored
<1>8. lock' \in [LockNames -> Locks] /\ lock'["probe"] = lock["probe"]
  BY TimesAre DEF Stamp, Released, NoLock, Locks, LockNames
<1>9. TypeOK'
  BY <1>2, <1>5, <1>6, <1>7, <1>8 DEF FlagsCleared
<1>10. Spaced'
  <2>1. \A s \in Slots : Taking(s)' => Taking(s) /\ s # r
    BY <1>4, <1>5 DEF Taking
  <2>2. \A s \in Slots : Taking(s)' => req[s].tab # t
    BY <1>1, <2>1 DEF Spaced, Taking
  <2>3. \A u \in Tabs : rest'[u] <= mine'[u].gap
    BY <1>3, <1>6, TimesAre DEF Spaced
  <2>4. \A s \in Slots : Taking(s)' => req[s].tab \in Tabs
    BY <2>1 DEF Taking, RequestsTyped, Requests
  <2>5. ASSUME NEW s \in Slots, req'[s] # Free, req'[s].stage = "sleeping"
        PROVE  rest'[req'[s].tab] <= req'[s].wait
    <3>1. Taking(s)'
      BY <2>5 DEF Taking
    <3>2. req'[s] = req[s] /\ rest'[req[s].tab] = rest[req[s].tab]
      BY <1>5, <1>6, <2>1, <2>2, <2>4, <3>1
    <3>3. QED
      BY <2>5, <3>2 DEF Spaced
  <2>6. QED
    BY <1>5, <2>1, <2>3, <2>5 DEF Spaced
<1>11. ProbeHolds'
  <2>1. \A s \in Slots : Alone(s) => req[s].tab \in Tabs
    BY DEF Alone, RequestsTyped, Requests
  <2>2. QED
    BY <1>2, <1>5, <1>6, <1>8, <2>1 DEF ProbeHolds, TriesToProbe, Idle
<1>12. SpacingTries'
  BY <1>1, <1>2, <1>5, SpacingTriesStay DEF Idle
<1>13. QED
  BY <1>9, <1>10, <1>11, <1>12

LEMMA DepartKeeps ==
  ASSUME GovernanceInv, NEW r \in Slots, Depart(r)
  PROVE  GovernanceInv'
<1> USE TypeParts, TypePartsNext DEF GovernanceInv
<1> DEFINE v == [req[r] EXCEPT !.stage = "fetch"]
<1>1. /\ req[r] # Free /\ req[r] \in Requests /\ req[r].tab \in Tabs /\ Idle(req[r].tab)
      /\ req[r].stage = "starting"
      /\ req' = [req EXCEPT ![r] = v]
      /\ UNCHANGED <<mine, shared, lock, trying, inFlight, rest, closes, world>>
  BY DEF Depart, Waits, RequestsTyped, Requests
<1>2. v \in Requests /\ v.tab = req[r].tab /\ v.key = req[r].key /\ v.probe = req[r].probe
      /\ v.stage = "fetch"
  BY <1>1 DEF Requests
<1> HIDE DEF v
<1>3. /\ RequestsTyped'
      /\ req'[r] = v /\ v # Free /\ \A s \in Slots \ {r} : req'[s] = req[s]
      /\ \A u \in Tabs : Running(u)' = Running(u)
      /\ \A s \in Slots : (Alone(s)' <=> Alone(s)) /\ (Alone(s) => req'[s].tab = req[s].tab)
  BY <1>1, <1>2, WaitingTyped
<1>4. TypeOK'
  BY <1>1, <1>3 DEF FlagsCleared
<1>5. Spaced'
  <2>1. \A s \in Slots : Taking(s)' => Taking(s) /\ req'[s] = req[s]
    BY <1>2, <1>3 DEF Taking
  <2>2. QED
    BY <1>1, <1>2, <1>3, <2>1 DEF Spaced, Taking
<1>6. ProbeHolds'
  BY <1>1, <1>3 DEF ProbeHolds, TriesToProbe, Idle
<1>7. SpacingTries'
  BY <1>1, <1>3, SpacingTriesStay DEF Idle
<1>8. QED
  BY <1>4, <1>5, <1>6, <1>7

-----------------------------------------------------------------------------
\* The request that leaves takes the flag and the lock of its tab with it, and
\* no probe of the tab is alone any more.
LEMMA LeaveFrees ==
  ASSUME GovernanceInv, NEW r \in Slots, req[r] # Free, Leave(r)
  PROVE  /\ RequestsTyped'
         /\ lock' \in [LockNames -> Locks] /\ lock'["probe"] \in {NoLock, lock["probe"]}
         /\ \A s \in Slots : req'[s] # Free =>
              req[s] # Free /\ s # r /\ req'[s].tab = req[s].tab
                /\ req'[s].stage = req[s].stage /\ req'[s].wait = req[s].wait
         /\ \A u \in Tabs \ {req[r].tab} : Running(u)' = Running(u)
         /\ \A s \in Slots : Alone(s)' => Alone(s) /\ req[s].tab # req[r].tab
         /\ lock["probe"].owner # req[r].tab => lock' = lock
<1> USE TypeParts, TypePartsNext DEF GovernanceInv
<1> DEFINE t == req[r].tab
           k == req[r].key
           disturbed(s) == req[s] # Free /\ req[s].tab = t /\ req[s].probe = "alone"
<1>1. /\ req' = [s \in Slots |->
           IF s = r THEN Free ELSE IF disturbed(s) THEN [req[s] EXCEPT !.probe = "disturbed"] ELSE req[s]]
      /\ lock' = [lock EXCEPT !["probe"] = Released(@, t)]
      /\ inFlight' = IF inFlight[t][k] = r THEN [inFlight EXCEPT ![t][k] = Free] ELSE inFlight
  BY DEF Leave
<1>2. t \in Tabs /\ k \in Keys
  BY DEF RequestsTyped, Requests
<1>3. ASSUME NEW s \in Slots, req[s] # Free, s # r
      PROVE  /\ req'[s] \in Requests /\ req'[s] # Free
             /\ req'[s].tab = req[s].tab /\ req'[s].key = req[s].key
             /\ req'[s].stage = req[s].stage /\ req'[s].wait = req[s].wait
             /\ req'[s].probe = "alone" => req[s].probe = "alone" /\ req[s].tab # t
  <2>1. req[s] \in Requests
    BY <1>3 DEF RequestsTyped
  <2>2. CASE disturbed(s)
    <3>1. req'[s] = [req[s] EXCEPT !.probe = "disturbed"]
      BY <1>1, <1>3, <2>2
    <3>2. req'[s] \in Requests
      BY <2>1, <3>1 DEF Requests
    <3>3. req'[s] # Free
      BY <3>2, GovernanceAssumption
    <3>4. QED
      BY <2>1, <3>1, <3>2, <3>3 DEF Requests
  <2>3. CASE ~disturbed(s)
    <3>1. req'[s] = req[s]
      BY <1>1, <1>3, <2>3
    <3>2. QED
      BY <1>3, <2>1, <2>3, <3>1
  <2>4. QED
    BY <2>2, <2>3
<1>4. ASSUME NEW s \in Slots, req[s] = Free \/ s = r
      PROVE  req'[s] = Free
  BY <1>1, <1>4
<1>5. req' \in [Slots -> Requests \cup {Free}]
  <2>1. \A s \in Slots : req'[s] \in Requests \cup {Free}
    BY <1>3, <1>4
  <2>2. req' = [s \in Slots |-> req'[s]]
    BY <1>1
  <2>3. QED
    BY <2>1, <2>2
<1>6. RequestsTyped'
  <2>1. inFlight' \in [Tabs -> [Keys -> Slots \cup {Free}]]
    BY <1>1, <1>2 DEF RequestsTyped
  <2>2. ASSUME NEW u \in Tabs, NEW j \in Keys, inFlight'[u][j] # Free
        PROVE  /\ inFlight'[u][j] = inFlight[u][j] /\ inFlight[u][j] # r
    <3>1. CASE inFlight[t][k] = r /\ u = t /\ j = k
      BY <1>1, <2>2, <3>1 DEF RequestsTyped
    <3>2. CASE ~(inFlight[t][k] = r /\ u = t /\ j = k)
      <4>1. inFlight'[u][j] = inFlight[u][j]
        BY <1>1, <1>2, <3>2 DEF RequestsTyped
      <4>2. inFlight[u][j] \in Running(u) /\ req[inFlight[u][j]].key = j
        BY <2>2, <4>1 DEF RequestsTyped
      <4>3. inFlight[u][j] = r => u = t /\ j = k
        BY <4>2 DEF Running
      <4>4. QED
        BY <3>2, <4>1, <4>3
    <3>3. QED
      BY <3>1, <3>2
  <2>3. ASSUME NEW u \in Tabs, NEW j \in Keys, inFlight'[u][j] # Free
        PROVE  /\ j \in Coalesced
               /\ inFlight'[u][j] \in Slots /\ req'[inFlight'[u][j]] # Free
               /\ req'[inFlight'[u][j]].tab = u /\ req'[inFlight'[u][j]].key = j
    <3>1. j \in Coalesced /\ inFlight[u][j] \in Running(u) /\ req[inFlight[u][j]].key = j
      BY <2>2, <2>3 DEF RequestsTyped
    <3>2. QED
      BY <1>3, <2>2, <2>3, <3>1 DEF Running
  <2>4. QED
    BY <1>5, <2>1, <2>3 DEF RequestsTyped, Running
<1>7. /\ lock' \in [LockNames -> Locks] /\ lock'["probe"] \in {NoLock, lock["probe"]}
      /\ lock["probe"].owner # t => lock' = lock
  BY <1>1, TimesAre DEF Released, NoLock, Locks, LockNames
<1>8. \A u \in Tabs \ {t} : Running(u)' = Running(u)
  <2> SUFFICES ASSUME NEW u \in Tabs \ {t}, NEW s \in Slots
               PROVE  (req'[s] # Free /\ req'[s].tab = u) <=> (req[s] # Free /\ req[s].tab = u)
    BY DEF Running
  <2>1. QED
    BY <1>3, <1>4
<1>9. QED
  BY <1>3, <1>4, <1>6, <1>7, <1>8 DEF Alone

\* However the request ended, its tab's flag is cleared and what is left of
\* the gap is kept.
LEMMA FinishKeeps ==
  ASSUME GovernanceInv, NEW r \in Slots, req[r] # Free, Leave(r),
         NEW m \in TabKnowledge, m.gap >= mine[req[r].tab].gap, ~m.halfOpen,
         mine' = [mine EXCEPT ![req[r].tab] = m], shared' \in Knowledge,
         Idle(req[r].tab), UNCHANGED <<trying, rest, closes, world>>
  PROVE  GovernanceInv'
<1> USE TypeParts, TypePartsNext DEF GovernanceInv
<1> DEFINE t == req[r].tab
<1>1. t \in Tabs
  BY DEF RequestsTyped, Requests
<1>2. /\ RequestsTyped'
      /\ lock' \in [LockNames -> Locks] /\ lock'["probe"] \in {NoLock, lock["probe"]}
      /\ \A s \in Slots : req'[s] # Free =>
           req[s] # Free /\ s # r /\ req'[s].tab = req[s].tab
             /\ req'[s].stage = req[s].stage /\ req'[s].wait = req[s].wait
      /\ \A u \in Tabs \ {t} : Running(u)' = Running(u)
      /\ \A s \in Slots : Alone(s)' => Alone(s) /\ req[s].tab # t
      /\ lock["probe"].owner # t => lock' = lock
  BY LeaveFrees
<1>3. mine' \in [Tabs -> TabKnowledge]
      /\ mine'[t] = m /\ \A u \in Tabs \ {t} : mine'[u] = mine[u]
  BY <1>1
<1>4. TypeOK'
  <2>1. FlagsCleared'
    BY <1>1, <1>2, <1>3 DEF FlagsCleared
  <2>2. QED
    BY <1>2, <1>3, <2>1
<1>5. Spaced'
  <2>1. \A u \in Tabs : rest[u] \in Nat /\ mine[u].gap \in Nat /\ mine'[u].gap \in Nat
    BY <1>3, TimesAre DEF TabKnowledge
  <2>2. \A u \in Tabs : mine'[u].gap >= mine[u].gap
    BY <1>1, <1>3, <2>1
  <2>3. \A u \in Tabs : rest'[u] <= mine'[u].gap
    BY <2>1, <2>2 DEF Spaced
  <2>4. \A s \in Slots : Taking(s)' => Taking(s) /\ req'[s].tab = req[s].tab
            /\ req'[s].stage = req[s].stage /\ req'[s].wait = req[s].wait
    BY <1>2 DEF Taking
  <2>5. QED
    BY <2>3, <2>4 DEF Spaced, Taking
<1>6. ProbeHolds'
  <2>1. \A s \in Slots : Alone(s) => req[s].tab \in Tabs
    BY DEF Alone, RequestsTyped, Requests
  <2>2. \A s \in Slots : Alone(s)' => Alone(s) /\ req'[s].tab = req[s].tab /\ req[s].tab # t
    BY <1>2 DEF Alone
  <2>3. lock'["probe"].owner \in Tabs => lock'["probe"].left > 0
    BY <1>2, GovernanceAssumption DEF ProbeHolds, NoLock
  <2>4. \A u \in Tabs : TriesToProbe(u)' <=> TriesToProbe(u)
    BY DEF TriesToProbe, Idle
  <2>5. QED
    BY <1>2, <1>3, <2>1, <2>2, <2>3, <2>4 DEF ProbeHolds
<1>7. SpacingTries'
  <2>1. \A s \in Slots : req[s] # Free /\ req[s].tab # t => s \in Running(req[s].tab)'
    BY <1>2 DEF RequestsTyped, Requests, Running
  <2>2. QED
    BY <1>1, <1>2, <2>1, SpacingTriesStay DEF Idle, Running
<1>8. QED
  BY <1>4, <1>5, <1>6, <1>7

\* bumpFailure
LEMMA BumpedKnows ==
  ASSUME TypeOK, NEW t \in Tabs, NEW pause \in Times, NEW d \in Backoffs, Bumped(t, pause, d)
  PROVE  /\ shared' \in Knowledge
         /\ \E m \in TabKnowledge :
              /\ mine' = [mine EXCEPT ![t] = m]
              /\ m.gap >= mine[t].gap /\ ~m.halfOpen
<1> USE TypeParts
<1> DEFINE known == Synced(mine[t])
           n == IF known.streak < Threshold THEN known.streak + 1 ELSE Threshold
           backoff == IF n >= Threshold THEN d ELSE 0
           m == [known EXCEPT !.streak = n, !.backoff = IF n >= Threshold THEN d ELSE @,
                              !.pause = pause, !.halfOpen = FALSE]
<1>1. known \in TabKnowledge /\ known.gap >= mine[t].gap
  BY SyncedTyped
<1>2. n \in 0..Threshold
  BY <1>1, GovernanceAssumption DEF TabKnowledge
<1>3. d \in Times /\ backoff \in Times
  BY TimesAre
<1>4. mine' = [mine EXCEPT ![t] = m]
      /\ shared' = Stored(shared, [shared EXCEPT !.streak = Larger(@, n), !.pause = Larger(@, pause),
                                                 !.backoff = Larger(@, backoff)])
  BY DEF Bumped
<1> HIDE DEF known, n, backoff
<1>5. m \in TabKnowledge /\ m.gap = known.gap /\ ~m.halfOpen
  BY <1>1, <1>2, <1>3 DEF TabKnowledge
<1>6. shared' \in Knowledge
  BY <1>2, <1>3, <1>4 DEF Knowledge, Larger, Stored
<1>7. QED
  BY <1>1, <1>4, <1>5, <1>6

LEMMA FailsKeeps ==
  ASSUME GovernanceInv, NEW r \in Slots, Fails(r) \/ Disabled(r)
  PROVE  GovernanceInv'
<1> USE TypeParts DEF GovernanceInv
<1>1. req[r] # Free /\ req[r].tab \in Tabs /\ Idle(req[r].tab)
  BY DEF Fails, Disabled, Waits, RequestsTyped, Requests
<1>2. mine[req[r].tab].pause \in Times /\ shared.pause \in Times
  BY <1>1 DEF TabKnowledge, Knowledge
<1>3. Larger(PauseTime, shared.pause) \in Times
  BY <1>2, TimesAre DEF Larger
<1>4. \E d \in Backoffs, pause \in Times : Bumped(req[r].tab, pause, d)
  BY <1>2, <1>3 DEF Fails, Disabled
<1>5. PICK m \in TabKnowledge :
        mine' = [mine EXCEPT ![req[r].tab] = m] /\ m.gap >= mine[req[r].tab].gap /\ ~m.halfOpen
  BY <1>1, <1>4, BumpedKnows
<1>6. shared' \in Knowledge
  BY <1>1, <1>4, BumpedKnows
<1>7. QED
  BY <1>1, <1>5, <1>6, FinishKeeps DEF Fails, Disabled

LEMMA SucceedsKeeps ==
  ASSUME GovernanceInv, NEW r \in Slots, Succeeds(r)
  PROVE  GovernanceInv'
<1> USE TypeParts DEF GovernanceInv
<1>1. /\ req[r] # Free /\ req[r].tab \in Tabs /\ Idle(req[r].tab) /\ Leave(r)
      /\ UNCHANGED <<trying, rest, closes, world>>
  BY DEF Succeeds, Waits, RequestsTyped, Requests
<1> DEFINE t == req[r].tab
           m == [mine[t] EXCEPT !.streak = 0, !.backoff = 0, !.halfOpen = FALSE]
<1>2. mine' = [mine EXCEPT ![t] = m] /\ shared' = [Fresh EXCEPT !.pause = shared.pause]
  BY DEF Succeeds
<1>3. mine[t] \in TabKnowledge /\ mine[t].gap \in Nat
  BY <1>1, TimesAre DEF TabKnowledge
<1>4. m \in TabKnowledge /\ m.gap = mine[t].gap /\ ~m.halfOpen
  <2>1. 0 \in 0..Threshold /\ 0 \in Times
    BY TimesAre, GovernanceAssumption
  <2>2. QED
    BY <1>3, <2>1 DEF TabKnowledge
<1>5. shared' \in Knowledge
  BY <1>2, TimesAre, GovernanceAssumption DEF Knowledge, Fresh
<1>6. m.gap >= mine[t].gap
  BY <1>3, <1>4
<1> HIDE DEF m
<1>7. QED
  BY <1>1, <1>2, <1>4, <1>5, <1>6, FinishKeeps

-----------------------------------------------------------------------------
\* A tab that is closed leaves its locks to run out, and nothing else.
LEMMA CloseTabKeeps ==
  ASSUME GovernanceInv, NEW t \in Tabs, CloseTab(t)
  PROVE  GovernanceInv'
<1> USE TypeParts, TypePartsNext DEF GovernanceInv
<1> DEFINE orphaned(l) == IF l.owner = t THEN [l EXCEPT !.owner = Gone] ELSE l
<1>1. /\ closes < world.closes /\ closes' = closes + 1
      /\ mine' = [mine EXCEPT ![t] = NewTab]
      /\ lock' = [n \in LockNames |-> orphaned(lock[n])]
      /\ trying' = [trying EXCEPT ![t] = NoTry]
      /\ req' = [r \in Slots |-> IF r \in Running(t) THEN Free ELSE req[r]]
      /\ inFlight' = [inFlight EXCEPT ![t] = Nothing]
      /\ rest' = [rest EXCEPT ![t] = 0]
      /\ UNCHANGED <<shared, world>>
  BY DEF CloseTab
<1>2. NewTab \in TabKnowledge /\ ~NewTab.halfOpen /\ NewTab.gap = 0
  <2>1. 0 \in 0..Threshold /\ 0 \in Times
    BY TimesAre, GovernanceAssumption
  <2>2. QED
    BY <2>1 DEF NewTab, TabKnowledge
<1>3. /\ mine' \in [Tabs -> TabKnowledge] /\ rest' \in [Tabs -> Times]
      /\ mine'[t] = NewTab /\ rest'[t] = 0
      /\ \A u \in Tabs \ {t} : mine'[u] = mine[u] /\ rest'[u] = rest[u]
  BY <1>1, <1>2, TimesAre
<1>4. /\ lock' \in [LockNames -> Locks]
      /\ lock["probe"].owner # t => lock'["probe"] = lock["probe"]
      /\ lock["probe"].owner = t => lock'["probe"].owner = Gone
  <2>1. \A n \in LockNames : orphaned(lock[n]) \in Locks
    BY DEF Locks
  <2>2. lock'["probe"] = orphaned(lock["probe"])
    BY <1>1 DEF LockNames
  <2>3. QED
    BY <1>1, <2>1, <2>2 DEF Locks, LockNames
<1> HIDE DEF orphaned
<1>5. /\ trying' \in [Tabs -> Tries]
      /\ \A u \in Tabs : ~Idle(u)' => u # t /\ ~Idle(u) /\ trying'[u] = trying[u]
      /\ \A u \in Tabs : TriesToProbe(u)' => TriesToProbe(u) /\ trying'[u] = trying[u]
  BY <1>1, TryEnds
<1>6. \A r \in Slots : IF req[r] # Free /\ req[r].tab = t THEN req'[r] = Free ELSE req'[r] = req[r]
  BY <1>1 DEF Running
<1>7. \A u \in Tabs \ {t} : Running(u)' = Running(u)
  BY <1>6 DEF Running
<1>8. closes' \in 0..world'.closes
  <2>1. world.closes \in Nat
    BY GovernanceAssumption
  <2>2. QED
    BY <1>1, <2>1
<1>9. RequestsTyped'
  <2>1. req' \in [Slots -> Requests \cup {Free}]
    BY <1>1 DEF RequestsTyped
  <2>2. Nothing \in [Keys -> Slots \cup {Free}] /\ \A k \in Keys : Nothing[k] = Free
    BY DEF Nothing
  <2>3. inFlight' \in [Tabs -> [Keys -> Slots \cup {Free}]]
    BY <1>1, <2>2 DEF RequestsTyped
  <2>4. ASSUME NEW u \in Tabs, NEW k \in Keys, inFlight'[u][k] # Free
        PROVE  /\ k \in Coalesced /\ inFlight'[u][k] \in Running(u)'
               /\ req'[inFlight'[u][k]].key = k
    <3>1. u # t
      BY <1>1, <2>2, <2>4 DEF RequestsTyped
    <3>2. inFlight'[u][k] = inFlight[u][k]
      BY <1>1, <3>1 DEF RequestsTyped
    <3>3. k \in Coalesced /\ inFlight[u][k] \in Running(u) /\ req[inFlight[u][k]].key = k
      BY <2>4, <3>2 DEF RequestsTyped
    <3>4. req'[inFlight[u][k]] = req[inFlight[u][k]]
      BY <1>6, <3>1, <3>3 DEF Running
    <3>5. QED
      BY <1>7, <3>1, <3>2, <3>3, <3>4
  <2>5. QED
    BY <2>1, <2>3, <2>4 DEF RequestsTyped
<1>10. TypeOK'
  <2>1. FlagsCleared'
    BY <1>2, <1>3, <1>7 DEF FlagsCleared
  <2>2. QED
    BY <1>1, <1>3, <1>4, <1>8, <1>9, <1>5, <2>1
<1>11. \A r \in Slots : req'[r] # Free => req'[r] = req[r] /\ req[r].tab # t /\ req[r].tab \in Tabs
  BY <1>6 DEF RequestsTyped, Requests
<1>12. Spaced'
  <2>1. \A u \in Tabs : rest'[u] <= mine'[u].gap
    BY <1>2, <1>3 DEF Spaced
  <2>2. \A r \in Slots : Taking(r)' => Taking(r) /\ req'[r] = req[r]
    BY <1>11 DEF Taking
  <2>3. QED
    BY <1>3, <1>11, <2>1, <2>2 DEF Spaced
<1>13. ProbeHolds'
  <2>1. \A r \in Slots : Alone(r)' => Alone(r) /\ req'[r] = req[r] /\ req[r].tab # t /\ req[r].tab \in Tabs
    BY <1>11 DEF Alone
  <2>2. lock'["probe"].owner \in Tabs => lock'["probe"].left > 0
    BY <1>4, GovernanceAssumption DEF ProbeHolds
  <2>3. \A r \in Slots : Alone(r)' =>
          lock'["probe"] = lock["probe"] /\ mine'[req'[r].tab] = mine[req[r].tab]
    BY <1>3, <1>4, <2>1 DEF ProbeHolds
  <2>4. \A r, s \in Slots : Alone(r)' /\ Alone(s)' => r = s
    BY <2>1 DEF ProbeHolds
  <2>5. \A r \in Slots : Alone(r)' =>
          /\ lock'["probe"].owner = req'[r].tab
          /\ mine'[req'[r].tab].halfOpen
          /\ \A u \in Tabs : ~TriesToProbe(u)'
    BY <1>5, <2>1, <2>3 DEF ProbeHolds, TriesToProbe
  <2>6. \A u \in Tabs : TriesToProbe(u)' => trying'[u].caller \in Keys
    BY <1>5 DEF ProbeHolds, TriesToProbe
  <2>7. \A u, v \in Tabs : TriesToProbe(u)' /\ TriesToProbe(v)' /\ u # v => trying'[u].raced
    BY <1>5 DEF ProbeHolds, TriesToProbe
  <2>8. QED
    <3>1. \A r \in Slots : Alone(r)' => lock'["probe"].left > 0
      BY <1>4, <2>1, <2>3 DEF ProbeHolds
    <3>2. QED
      BY <2>2, <2>4, <2>5, <2>6, <2>7, <3>1 DEF ProbeHolds, TriesToProbe, Alone
<1>14. SpacingTries'
  BY <1>6, <1>5, SpacingTriesStay
<1>15. QED
  BY <1>10, <1>12, <1>13, <1>14

\* All deadlines run down together; a probe whose lock runs out is not alone.
LEMMA TickKeeps ==
  ASSUME GovernanceInv, Tick
  PROVE  GovernanceInv'
<1> USE TypeParts, TypePartsNext DEF GovernanceInv
<1>1. /\ mine' = [t \in Tabs |-> Later(mine[t])]
      /\ shared' = Later(shared)
      /\ lock' = [n \in LockNames |-> Older(lock[n])]
      /\ rest' = [t \in Tabs |-> Less(rest[t])]
      /\ UNCHANGED <<trying, inFlight, closes, world>>
      /\ \A t \in Tabs : Idle(t)
  BY DEF Tick
<1>2. ASSUME NEW l \in Locks
      PROVE  /\ Older(l) \in Locks
             /\ l.left > 1 => Older(l).owner = l.owner /\ Older(l).left > 0
  <2>1. l.left \in Times /\ l.left \in Nat
    BY TimesAre DEF Locks
  <2>2. l.left > 1 => l.left - 1 \in Times /\ l.left - 1 > 0
    BY <2>1, LessIsTime
  <2>3. NoLock \in Locks
    BY TimesAre DEF NoLock, Locks
  <2>4. QED
    BY <2>2, <2>3 DEF Older, Locks
<1>3. ASSUME NEW t \in Tabs
      PROVE  /\ mine'[t] \in TabKnowledge
             /\ mine'[t].gap = Less(mine[t].gap) /\ mine'[t].halfOpen = mine[t].halfOpen
  <2>1. mine[t] \in TabKnowledge
    OBVIOUS
  <2>2. /\ Less(mine[t].backoff) \in Times /\ Less(mine[t].gap) \in Times
        /\ Less(mine[t].pause) \in Times
    BY <2>1, LessIsTime DEF TabKnowledge
  <2>3. mine'[t] = [mine[t] EXCEPT !.backoff = Less(@), !.gap = Less(@), !.pause = Less(@)]
    BY <1>1 DEF Later
  <2>4. QED
    BY <2>1, <2>2, <2>3 DEF TabKnowledge
<1>4. shared' \in Knowledge
  <2>1. /\ Less(shared.backoff) \in Times /\ Less(shared.gap) \in Times
        /\ Less(shared.pause) \in Times
    BY LessIsTime DEF Knowledge
  <2>2. QED
    BY <1>1, <2>1 DEF Later, Knowledge
<1>5. rest' \in [Tabs -> Times]
  BY <1>1, LessIsTime
<1>6. ASSUME NEW r \in Slots
      PROVE  /\ req[r] = Free => req'[r] = Free
             /\ req[r] # Free =>
                  /\ req'[r] \in Requests /\ req'[r] # Free
                  /\ req'[r].tab = req[r].tab /\ req'[r].key = req[r].key
                  /\ req'[r].stage = req[r].stage /\ req'[r].wait = Less(req[r].wait)
                  /\ req'[r].probe = "alone" => req[r].probe = "alone" /\ lock["probe"].left > 1
  <2>1. req'[r] = IF req[r] = Free THEN Free
                  ELSE [req[r] EXCEPT !.wait = Less(@),
                          !.probe = IF @ = "alone" /\ lock["probe"].left <= 1 THEN "disturbed" ELSE @]
    BY DEF Tick
  <2>2. CASE req[r] # Free
    <3>1. req[r] \in Requests
      BY <2>2 DEF RequestsTyped
    <3>2. Less(req[r].wait) \in Times
      BY <3>1, LessIsTime DEF Requests
    <3> DEFINE q == IF req[r].probe = "alone" /\ lock["probe"].left <= 1 THEN "disturbed" ELSE req[r].probe
    <3>3. q \in {"no", "alone", "disturbed"} /\ (q = "alone" => req[r].probe = "alone" /\ lock["probe"].left > 1)
      <4>1. lock["probe"].left \in Nat
        BY TimesAre DEF Locks, LockNames
      <4>2. QED
        BY <3>1, <4>1 DEF Requests
    <3>4. req'[r] = [req[r] EXCEPT !.wait = Less(req[r].wait), !.probe = q]
      BY <2>1, <2>2, <3>1 DEF Requests
    <3> HIDE DEF q
    <3>5. /\ req'[r] \in Requests
          /\ req'[r].tab = req[r].tab /\ req'[r].key = req[r].key
          /\ req'[r].stage = req[r].stage /\ req'[r].wait = Less(req[r].wait)
          /\ req'[r].probe = q
      BY <3>1, <3>2, <3>3, <3>4 DEF Requests
    <3>6. QED
      BY <2>2, <3>3, <3>5, GovernanceAssumption
  <2>3. QED
    BY <2>1, <2>2
<1>7. \A t \in Tabs : Running(t)' = Running(t)
  BY <1>6 DEF Running
<1>8. RequestsTyped'
  <2>1. req' \in [Slots -> Requests \cup {Free}]
    <3>1. req' = [r \in Slots |-> req'[r]]
      BY DEF Tick
    <3>2. \A r \in Slots : req'[r] \in Requests \cup {Free}
      BY <1>6
    <3>3. QED
      BY <3>1, <3>2
  <2>2. \A t \in Tabs, k \in Keys : inFlight[t][k] # Free =>
          k \in Coalesced /\ inFlight[t][k] \in Running(t) /\ req'[inFlight[t][k]].key = k
    BY <1>6 DEF RequestsTyped, Running
  <2>3. QED
    BY <1>1, <1>7, <2>1, <2>2 DEF RequestsTyped
<1>9. TypeOK'
  <2>1. FlagsCleared'
    BY <1>3, <1>7 DEF FlagsCleared
  <2>2. mine' \in [Tabs -> TabKnowledge]
    BY <1>1, <1>3
  <2>3. QED
    BY <1>1, <1>2, <1>4, <1>5, <1>8, <2>1, <2>2 DEF LockNames
<1>10. \A a, b \in Times : a <= b => Less(a) <= Less(b)
  <2>1. \A a, b \in Nat : a <= b => Less(a) <= Less(b)
    BY DEF Less
  <2>2. QED
    BY <2>1, TimesAre
<1>11. Spaced'
  <2>1. \A t \in Tabs : rest[t] \in Times /\ mine[t].gap \in Times
    BY DEF TabKnowledge
  <2>2. \A t \in Tabs : rest'[t] <= mine'[t].gap
    BY <1>1, <1>3, <1>10, <2>1 DEF Spaced
  <2>3. ASSUME NEW r \in Slots, req'[r] # Free, req'[r].stage = "sleeping"
        PROVE  rest'[req'[r].tab] <= req'[r].wait
    <3>1. req[r] # Free /\ req[r].stage = "sleeping" /\ req[r].tab \in Tabs /\ req[r].wait \in Times
      BY <1>6, <2>3 DEF RequestsTyped, Requests
    <3>2. rest[req[r].tab] <= req[r].wait
      BY <3>1 DEF Spaced
    <3>3. Less(rest[req[r].tab]) <= Less(req[r].wait)
      BY <1>10, <2>1, <3>1, <3>2
    <3>4. QED
      BY <1>1, <1>6, <3>1, <3>3
  <2>4. \A r \in Slots : Taking(r)' => Taking(r) /\ req'[r].tab = req[r].tab
    BY <1>6 DEF Taking
  <2>5. QED
    BY <2>2, <2>3, <2>4 DEF Spaced
<1>12. ProbeHolds'
  <2>1. \A r \in Slots : Alone(r)' => Alone(r) /\ req'[r].tab = req[r].tab /\ req[r].tab \in Tabs
                                     /\ lock["probe"].left > 1
    BY <1>6 DEF Alone, RequestsTyped, Requests
  <2>2. lock'["probe"] = Older(lock["probe"]) /\ lock["probe"] \in Locks
    BY <1>1 DEF LockNames
  <2>3. lock["probe"].left > 1 =>
          lock'["probe"].owner = lock["probe"].owner /\ lock'["probe"].left > 0
    BY <1>2, <2>2
  <2>4. lock'["probe"].owner \in Tabs => lock'["probe"].left > 0
    BY <2>2, <2>3, GovernanceAssumption DEF Older, NoLock
  <2>5. \A t \in Tabs : ~TriesToProbe(t) /\ ~TriesToProbe(t)'
    BY <1>1 DEF TriesToProbe, Idle
  <2>6. QED
    BY <1>3, <2>1, <2>3, <2>4, <2>5 DEF ProbeHolds
<1>13. SpacingTries'
  BY <1>1 DEF SpacingTries, Idle
<1>14. QED
  BY <1>9, <1>11, <1>12, <1>13

-----------------------------------------------------------------------------
LEMMA StartsGoverned == Init => GovernanceInv
<1> SUFFICES ASSUME Init PROVE GovernanceInv
  OBVIOUS
<1>1. 0 \in 0..Threshold /\ 0 \in Times
  BY TimesAre, GovernanceAssumption
<1>2. NewTab \in TabKnowledge /\ ~NewTab.halfOpen /\ NewTab.gap = 0 /\ Fresh \in Knowledge
      /\ NoLock \in Locks /\ NoTry \in Tries /\ NoLock.owner \notin Tabs
  <2>1. NoTry \in Tries
    BY DEF NoTry, Tries, LockNames
  <2>2. QED
    BY <1>1, <2>1, GovernanceAssumption DEF NewTab, TabKnowledge, Fresh, Knowledge, NoLock, Locks
<1>3. \A t \in Tabs : mine[t] = NewTab /\ rest[t] = 0
  BY DEF Init
<1>4. closes \in 0..world.closes
  BY GovernanceAssumption DEF Init
<1>5. RequestsTyped
  BY DEF Init, RequestsTyped, Nothing
<1>6. FlagsCleared
  BY <1>2, <1>3 DEF FlagsCleared
<1>7. TypeOK
  BY <1>1, <1>2, <1>4, <1>5, <1>6, TypeParts DEF Init
<1>8. Spaced /\ ProbeHolds /\ SpacingTries
  <2>1. \A t \in Tabs : Idle(t)
    BY DEF Init, Idle, NoTry
  <2>2. QED
    BY <1>2, <1>3, <2>1 DEF Init, Spaced, Taking, ProbeHolds, Alone, TriesToProbe, SpacingTries, LockNames
<1>9. QED
  BY <1>7, <1>8 DEF GovernanceInv

LEMMA StepKeepsGoverned == GovernanceInv /\ [Next]_vars => GovernanceInv'
<1> SUFFICES ASSUME GovernanceInv, [Next]_vars PROVE GovernanceInv'
  OBVIOUS
<1>1. CASE UNCHANGED vars
  BY <1>1 DEF vars, GovernanceInv, TypeOK, Running, Spaced, Taking, ProbeHolds, Alone,
              TriesToProbe, Idle, SpacingTries
<1>2. ASSUME NEW t \in Tabs, NEW k \in Keys, Call(t, k) PROVE GovernanceInv'
  BY <1>2, RefusalKeeps, AdmittedKeeps, WouldProbeKeeps DEF Call
<1>3. ASSUME NEW t \in Tabs, TryStep(t) PROVE GovernanceInv'
  BY <1>3, WritesLockKeeps, ProbeKeeps, LostKeeps, LockSpacingKeeps DEF TryStep
<1>4. ASSUME NEW r \in Slots, Step(r) PROVE GovernanceInv'
  BY <1>4, TakeTurnKeeps, PollKeeps, LockTimesOutKeeps, StampKeeps, DepartKeeps, FailsKeeps,
     SucceedsKeeps DEF Step, Finish
<1>5. QED
  BY <1>1, <1>2, <1>3, <1>4, CloseTabKeeps, TickKeeps DEF Next

LEMMA Governed == Spec => []GovernanceInv
BY StartsGoverned, StepKeepsGoverned, PTL DEF Spec

\* What a tab and localStorage know keeps its type; a request others may join
\* is under way, and a tab whose half-open flag is set has a request that will
\* clear it, whoever is coalesced with what.
THEOREM TypesHold == Spec => []TypeOK
BY Governed, PTL DEF GovernanceInv

\* In all tabs together, at most one probe is under way among those whose tab
\* took the lock while no other was trying to and has neither lost it nor
\* finished another request since.
THEOREM OneProbeIsAlone == Spec => []ProbesAlone
<1>1. GovernanceInv => ProbesAlone
  <2> SUFFICES ASSUME GovernanceInv PROVE ProbesAlone
    OBVIOUS
  <2> DEFINE alone == {r \in Slots : req[r] # Free /\ req[r].probe = "alone"}
  <2>1. \A r, s \in alone : r = s
    BY DEF GovernanceInv, ProbeHolds, Alone
  <2>2. CASE alone = {}
    <3>1. Cardinality(alone) = 0
      BY <2>2, FS_EmptySet
    <3>2. QED
      BY <3>1 DEF ProbesAlone
  <2>3. CASE alone # {}
    <3>1. PICK r : alone = {r}
      BY <2>1, <2>3
    <3>2. Cardinality(alone) = 1
      BY <3>1, FS_Singleton
    <3>3. QED
      BY <3>2 DEF ProbesAlone
  <2>4. QED
    BY <2>2, <2>3
<1>2. QED
  BY <1>1, Governed, PTL

\* A request leaves its sleep only when it is stamped, and then nothing is left
\* of its tab's gap.
LEMMA OnlyStampStarts ==
  ASSUME GovernanceInv, Next,
         NEW r \in Slots, req[r] # Free, req[r].stage = "sleeping",
         req'[r] # Free, req'[r].stage = "starting"
  PROVE  rest[req[r].tab] = 0
<1> USE TypeParts DEF GovernanceInv
<1>1. req[r] \in Requests /\ req[r].tab \in Tabs
  BY DEF RequestsTyped, Requests
<1>2. req'[r] # req[r]
  OBVIOUS
<1>3. ASSUME NEW t \in Tabs, NEW k \in Keys, NEW mark \in {"no", "alone", "disturbed"}, Send(t, k, mark)
      PROVE  FALSE
  BY <1>3, SendChangesOne
<1>4. ASSUME NEW t \in Tabs, NEW k \in Keys, Call(t, k)
      PROVE  FALSE
  <2>1. CASE Paused(t) \/ BackedOff(t) \/ WouldProbe(t, k)
    BY <1>2, <2>1 DEF Paused, BackedOff, WouldProbe
  <2>2. CASE Admitted(t, k)
    BY <1>3, <2>2 DEF Admitted
  <2>3. QED
    BY <1>4, <2>1, <2>2 DEF Call
<1>5. ASSUME NEW s \in Slots, Sleep(s, TRUE) \/ Sleep(s, FALSE)
      PROVE  FALSE
  <2>1. req'[r] = req[r] \/ req'[r].stage = "sleeping"
    <3>1. PICK known, locked : req' = [req EXCEPT ![s] =
                                  [@ EXCEPT !.stage = "sleeping", !.wait = known.gap, !.locked = locked]]
      BY <1>5 DEF Sleep
    <3>2. CASE s = r
      BY <1>1, <3>1, <3>2 DEF RequestsTyped, Requests
    <3>3. CASE s # r
      BY <3>1, <3>3 DEF RequestsTyped
    <3>4. QED
      BY <3>2, <3>3
  <2>2. QED
    BY <1>2, <2>1
<1>6. ASSUME NEW t \in Tabs, TryStep(t)
      PROVE  FALSE
  <2>1. CASE WritesLock(t) \/ ProbeLost(t) \/ SpacingLost(t)
    BY <1>2, <2>1 DEF WritesLock, ProbeLost, SpacingLost
  <2>2. CASE AdmittedAsProbe(t)
    <3>1. trying[t].caller \in Keys
      BY <2>2 DEF AdmittedAsProbe, Confirms, Idle, TriesToProbe, ProbeHolds
    <3>2. QED
      BY <1>3, <2>2, <3>1 DEF AdmittedAsProbe
  <2>3. CASE LockSpacing(t)
    <3>1. trying[t].caller \in Slots
      BY <2>3 DEF LockSpacing, Confirms, Idle, SpacingTries
    <3>2. QED
      BY <1>5, <2>3, <3>1 DEF LockSpacing
  <2>4. QED
    BY <1>6, <2>1, <2>2, <2>3 DEF TryStep
<1>7. ASSUME NEW s \in Slots, Finish(s)
      PROVE  FALSE
  <2>1. req[s] # Free /\ Leave(s)
    BY <1>7 DEF Finish, Fails, Disabled, Succeeds, Waits
  <2>2. QED
    BY <2>1, LeaveFrees
<1>8. ASSUME NEW s \in Slots, TakeTurn(s) \/ PollSpacing(s) \/ LockTimesOut(s) \/ Depart(s)
      PROVE  FALSE
  <2>1. CASE TakeTurn(s)
    <3>1. req[s].stage = "queued" /\ \A q \in Slots \ {s} : req'[q] = req[q]
      BY <2>1 DEF TakeTurn, Waits, Locking, RequestsTyped
    <3>2. QED
      BY <1>2, <3>1
  <2>2. CASE PollSpacing(s)
    BY <1>2, <2>2 DEF PollSpacing
  <2>3. CASE LockTimesOut(s)
    BY <1>5, <2>3 DEF LockTimesOut
  <2>4. CASE Depart(s)
    <3>1. req[s].stage = "starting" /\ \A q \in Slots \ {s} : req'[q] = req[q]
      BY <2>4 DEF Depart, Waits, RequestsTyped
    <3>2. QED
      BY <1>2, <3>1
  <2>5. QED
    BY <1>8, <2>1, <2>2, <2>3, <2>4
<1>9. ASSUME NEW s \in Slots, Stamp(s)
      PROVE  rest[req[r].tab] = 0
  <2>1. s = r
    BY <1>2, <1>9 DEF Stamp, RequestsTyped
  <2>2. req[r].wait = 0 /\ rest[req[r].tab] \in Nat
    BY <1>1, <1>9, <2>1, TimesAre DEF Stamp
  <2>3. QED
    BY <2>2 DEF Spaced
<1>10. ASSUME NEW t \in Tabs, CloseTab(t)
       PROVE  FALSE
  BY <1>2, <1>10 DEF CloseTab
<1>11. ASSUME Tick
       PROVE  FALSE
  <2>1. req'[r] = [req[r] EXCEPT !.wait = Less(@),
                      !.probe = IF @ = "alone" /\ lock["probe"].left <= 1 THEN "disturbed" ELSE @]
    BY <1>11 DEF Tick
  <2>2. req'[r].stage = req[r].stage
    BY <1>1, <2>1 DEF Requests
  <2>3. QED
    BY <2>2
<1>12. QED
  BY <1>4, <1>6, <1>7, <1>8, <1>9, <1>10, <1>11 DEF Next, Step

\* The start times of a tab's requests are at least the bucket's gap apart,
\* however many wait and whether or not they got the lock.
THEOREM RequestsAreSpaced == Spec => TabSpacing
<1> DEFINE Spacing ==
      \A r \in Slots :
        req[r] # Free /\ req[r].stage = "sleeping" /\ req'[r] # Free /\ req'[r].stage = "starting"
          => rest[req[r].tab] = 0
<1>1. GovernanceInv /\ [Next]_vars => [Spacing]_vars
  BY OnlyStampStarts
<1>2. QED
  BY <1>1, Governed, PTL DEF Spec, TabSpacing
=============================================================================
