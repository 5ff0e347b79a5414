--------------------------- MODULE RetryClient_proofs ---------------------------
(***************************************************************************)
(* For every retry policy and restart window: run_with_retry drives the    *)
(* breaker as CircuitBreaker's one caller does, so what is proved of the   *)
(* breaker there holds of every client.                                    *)
(***************************************************************************)
EXTENDS RetryClient, WellFoundedInduction, TLAPS

\* The proofs about the breaker, for the breaker of this client.
Guarded == INSTANCE CircuitBreaker_proofs WITH
  inFlight <- IF pc = "wire" THEN 1 ELSE 0

\* A client starts with its breaker's initial state.
LEMMA InitUsesBreaker == Init => Breaker!Init
BY DEF Init, Breaker!Init

\* Each step of the client is a step of the breaker, or leaves it alone.
LEMMA StepUsesBreaker == [Next]_vars => [Breaker!Next]_(Breaker!cbVars)
<1> SUFFICES ASSUME [Next]_vars PROVE [Breaker!Next]_(Breaker!cbVars)
  OBVIOUS
<1> USE DEF breakerVars, Breaker!Next, Breaker!cbVars
<1>1. CASE Request
  BY <1>1 DEF Request
<1>2. CASE Send
  BY <1>2 DEF Send, Breaker!AllowCall
<1>3. CASE ShortCircuit
  BY <1>3 DEF ShortCircuit, Breaker!Deny, Breaker!breakerVars
<1>4. CASE Reply
  BY <1>4 DEF Reply, Breaker!CallSucceeds
<1>5. CASE GiveUp
  BY <1>5 DEF GiveUp, CallLost, Breaker!CallFails
<1>6. CASE BackOff
  BY <1>6 DEF BackOff, CallLost, Breaker!CallFails
<1>7. CASE Wake
  BY <1>7 DEF Wake
<1>8. CASE Kill \/ Restart \/ SlowDown \/ SpeedUp
  BY <1>8 DEF Kill, Restart, SlowDown, SpeedUp
<1>9. CASE Tick
  BY <1>9 DEF Tick, Breaker!Tick
<1>10. CASE UNCHANGED vars
  BY <1>10 DEF vars
<1> QED
  BY <1>1, <1>2, <1>3, <1>4, <1>5, <1>6, <1>7, <1>8, <1>9, <1>10 DEF Next, Client

\* Every call on the wire was allowed by the breaker and reports its outcome
\* exactly once, a backoff or a restart of the server notwithstanding.
THEOREM ClientUsesBreaker == Spec => UsesBreaker
BY InitUsesBreaker, StepUsesBreaker, PTL DEF Spec, UsesBreaker, Breaker!Spec

\* The breaker's instances in the model and in the proofs are one.
LEMMA SpecUsesBreaker == Spec => Guarded!Spec
<1>1. Init => Guarded!Init
  BY InitUsesBreaker
     DEF Breaker!Init, Guarded!Init, Breaker!BreakerInit, Guarded!BreakerInit
<1>2. [Next]_vars => [Guarded!Next]_(Guarded!cbVars)
  BY StepUsesBreaker
     DEF Breaker!Next, Guarded!Next, Breaker!cbVars, Guarded!cbVars,
         Breaker!breakerVars, Guarded!breakerVars, Breaker!Disabled, Guarded!Disabled,
         Breaker!WindowElapsed, Guarded!WindowElapsed,
         Breaker!AllowCall, Guarded!AllowCall, Breaker!Allow, Guarded!Allow,
         Breaker!CallSucceeds, Guarded!CallSucceeds,
         Breaker!RecordSuccess, Guarded!RecordSuccess,
         Breaker!CloseCircuit, Guarded!CloseCircuit,
         Breaker!CallFails, Guarded!CallFails, Breaker!RecordFailure, Guarded!RecordFailure,
         Breaker!FailAt, Guarded!FailAt, Breaker!Tick, Guarded!Tick, Breaker!Elapse, Guarded!Elapse
<1> QED
  BY <1>1, <1>2, PTL DEF Spec, Guarded!Spec

\* What those proofs assume of the breaker's constants.
LEMMA BreakerIsConfigured == Guarded!BreakerConfig
BY PolicyIsSane DEF PolicyIsSane, Guarded!BreakerConfig

\* In front of every request, whatever the server, the backoffs and the restarts
\* do: the breaker's counters agree with its modes, an open circuit has nothing
\* on the wire, and a half-open one is never left without its probe.
THEOREM BreakerStaysConsistent ==
  Spec => [](Breaker!ModesAgreeWithCounters /\ Breaker!OneProbeAtATime)
<1>1. Guarded!ModesAgreeWithCounters /\ Guarded!OneProbeAtATime
        => Breaker!ModesAgreeWithCounters /\ Breaker!OneProbeAtATime
  BY DEF Guarded!ModesAgreeWithCounters, Breaker!ModesAgreeWithCounters,
         Guarded!OneProbeAtATime, Breaker!OneProbeAtATime, Guarded!Disabled, Breaker!Disabled
<1> QED
  BY <1>1, SpecUsesBreaker, BreakerIsConfigured, Guarded!CountersAgree, Guarded!SingleProbe, PTL

-------------------------------------------------------------------------------
(* A policy rides out a restart when its shortest sleeps add up to more than *)
(* the restart takes.  Floor[a] bounds from below the sum of the sleeps      *)
(* before attempt a, whatever the jitter.                                    *)

IsFloor(Floor) ==
  /\ Floor \in [0 .. Total - 1 -> Nat]
  /\ Floor[0] = 0
  /\ \A a \in 0 .. Total - 2 : \A sleep \in Jittered(a) :
       Floor[a + 1] <= Floor[a] + sleep

\* What the argument needs of the types.
Ranges ==
  /\ pc \in {"idle", "ask", "wire", "sleep"} /\ server \in {"up", "down", "slow"}
  /\ attempt \in 0 .. Total - 1 /\ (pc = "sleep" => attempt < Total - 1)
  /\ timer \in Int /\ downFor \in 0 .. RestartWindow
  /\ disturbances \in 0 .. 2

\* A request that met nothing has not failed an attempt; one that met a single
\* outage has slept through as much of it as its failed attempts made it.
SleptThrough(Floor) ==
  /\ disturbances = 0 => server = "up"
  /\ disturbances = 0 /\ pc # "idle" =>
       attempt = 0 /\ pc # "sleep" /\ (pc = "wire" => ~broken)
  /\ disturbances = 1 =>
       /\ server # "slow"
       /\ pc = "wire" /\ broken => attempt = 0
       /\ server = "down" /\ pc \in {"ask", "wire"} => downFor >= Floor[attempt]
       /\ server = "down" /\ pc = "sleep" => downFor + timer >= Floor[attempt + 1]

RidesInv(Floor) == Ranges /\ SleptThrough(Floor) /\ RidesOutOneRestart

\* There is at least one attempt.
LEMMA TotalPositive == Total \in Nat /\ Total >= 1
BY PolicyIsSane DEF PolicyIsSane, Total

\* Each step keeps what an attempt knows of the outage it met.
LEMMA StepRides ==
  ASSUME NEW Floor, IsFloor(Floor), Floor[Total - 1] > RestartWindow,
         RidesInv(Floor), [Next]_vars
  PROVE  RidesInv(Floor)'
<1> USE TotalPositive, PolicyIsSane
    DEF PolicyIsSane, IsFloor, RidesInv, Ranges, SleptThrough, RidesOutOneRestart,
        serverVars
<1>1. CASE Request
  <2>1. /\ pc' = "ask" /\ attempt' = 0 /\ result' # "no_reply"
        /\ timer' = timer /\ server' = server /\ downFor' = downFor
        /\ disturbances' = CASE server = "up" -> 0 [] server = "down" -> 1 [] OTHER -> 2
    BY <1>1 DEF Request
  <2>2. Ranges' /\ RidesOutOneRestart'
    BY <2>1
  <2>3. 0 \in 0 .. Total - 1 /\ Floor[0] = 0
    OBVIOUS
  <2>4. SleptThrough(Floor)'
    <3> HIDE DEF IsFloor, RidesOutOneRestart
    <3> QED
      BY <2>1, <2>3
  <2> QED
    BY <2>2, <2>4
<1>2. CASE Send
  BY <1>2 DEF Send
<1>3. CASE ShortCircuit
  BY <1>3 DEF ShortCircuit
<1>4. CASE Reply
  <2>1. /\ pc' = "idle" /\ server' = server /\ downFor' = downFor /\ attempt' = attempt
        /\ timer' = timer /\ disturbances' = disturbances
        /\ result' = "reply"
    BY <1>4 DEF Reply
  <2> QED
    BY <2>1
<1>5. CASE GiveUp
  BY <1>5 DEF GiveUp, CallLost
<1>6. CASE BackOff
  <2>1. timer' \in Jittered(attempt) /\ timer' \in Int
    BY <1>6 DEF BackOff, Jittered
  <2>2. attempt \in 0 .. Total - 2 /\ Floor[attempt] \in Nat /\ Floor[attempt + 1] \in Nat
    BY <1>6 DEF BackOff
  <2>3. Floor[attempt + 1] <= Floor[attempt] + timer'
    BY <2>1, <2>2
  <2> QED
    <3>1. /\ pc = "wire" /\ pc' = "sleep" /\ attempt < Total - 1 /\ (server # "up" \/ broken)
          /\ UNCHANGED <<attempt, result, server, downFor, broken, disturbances, denied>>
      BY <1>6 DEF BackOff, CallLost
    <3>2. Ranges'
      BY <3>1, <2>1
    <3>3. SleptThrough(Floor)' /\ RidesOutOneRestart'
      <4> HIDE DEF IsFloor
      <4> QED
        BY <3>1, <2>1, <2>2, <2>3
    <3> QED
      BY <3>2, <3>3
<1>7. CASE Wake
  BY <1>7 DEF Wake
<1>8. CASE Kill
  BY <1>8 DEF Kill, Met
<1>9. CASE Restart
  BY <1>9 DEF Restart
<1>10. CASE SlowDown
  BY <1>10 DEF SlowDown, Met
<1>11. CASE SpeedUp
  BY <1>11 DEF SpeedUp
<1>12. CASE Tick
  <2>1. Floor[attempt] \in Nat /\ (pc = "sleep" => Floor[attempt + 1] \in Nat)
    OBVIOUS
  <2>2. Ranges'
    BY <1>12 DEF Tick
  <2>3. SleptThrough(Floor)' /\ RidesOutOneRestart'
    BY <1>12, <2>1 DEF Tick
  <2> QED
    BY <2>2, <2>3
<1>13. CASE UNCHANGED vars
  BY <1>13 DEF vars
<1> QED
  BY <1>1, <1>2, <1>3, <1>4, <1>5, <1>6, <1>7, <1>8, <1>9, <1>10, <1>11, <1>12, <1>13
     DEF Next, Client

\* With any floor that exceeds the longest outage, no outage is seen.
LEMMA FloorRidesOut ==
  ASSUME NEW Floor, IsFloor(Floor), Floor[Total - 1] > RestartWindow
  PROVE  Spec => []RidesOutOneRestart
<1>1. Init => RidesInv(Floor)
  BY TotalPositive, PolicyIsSane DEF PolicyIsSane, Init, RidesInv, Ranges, SleptThrough, RidesOutOneRestart
<1>2. RidesInv(Floor) /\ [Next]_vars => RidesInv(Floor)'
  BY StepRides
<1>3. RidesInv(Floor) => RidesOutOneRestart
  BY DEF RidesInv
<1> QED
  BY <1>1, <1>2, <1>3, PTL DEF Spec

-------------------------------------------------------------------------------
(* Functions that are defined by recursion over the natural numbers exist.   *)

\* A set of natural numbers has a least one.
LEMMA Least ==
  ASSUME NEW T, T \subseteq Nat, T # {}
  PROVE  \E n \in T : \A m \in T : n <= m
<1>1. PICK n \in T : \A m \in T : ~(<<m, n>> \in OpToRel(<, Nat))
  BY NatLessThanWellFounded, WFMin, Zenon
<1>2. \A m \in T : ~(m < n)
  BY <1>1 DEF OpToRel
<1> QED
  BY <1>2

\* f follows the steps of step, from start on, up to n.
Follows(f, n, start, step, V) ==
  /\ f \in [0 .. n -> V] /\ f[0] = start
  /\ \A k \in 0 .. n - 1 : f[k + 1] = step[k][f[k]]

FollowsForever(f, start, step, V) ==
  f \in [Nat -> V] /\ f[0] = start /\ \A k \in Nat : f[k + 1] = step[k][f[k]]

\* There is a function that follows them for all natural numbers.
LEMMA RecursionExists ==
  ASSUME NEW V, NEW start \in V, NEW step \in [Nat -> [V -> V]]
  PROVE  \E f : FollowsForever(f, start, step, V)
<1> DEFINE F(f, n) == Follows(f, n, start, step, V)
<1>1. \A n \in Nat : \E f : F(f, n)
  <2> DEFINE T == {n \in Nat : ~ \E f : F(f, n)}
  <2> SUFFICES ASSUME T # {} PROVE FALSE
    OBVIOUS
  <2>1. PICK n \in T : \A m \in T : n <= m
    <3> HIDE DEF T
    <3> T \subseteq Nat
      BY DEF T
    <3> QED
      BY Least
  <2>2. n # 0
    <3>1. F([k \in 0 .. 0 |-> start], 0)
      BY DEF Follows
    <3> QED
      BY <3>1
  <2>3. PICK f : F(f, n - 1)
    <3> HIDE DEF F
    <3> n - 1 \in Nat /\ ~(n <= n - 1)
      BY <2>1, <2>2
    <3> QED
      BY <2>1
  <2> DEFINE g == [k \in 0 .. n |-> IF k = n THEN step[n - 1][f[n - 1]] ELSE f[k]]
  <2>4. F(g, n)
    BY <2>1, <2>2, <2>3 DEF Follows
  <2> QED
    BY <2>4
<1>2. ASSUME NEW n \in Nat, NEW m \in Nat, n <= m, NEW f, NEW g, F(f, n), F(g, m)
      PROVE  f[n] = g[n]
  <2> DEFINE T == {k \in 0 .. n : f[k] # g[k]}
  <2> SUFFICES ASSUME T # {} PROVE FALSE
    OBVIOUS
  <2>1. PICK k \in T : \A j \in T : k <= j
    <3> HIDE DEF T
    <3> T \subseteq Nat
      BY DEF T
    <3> QED
      BY Least
  <2>2. k # 0
    BY <1>2, <2>1 DEF Follows
  <2>3. k - 1 \in 0 .. n /\ f[k - 1] = g[k - 1]
    BY <2>1, <2>2
  <2>4. f[(k - 1) + 1] = step[k - 1][f[k - 1]] /\ g[(k - 1) + 1] = step[k - 1][g[k - 1]]
    BY <1>2, <2>1, <2>2 DEF Follows
  <2> QED
    BY <2>1, <2>3, <2>4
<1> DEFINE of(n) == CHOOSE f : F(f, n)
           whole == [n \in Nat |-> of(n)[n]]
<1>3. \A n \in Nat : F(of(n), n)
  <2> HIDE DEF F
  <2> QED
    BY <1>1
<1>4. \A n \in Nat : whole[n] \in V
  <2> SUFFICES ASSUME NEW n \in Nat PROVE of(n)[n] \in V
    OBVIOUS
  <2> HIDE DEF of
  <2> QED
    BY <1>3 DEF Follows
<1>5. whole[0] = start
  BY <1>3 DEF Follows
<1>6. ASSUME NEW k \in Nat PROVE whole[k + 1] = step[k][whole[k]]
  <2> HIDE DEF of
  <2>1. F(of(k + 1), k + 1) /\ F(of(k), k)
    BY <1>3
  <2>2. of(k)[k] = of(k + 1)[k]
    <3> HIDE DEF F
    <3> QED
      BY <1>2, <2>1
  <2>3. of(k + 1)[k + 1] = step[k][of(k + 1)[k]]
    BY <2>1 DEF Follows
  <2> QED
    BY <2>2, <2>3
<1> QED
  <2> HIDE DEF whole
  <2>1. whole \in [Nat -> V]
    BY <1>4 DEF whole
  <2>2. FollowsForever(whole, start, step, V)
    BY <1>5, <1>6, <2>1 DEF FollowsForever
  <2> QED
    BY <2>2
\* What holds at the start and is kept by every step always holds.
LEMMA StaysIn ==
  ASSUME NEW V, NEW f, f[0] \in V, \A k \in Nat : f[k] \in V => f[k + 1] \in V
  PROVE  \A k \in Nat : f[k] \in V
<1> DEFINE T == {k \in Nat : f[k] \notin V}
<1> SUFFICES ASSUME T # {} PROVE FALSE
  OBVIOUS
<1>1. PICK k \in T : \A j \in T : k <= j
  <2> HIDE DEF T
  <2> T \subseteq Nat
    BY DEF T
  <2> QED
    BY Least
<1>2. k \in Nat /\ k # 0 /\ k - 1 \in Nat /\ (k - 1) + 1 = k /\ ~(k <= k - 1)
  BY <1>1
<1>3. f[k - 1] \in V
  BY <1>1, <1>2
<1> QED
  BY <1>1, <1>2, <1>3

\* The delay before the jitter is a natural number at every attempt.
LEMMA GrownMeans ==
  /\ Grown \in [Nat -> Nat] /\ Grown[0] = BaseDelay
  /\ \A a \in Nat : Grown[a + 1] = Grown[a] * BackoffMult
<1> DEFINE times == [a \in Nat |-> [d \in Nat |-> d * BackoffMult]]
<1>1. times \in [Nat -> [Nat -> Nat]] /\ BaseDelay \in Nat
  BY PolicyIsSane DEF PolicyIsSane
<1>2. \E g : FollowsForever(g, BaseDelay, times, Nat)
  <2> HIDE DEF times
  <2> QED
    BY <1>1, RecursionExists
<1>3. PICK g \in [Nat -> Nat] : g[0] = BaseDelay /\ \A a \in Nat : g[a + 1] = g[a] * BackoffMult
  BY <1>2 DEF FollowsForever
<1>4. g = [a \in Nat |-> IF a = 0 THEN BaseDelay ELSE g[a - 1] * BackoffMult]
  <2> SUFFICES ASSUME NEW a \in Nat, a # 0 PROVE g[a] = g[a - 1] * BackoffMult
    BY <1>3
  <2>1. a - 1 \in Nat /\ (a - 1) + 1 = a /\ g[a - 1] \in Nat
    OBVIOUS
  <2> QED
    BY <1>3, <2>1
<1>5. Grown = [a \in Nat |-> IF a = 0 THEN BaseDelay ELSE Grown[a - 1] * BackoffMult]
  BY <1>4 DEF Grown
<1>6. Grown[0] = BaseDelay /\ \A a \in Nat : Grown[a + 1] = Grown[a] * BackoffMult
  <2> HIDE DEF Grown
  <2> QED
    BY <1>5
<1>7. \A a \in Nat : Grown[a] \in Nat
  <2> HIDE DEF Grown
  <2>1. \A a \in Nat : Grown[a] \in Nat => Grown[a + 1] \in Nat
    BY <1>1, <1>6, PolicyIsSane DEF PolicyIsSane
  <2> QED
    BY <1>1, <1>6, <2>1, StaysIn
<1> QED
  BY <1>5, <1>6, <1>7

-------------------------------------------------------------------------------
(* The sum of the shortest sleeps before an attempt.                         *)

Shortest[a \in Nat] == IF a = 0 THEN 0 ELSE Shortest[a - 1] + (Nominal(a - 1) \div 2)

LEMMA NominalIsNat == \A a \in Nat : Nominal(a) \in Nat /\ Nominal(a) \div 2 \in Nat
<1> SUFFICES ASSUME NEW a \in Nat PROVE Nominal(a) \in Nat /\ Nominal(a) \div 2 \in Nat
  OBVIOUS
<1>1. Grown[a] \in Nat /\ MaxDelay \in Nat
  BY GrownMeans, PolicyIsSane DEF PolicyIsSane
<1>2. Nominal(a) \in Nat
  BY <1>1 DEF Nominal
<1> QED
  BY <1>2

\* The sums exist, and each sleep adds to them.
LEMMA ShortestMeans ==
  /\ Shortest \in [Nat -> Nat] /\ Shortest[0] = 0
  /\ \A a \in Nat : Shortest[a + 1] = Shortest[a] + (Nominal(a) \div 2)
<1> DEFINE plus == [a \in Nat |-> [d \in Nat |-> d + (Nominal(a) \div 2)]]
<1>1. plus \in [Nat -> [Nat -> Nat]]
  BY NominalIsNat
<1>2. \E g : FollowsForever(g, 0, plus, Nat)
  <2> HIDE DEF plus
  <2> QED
    BY <1>1, RecursionExists
<1>3. PICK g \in [Nat -> Nat] : g[0] = 0 /\ \A a \in Nat : g[a + 1] = g[a] + (Nominal(a) \div 2)
  BY <1>2 DEF FollowsForever
<1>4. g = [a \in Nat |-> IF a = 0 THEN 0 ELSE g[a - 1] + (Nominal(a - 1) \div 2)]
  <2> SUFFICES ASSUME NEW a \in Nat, a # 0 PROVE g[a] = g[a - 1] + (Nominal(a - 1) \div 2)
    BY <1>3
  <2>1. a - 1 \in Nat /\ (a - 1) + 1 = a /\ g[a - 1] \in Nat
    OBVIOUS
  <2> QED
    BY <1>3, <2>1
<1>5. Shortest = [a \in Nat |-> IF a = 0 THEN 0 ELSE Shortest[a - 1] + (Nominal(a - 1) \div 2)]
  BY <1>4 DEF Shortest
<1>6. Shortest[0] = 0 /\ \A a \in Nat : Shortest[a + 1] = Shortest[a] + (Nominal(a) \div 2)
  <2> HIDE DEF Shortest
  <2> QED
    BY <1>5
<1>7. \A a \in Nat : Shortest[a] \in Nat
  <2> HIDE DEF Shortest
  <2>1. ASSUME NEW a \in Nat, Shortest[a] \in Nat PROVE Shortest[a + 1] \in Nat
    <3>1. Nominal(a) \div 2 \in Nat
      BY NominalIsNat, Zenon
    <3>2. Shortest[a + 1] = Shortest[a] + (Nominal(a) \div 2)
      BY <1>6, Zenon
    <3> QED
      BY <2>1, <3>1, <3>2
  <2> QED
    BY <1>6, <2>1, StaysIn
<1> QED
  BY <1>5, <1>6, <1>7

\* A request that met a single outage, and was not refused by the breaker,
\* comes back with a reply, whenever the shortest sleeps of its policy add up
\* to more than the longest outage.
THEOREM OneRestartIsRiddenOut ==
  ASSUME Shortest[Total - 1] > RestartWindow
  PROVE  Spec => []RidesOutOneRestart
<1> DEFINE Floor == [a \in 0 .. Total - 1 |-> Shortest[a]]
<1>1. Floor \in [0 .. Total - 1 -> Nat] /\ Floor[0] = 0 /\ Floor[Total - 1] = Shortest[Total - 1]
  BY ShortestMeans, TotalPositive
<1>2. ASSUME NEW a \in 0 .. Total - 2, NEW sleep \in Jittered(a)
      PROVE  Floor[a + 1] <= Floor[a] + sleep
  <2>1. a \in Nat /\ a \in 0 .. Total - 1 /\ a + 1 \in 0 .. Total - 1
    BY TotalPositive
  <2>2. sleep \in Int /\ Nominal(a) \div 2 <= sleep
    BY <2>1, NominalIsNat DEF Jittered
  <2>3. Floor[a] = Shortest[a] /\ Floor[a + 1] = Shortest[a] + (Nominal(a) \div 2) /\ Shortest[a] \in Nat
    BY <2>1, ShortestMeans
  <2> QED
    BY <2>1, <2>2, <2>3, NominalIsNat
<1>3. IsFloor(Floor)
  <2> HIDE DEF Floor
  <2> QED
    BY <1>1, <1>2 DEF IsFloor
<1>4. Floor[Total - 1] > RestartWindow
  BY <1>1
<1> QED
  <2> HIDE DEF Floor
  <2> QED
    BY <1>3, <1>4, FloorRidesOut

-------------------------------------------------------------------------------
(* The types of the retry loop.                                            *)

LongestSleep == (3 * MaxDelay) \div 2

LoopTypeOK ==
  /\ Ranges /\ timer \in 0 .. LongestSleep
  /\ result \in {"none", "reply", "no_reply"} /\ broken \in BOOLEAN /\ denied \in BOOLEAN

\* No sleep is longer than one and a half times the cap.
LEMMA SleepsAreCapped ==
  ASSUME NEW a \in 0 .. Total - 1, NEW sleep \in Jittered(a)
  PROVE  sleep \in 0 .. LongestSleep
<1>1. Grown[a] \in Nat /\ MaxDelay \in Nat
  BY GrownMeans, PolicyIsSane, TotalPositive DEF PolicyIsSane
<1>2. Nominal(a) \in 0 .. MaxDelay
  BY <1>1 DEF Nominal
<1> QED
  BY <1>1, <1>2 DEF Jittered, LongestSleep

\* The loop counts its attempts, and sleeps only before another one.
LEMMA StepLoopTypeOK == LoopTypeOK /\ [Next]_vars => LoopTypeOK'
<1> SUFFICES ASSUME LoopTypeOK, [Next]_vars PROVE LoopTypeOK'
  OBVIOUS
<1> LongestSleep \in Nat /\ timer \in 0 .. LongestSleep
  BY PolicyIsSane DEF PolicyIsSane, LongestSleep, LoopTypeOK
<1>1. CASE Request
  <2>1. pc' = "ask" /\ attempt' = 0 /\ result' = "none" /\ denied' = FALSE
        /\ UNCHANGED <<timer, server, downFor, broken>>
    BY <1>1 DEF Request, serverVars
  <2>2. disturbances' \in 0 .. 2
    <3>1. CASE server = "up"
      BY <1>1, <3>1 DEF Request
    <3>2. CASE server = "down"
      BY <1>1, <3>2 DEF Request
    <3>3. CASE server = "slow"
      BY <1>1, <3>3 DEF Request
    <3> QED
      BY <3>1, <3>2, <3>3 DEF LoopTypeOK, Ranges
  <2>3. 0 \in 0 .. Total - 1 /\ timer' \in 0 .. LongestSleep
    BY <2>1, TotalPositive
  <2>4. Ranges'
    BY <2>1, <2>2, <2>3 DEF LoopTypeOK, Ranges
  <2> QED
    BY <2>1, <2>3, <2>4 DEF LoopTypeOK
<1>10. CASE Tick
  <2>1. timer' \in 0 .. LongestSleep
    BY <1>10 DEF Tick
  <2>2. Ranges'
    BY <1>10, PolicyIsSane, TotalPositive DEF PolicyIsSane, LoopTypeOK, Ranges, Tick
  <2> QED
    BY <1>10, <2>1, <2>2 DEF LoopTypeOK, Tick
<1> USE TotalPositive, PolicyIsSane DEF PolicyIsSane, LoopTypeOK, Ranges, serverVars
<1>2. CASE Send
  BY <1>2 DEF Send
<1>3. CASE ShortCircuit
  BY <1>3 DEF ShortCircuit
<1>4. CASE Reply
  BY <1>4 DEF Reply
<1>5. CASE GiveUp
  BY <1>5 DEF GiveUp, CallLost
<1>6. CASE BackOff
  <2>1. timer' \in 0 .. LongestSleep
    BY <1>6, SleepsAreCapped DEF BackOff
  <2> QED
    BY <1>6, <2>1 DEF BackOff, CallLost
<1>7. CASE Wake
  BY <1>7 DEF Wake
<1>8. CASE Kill
  BY <1>8 DEF Kill, Met
<1>9. CASE Restart \/ SlowDown \/ SpeedUp
  BY <1>9 DEF Restart, SlowDown, SpeedUp, Met
<1>11. CASE UNCHANGED vars
  BY <1>11 DEF vars
<1> QED
  BY <1>1, <1>2, <1>3, <1>4, <1>5, <1>6, <1>7, <1>8, <1>9, <1>10, <1>11 DEF Next, Client

\* The variables of the client keep their types, under any policy: no attempt
\* beyond max(1, max_retries + 1), no sleep beyond the cap and its jitter.
THEOREM TypeCorrect == Spec => []TypeOK
<1>1. Init => LoopTypeOK
  <2>1. LongestSleep \in Nat
    BY PolicyIsSane DEF PolicyIsSane, LongestSleep
  <2>2. Init => timer \in 0 .. LongestSleep /\ attempt \in 0 .. Total - 1 /\ downFor \in 0 .. RestartWindow
    BY <2>1, TotalPositive, PolicyIsSane DEF PolicyIsSane, Init
  <2>3. Init => Ranges
    BY <2>2 DEF Init, Ranges
  <2> QED
    BY <2>2, <2>3 DEF Init, LoopTypeOK
<1>2. LoopTypeOK /\ [Next]_vars => LoopTypeOK'
  BY StepLoopTypeOK
<1>3. LoopTypeOK /\ Guarded!TypeOK => TypeOK
  BY DEF LoopTypeOK, LongestSleep, Ranges, TypeOK, Guarded!TypeOK, Breaker!TypeOK,
         Guarded!BreakerState, Breaker!BreakerState, Guarded!Disabled, Breaker!Disabled
<1> QED
  BY <1>1, <1>2, <1>3, SpecUsesBreaker, BreakerIsConfigured, Guarded!TypeCorrect, PTL DEF Spec
===============================================================================
