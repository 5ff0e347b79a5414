-------------------------- MODULE ChaosSession_proofs --------------------------
(***************************************************************************)
(* For any number of tests, faults, retries and queued requests: no fault  *)
(* is left behind without a lost reply to explain it, an answered DELETE   *)
(* is final, and the log misses an injection only with its reply.          *)
(***************************************************************************)
EXTENDS ChaosSession, FiniteSetTheorems, TLAPS

USE SessionConstants DEF SessionConstants

\* The call under way is one that the current part of the test makes.
CallFits ==
  phase # "none" =>
    /\ call.op = "health" => pc = "setup"
    /\ call.op = "inject" => pc = "body" /\ call.via = plan
    /\ call.op = "remove" => pc = "body" /\ call.id \in held
    /\ call.op = "cleanup" => pc = "teardown" /\ call.id \in tracked

\* The body's variables are empty outside the body; TearDown belongs to the
\* fixture that tracks; an api test holds nothing until its only injection is
\* over.
HoldsAsPlanned ==
  /\ pc # "body" => held = {}
  /\ pc = "teardown" => Tracks(plan)
  /\ ~Tracks(plan) =>
       /\ pc \in {"setup", "body"} => left <= 1
       /\ left = 1 => held = {}
       /\ phase # "none" /\ call.op = "inject" => held = {} /\ left = 0

\* Ids come from the server.
KnownIds == held \cup tracked \cup confirmed \cup IdsOf(faults) \subseteq IdsOf(created)

IInv ==
  /\ TypeOK /\ CallFits /\ HoldsAsPlanned /\ KnownIds
  /\ NoSilentLeak /\ AnsweredDeleteIsFinal /\ LoggedUnlessLost

\* At the start no fault exists and no call is under way.
LEMMA InitIInv == Init => IInv
BY DEF Init, IInv, TypeOK, CallFits, HoldsAsPlanned, KnownIds, NoSilentLeak,
       AnsweredDeleteIsFinal, LoggedUnlessLost, NoCall, Call, Fault, FaultType, Plan,
       Tracks, IdsOf, Total

\* Each step of test, client and server keeps the invariant.
LEMMA StepIInv == IInv /\ [Next]_vars => IInv'
<1> SUFFICES ASSUME IInv, [Next]_vars PROVE IInv'
  OBVIOUS
<1> USE DEF IInv, TypeOK, CallFits, HoldsAsPlanned, KnownIds, NoSilentLeak, ToBeDeleted,
            AnsweredDeleteIsFinal, LoggedUnlessLost, Call, Fault, FaultType, Plan,
            Tracks, Logs, IdsOf, Total, serverVars, clientVars, testVars, ledgerVars
<1>1. ASSUME NEW p \in Plan, NEW n \in 1 .. MaxFaults, SetUp(p, n) PROVE IInv'
  BY <1>1 DEF SetUp, StartCall
<1>2. ASSUME NEW type \in FaultType, Inject(type) PROVE IInv'
  BY <1>2 DEF Inject, StartCall
<1>3. ASSUME NEW id \in Id, Remove(id) PROVE IInv'
  BY <1>3 DEF Remove, StartCall
<1>4. ASSUME NEW id \in Id, CleanUp(id) PROVE IInv'
  BY <1>4 DEF CleanUp, StartCall
<1>5. ASSUME Abort PROVE IInv'
  BY <1>5 DEF Abort
<1>6. ASSUME LeaveBody PROVE IInv'
  BY <1>6 DEF LeaveBody
<1>7. ASSUME EndTest PROVE IInv'
  BY <1>7 DEF EndTest
<1>8. ASSUME Send PROVE IInv'
  BY <1>8 DEF Send
<1>9. ASSUME Retry PROVE IInv'
  BY <1>9 DEF Retry
<1>10. ASSUME GiveUp PROVE IInv'
  BY <1>10 DEF GiveUp, HealthDone, InjectFailed, DeleteDone, RemoveDone, CleanUpDone, EndCall, NoCall
<1>11. ASSUME NEW r \in inbox, NEW id \in Id, ServeInject(r, id) PROVE IInv'
  <2> DEFINE fault == [id |-> id, type |-> r.call.type, by |-> r.call.no, via |-> r.call.via]
  <2>1. /\ fault \in Fault /\ fault.id = id /\ fault.via = r.call.via
        /\ faults' = faults \cup {fault} /\ created' = created \cup {fault}
        /\ id \notin IdsOf(created) /\ inbox' = inbox \ {r}
    BY <1>11 DEF ServeInject, CreateFault
  <2> HIDE DEF fault
  <2>2. IdsOf(faults)' = IdsOf(faults) \cup {id} /\ IdsOf(created)' = IdsOf(created) \cup {id}
    BY <2>1
  <2>3. CASE Awaited(r) /\ InjectDone(id) /\ EndCall /\ UNCHANGED unreported
    <3> USE <2>3 DEF Awaited, InjectDone, EndCall, NoCall
    <3>1. TypeOK' /\ CallFits' /\ HoldsAsPlanned'
      BY <2>1
    <3>2. KnownIds' /\ AnsweredDeleteIsFinal'
      BY <2>1, <2>2
    <3>3. NoSilentLeak'
      BY <2>1
    <3>4. LoggedUnlessLost'
      BY <2>1
    <3> QED
      BY <3>1, <3>2, <3>3, <3>4
  <2>4. CASE unreported' = unreported \cup {id} /\ UNCHANGED <<clientVars, testVars, ledgerVars>>
    <3> USE <2>4
    <3>1. TypeOK' /\ CallFits' /\ HoldsAsPlanned'
      BY <2>1
    <3>2. KnownIds' /\ AnsweredDeleteIsFinal'
      BY <2>1, <2>2
    <3>3. NoSilentLeak' /\ LoggedUnlessLost'
      BY <2>1
    <3> QED
      BY <3>1, <3>2, <3>3
  <2> QED
    BY <1>11, <2>3, <2>4 DEF ServeInject
<1>12. ASSUME NEW r \in inbox, ServeDelete(r) PROVE IInv'
  BY <1>12 DEF ServeDelete, DeleteFault, Awaited, DeleteDone, RemoveDone, CleanUpDone, EndCall, NoCall
<1>13. ASSUME NEW r \in inbox, ServeHealth(r) PROVE IInv'
  BY <1>13 DEF ServeHealth, Awaited, HealthDone, EndCall, NoCall
<1>14. CASE UNCHANGED vars
  BY <1>14 DEF vars
<1> QED
  BY <1>1, <1>2, <1>3, <1>4, <1>5, <1>6, <1>7, <1>8, <1>9, <1>10, <1>11, <1>12, <1>13, <1>14 DEF Next, TestStep, ClientStep, ServerStep

\* Every fault that is active is one the running test will still delete, or
\* one whose POST or DELETE lost its reply.
THEOREM LeaksAreExplained == Spec => []NoSilentLeak
<1>1. IInv => NoSilentLeak
  BY DEF IInv
<1> QED
  BY <1>1, InitIInv, StepIInv, PTL DEF Spec

\* A fault whose DELETE was answered, by a 200 or by a 404, stays gone.
THEOREM DeletesAreFinal == Spec => []AnsweredDeleteIsFinal
<1>1. IInv => AnsweredDeleteIsFinal
  BY DEF IInv
<1> QED
  BY <1>1, InitIInv, StepIInv, PTL DEF Spec

\* A logging helper misses only the injections whose reply it never saw.
THEOREM LogMissesOnlyLostReplies == Spec => []LoggedUnlessLost
<1>1. IInv => LoggedUnlessLost
  BY DEF IInv
<1> QED
  BY <1>1, InitIInv, StepIInv, PTL DEF Spec

\* The session's variables keep their types.
THEOREM TypeCorrect == Spec => []TypeOK
<1>1. IInv => TypeOK
  BY DEF IInv
<1> QED
  BY <1>1, InitIInv, StepIInv, PTL DEF Spec

-------------------------------------------------------------------------------
(* One inject() creates at most max_retries + 1 faults.  Each attempt pays *)
(* for one request in the server's queue, and each request pays for one    *)
(* fault, so the two together never outnumber the attempts that were made. *)
HIDE SessionConstants DEF SessionConstants

FaultsOf(n) == {f \in created : f.by = n}
RequestsOf(n) == {r \in inbox : r.call.no = n /\ r.call.op = "inject"}
Spent(n) == Cardinality(FaultsOf(n)) + Cardinality(RequestsOf(n))

\* What a step may do to the ledger of a call without another attempt.
NothingSpent(n) == Spent(n)' <= Spent(n)

\* Faults and requests are finitely many, and all stem from calls made.
FromCalls ==
  /\ IsFiniteSet(created) /\ IsFiniteSet(inbox)
  /\ \A f \in created : f.by <= calls
  /\ \A r \in inbox : r.call.no <= calls
  /\ phase # "none" => call.no = calls

\* The current call has spent no more than the attempts it has made.
WithinAttempts ==
  /\ phase = "ready" => Spent(calls) <= attempt
  /\ phase = "waiting" => Spent(calls) <= attempt + 1

DInv == FromCalls /\ WithinAttempts /\ \A n \in Nat : Spent(n) <= Total

\* The two sets that the ledger counts are finite.
LEMMA SpentIsNat ==
  ASSUME FromCalls, NEW n
  PROVE  /\ IsFiniteSet(FaultsOf(n)) /\ IsFiniteSet(RequestsOf(n)) /\ Spent(n) \in Nat
         /\ Cardinality(FaultsOf(n)) \in Nat /\ Cardinality(RequestsOf(n)) \in Nat
<1>1. FaultsOf(n) \subseteq created /\ RequestsOf(n) \subseteq inbox
  BY DEF FaultsOf, RequestsOf
<1>2. IsFiniteSet(FaultsOf(n)) /\ IsFiniteSet(RequestsOf(n))
  BY <1>1, FS_Subset DEF FromCalls
<1> QED
  BY <1>2, FS_CardinalityType DEF Spent

\* A call that was not made yet has spent nothing.
LEMMA NextCallIsFree == ASSUME FromCalls, calls \in Nat PROVE Spent(calls + 1) = 0
<1>1. FaultsOf(calls + 1) = {} /\ RequestsOf(calls + 1) = {}
  BY DEF FaultsOf, RequestsOf, FromCalls
<1> QED
  BY <1>1, FS_EmptySet DEF Spent

\* Requests that leave the queue cost nothing.
LEMMA ServingIsFree ==
  ASSUME FromCalls, NEW n, created' = created, inbox' \subseteq inbox
  PROVE  NothingSpent(n)
<1>1. FaultsOf(n)' = FaultsOf(n) /\ RequestsOf(n)' \subseteq RequestsOf(n)
  BY DEF FaultsOf, RequestsOf
<1>2. Cardinality(RequestsOf(n)') <= Cardinality(RequestsOf(n))
  BY <1>1, SpentIsNat, FS_Subset
<1>3. Cardinality(RequestsOf(n)') \in Nat
  BY <1>1, SpentIsNat, FS_Subset, FS_CardinalityType
<1> QED
  BY <1>1, <1>2, <1>3, SpentIsNat DEF Spent, NothingSpent

\* A served injection turns one request into one fault.
LEMMA CreatingIsPaid ==
  ASSUME FromCalls, NEW r \in inbox, NEW fault, r.call.op = "inject", fault.by = r.call.no,
         created' = created \cup {fault}, inbox' = inbox \ {r}, NEW n
  PROVE  NothingSpent(n)
<1>1. CASE n = r.call.no
  <2>1. FaultsOf(n)' = FaultsOf(n) \cup {fault} /\ RequestsOf(n)' = RequestsOf(n) \ {r}
    BY <1>1 DEF FaultsOf, RequestsOf
  <2>2. Cardinality(FaultsOf(n)') <= Cardinality(FaultsOf(n)) + 1
    <3>1. IsFiniteSet(FaultsOf(n)) /\ Cardinality(FaultsOf(n)) \in Nat
      BY SpentIsNat
    <3>2. Cardinality(FaultsOf(n) \cup {fault})
            = IF fault \in FaultsOf(n) THEN Cardinality(FaultsOf(n)) ELSE Cardinality(FaultsOf(n)) + 1
      BY <3>1, FS_AddElement, Zenon
    <3> QED
      BY <2>1, <3>1, <3>2
  <2>3. r \in RequestsOf(n)
    BY <1>1 DEF RequestsOf
  <2>4. Cardinality(RequestsOf(n)') = Cardinality(RequestsOf(n)) - 1
    BY <2>1, <2>3, SpentIsNat, FS_RemoveElement
  <2>5. Cardinality(FaultsOf(n)') \in Nat
    BY <2>1, SpentIsNat, FS_AddElement, FS_CardinalityType
  <2> QED
    BY <2>2, <2>4, <2>5, SpentIsNat DEF Spent, NothingSpent
<1>2. CASE n # r.call.no
  <2>1. FaultsOf(n)' = FaultsOf(n) /\ RequestsOf(n)' = RequestsOf(n)
    BY <1>2 DEF FaultsOf, RequestsOf
  <2> QED
    BY <2>1, SpentIsNat DEF Spent, NothingSpent
<1> QED
  BY <1>1, <1>2

\* An attempt spends at most one request.
LEMMA AttemptCostsOne ==
  ASSUME FromCalls, NEW r, created' = created, inbox' \in {inbox, inbox \cup {r}}, NEW n
  PROVE  /\ Spent(n)' <= Spent(n) + 1
         /\ n # r.call.no => NothingSpent(n)
         /\ Spent(n)' \in Nat
<1>1. FaultsOf(n)' = FaultsOf(n) /\ RequestsOf(n)' \subseteq RequestsOf(n) \cup {r}
  BY DEF FaultsOf, RequestsOf
<1>2. /\ IsFiniteSet(RequestsOf(n) \cup {r})
      /\ Cardinality(RequestsOf(n) \cup {r}) <= Cardinality(RequestsOf(n)) + 1
  BY SpentIsNat, FS_AddElement
<1>3. /\ Cardinality(RequestsOf(n)') <= Cardinality(RequestsOf(n) \cup {r})
      /\ Cardinality(RequestsOf(n)') \in Nat
  BY <1>1, <1>2, FS_Subset, FS_CardinalityType
<1>4. Spent(n)' <= Spent(n) + 1 /\ Spent(n)' \in Nat
  <2>1. Cardinality(RequestsOf(n) \cup {r}) \in Nat
    BY <1>2, FS_CardinalityType
  <2> QED
    BY <1>1, <1>2, <1>3, <2>1, SpentIsNat DEF Spent
<1>5. n # r.call.no => RequestsOf(n)' \subseteq RequestsOf(n)
  BY DEF RequestsOf
<1>6. n # r.call.no => Cardinality(RequestsOf(n)') <= Cardinality(RequestsOf(n))
  BY <1>5, SpentIsNat, FS_Subset
<1> QED
  BY <1>1, <1>3, <1>4, <1>6, SpentIsNat DEF Spent, NothingSpent

\* A step that ends the current call or leaves it alone, and spends nothing,
\* keeps the ledgers.
LEMMA KeepsWithin ==
  ASSUME DInv, FromCalls', calls' = calls, calls \in Nat, attempt \in Nat, Total \in Nat,
         \/ phase' = "none"
         \/ phase' = phase /\ attempt' = attempt
         \/ phase = "waiting" /\ phase' = "ready" /\ attempt' = attempt + 1,
         \A n \in Nat : NothingSpent(n)
  PROVE  DInv'
<1>1. \A n \in Nat : Spent(n) \in Nat /\ Spent(n)' \in Nat
  <2> SUFFICES ASSUME NEW n \in Nat PROVE Spent(n) \in Nat /\ Spent(n)' \in Nat
    OBVIOUS
  <2>1. Spent(n) \in Nat
    BY SpentIsNat DEF DInv
  <2>2. Spent(n)' \in Nat
    <3>1. FaultsOf(n)' \subseteq created' /\ RequestsOf(n)' \subseteq inbox'
      BY DEF FaultsOf, RequestsOf
    <3>2. Cardinality(FaultsOf(n)') \in Nat /\ Cardinality(RequestsOf(n)') \in Nat
      BY <3>1, FS_Subset, FS_CardinalityType DEF FromCalls
    <3> QED
      BY <3>2 DEF Spent
  <2> QED
    BY <2>1, <2>2
<1>2. \A n \in Nat : Spent(n)' <= Total
  BY <1>1 DEF DInv, NothingSpent, Total
<1>3. Spent(calls)' <= Spent(calls)
  BY DEF NothingSpent
<1>4. WithinAttempts'
  <2>1. Spent(calls) \in Nat /\ Spent(calls)' \in Nat
    BY <1>1
  <2> QED
    BY <1>3, <2>1 DEF DInv, WithinAttempts
<1> QED
  BY <1>2, <1>4 DEF DInv, Total

\* Before the first call nothing is spent.
LEMMA InitDInv == Init => DInv
<1> SUFFICES ASSUME Init PROVE DInv
  OBVIOUS
<1>1. FromCalls
  BY FS_EmptySet DEF Init, FromCalls
<1>2. \A n \in Nat : FaultsOf(n) = {} /\ RequestsOf(n) = {}
  BY DEF Init, FaultsOf, RequestsOf
<1>3. \A n \in Nat : Spent(n) <= Total
  BY <1>2, FS_EmptySet, SessionConstants DEF Spent, Total, SessionConstants
<1> QED
  BY <1>1, <1>3 DEF Init, DInv, WithinAttempts

\* A call that starts has a number of its own, so nothing is spent on it.
LEMMA StartKeepsDInv ==
  ASSUME IInv, DInv, UNCHANGED <<created, inbox>>,
         phase' = "ready", attempt' = 0, calls' = calls + 1, call'.no = calls + 1
  PROVE  DInv'
<1>1. calls \in Nat
  BY DEF IInv, TypeOK
<1>2. FromCalls'
  <2>1. (\A f \in created : f.by \in Nat) /\ (\A r \in inbox : r.call.no \in Nat)
    BY DEF IInv, TypeOK, Fault, Call
  <2> QED
    BY <1>1, <2>1 DEF DInv, FromCalls
<1>3. \A n : Spent(n)' = Spent(n)
  BY DEF Spent, FaultsOf, RequestsOf
<1>4. Spent(calls)' = Spent(calls + 1)
  BY DEF Spent, FaultsOf, RequestsOf
<1>5. Spent(calls + 1) = 0
  BY <1>1, NextCallIsFree DEF DInv
<1>6. WithinAttempts'
  BY <1>4, <1>5 DEF WithinAttempts
<1> QED
  BY <1>2, <1>3, <1>6 DEF DInv, Total

\* Each step keeps the ledgers within the attempts.
LEMMA StepDInv == IInv /\ DInv /\ [Next]_vars => DInv'
<1> SUFFICES ASSUME IInv, DInv, [Next]_vars PROVE DInv'
  OBVIOUS
<1>0. /\ calls \in Nat /\ attempt \in 0 .. MaxRetries /\ Total = MaxRetries + 1 /\ Total \in Nat
      /\ phase \in {"none", "ready", "waiting"} /\ FromCalls
  BY SessionConstants DEF IInv, TypeOK, Total, DInv, SessionConstants
<1>1. ASSUME NEW p \in Plan, NEW n \in 1 .. MaxFaults, SetUp(p, n) PROVE DInv'
  BY <1>1, StartKeepsDInv DEF SetUp, StartCall, serverVars
<1>2. ASSUME NEW type \in FaultType, Inject(type) PROVE DInv'
  BY <1>2, StartKeepsDInv DEF Inject, StartCall, serverVars
<1>3. ASSUME NEW id \in Id, Remove(id) \/ CleanUp(id) PROVE DInv'
  BY <1>3, StartKeepsDInv DEF Remove, CleanUp, StartCall, serverVars
<1>4. ASSUME created' = created, inbox' \subseteq inbox, calls' = calls,
             \/ phase' = "none"
             \/ phase' = phase /\ attempt' = attempt /\ call' = call
             \/ phase = "waiting" /\ phase' = "ready" /\ attempt' = attempt + 1 /\ call' = call
      PROVE  DInv'
  <2>1. IsFiniteSet(inbox')
    BY <1>4, <1>0, FS_Subset DEF FromCalls
  <2>2. FromCalls'
    BY <1>4, <1>0, <2>1 DEF FromCalls
  <2>3. \A n \in Nat : NothingSpent(n)
    BY <1>4, <1>0, ServingIsFree
  <2> QED
    BY <1>4, <1>0, <2>2, <2>3, KeepsWithin
<1>5. CASE Abort \/ LeaveBody \/ EndTest \/ UNCHANGED vars
  BY <1>5, <1>4 DEF Abort, LeaveBody, EndTest, vars, serverVars, clientVars
<1>6. CASE Send
  <2> DEFINE r == [call |-> call, attempt |-> attempt]
  <2>1. /\ phase = "ready" /\ phase' = "waiting" /\ created' = created
        /\ inbox' \in {inbox, inbox \cup {r}} /\ UNCHANGED <<call, attempt, calls>>
        /\ call.no = calls /\ r.call.no = calls
    BY <1>6, <1>0 DEF Send, serverVars, FromCalls
  <2> HIDE DEF r
  <2>2. FromCalls'
    BY <2>1, <1>0, FS_AddElement DEF FromCalls
  <2>3. \A n \in Nat : /\ Spent(n)' <= Spent(n) + 1 /\ Spent(n)' \in Nat /\ Spent(n) \in Nat
                       /\ n # calls => Spent(n)' <= Spent(n)
    <3> SUFFICES ASSUME NEW n \in Nat
                 PROVE  /\ Spent(n)' <= Spent(n) + 1 /\ Spent(n)' \in Nat /\ Spent(n) \in Nat
                        /\ n # calls => Spent(n)' <= Spent(n)
      OBVIOUS
    <3>1. Spent(n) \in Nat
      BY <1>0, SpentIsNat
    <3> QED
      BY <2>1, <3>1, <1>0, AttemptCostsOne DEF NothingSpent
  <2>4. Spent(calls) <= attempt
    BY <2>1 DEF DInv, WithinAttempts
  <2>5. Spent(calls)' <= attempt + 1
    <3>1. \A n \in Nat : n = calls => Spent(n)' <= attempt + 1
      BY <2>3, <2>4, <1>0
    <3>2. Spent(calls)' = Cardinality({f \in created' : f.by = calls})
             + Cardinality({q \in inbox' : q.call.no = calls /\ q.call.op = "inject"})
      BY <2>1 DEF Spent, FaultsOf, RequestsOf
    <3> QED
      BY <3>1, <3>2, <1>0 DEF Spent, FaultsOf, RequestsOf
  <2>6. \A n \in Nat : Spent(n)' <= Total
    <3> SUFFICES ASSUME NEW n \in Nat PROVE Spent(n)' <= Total
      OBVIOUS
    <3>1. CASE n = calls
      <4>1. Spent(n) <= attempt
        BY <3>1, <2>4
      <4>2. Spent(n)' <= attempt + 1 /\ Spent(n)' \in Nat
        BY <4>1, <2>3, <1>0
      <4> QED
        BY <4>2, <1>0, SessionConstants DEF SessionConstants
    <3>2. CASE n # calls
      <4>1. Spent(n) <= Total
        BY DEF DInv
      <4> QED
        BY <4>1, <3>2, <2>3, <1>0
    <3> QED
      BY <3>1, <3>2
  <2> QED
    BY <2>1, <2>2, <2>5, <2>6, <1>0 DEF DInv, WithinAttempts, Total
<1>7. CASE Retry
  BY <1>7, <1>4 DEF Retry, serverVars
<1>8. CASE GiveUp
  BY <1>8, <1>4 DEF GiveUp, EndCall, serverVars
<1>9. ASSUME NEW r \in inbox, NEW id \in Id, ServeInject(r, id) PROVE DInv'
  <2> DEFINE fault == [id |-> id, type |-> r.call.type, by |-> r.call.no, via |-> r.call.via]
  <2>1. /\ created' = created \cup {fault} /\ inbox' = inbox \ {r} /\ calls' = calls
        /\ r.call.op = "inject" /\ fault.by = r.call.no
        /\ phase' = "none" \/ UNCHANGED <<phase, attempt, call>>
    BY <1>9 DEF ServeInject, CreateFault, EndCall, clientVars
  <2> HIDE DEF fault
  <2>2. FromCalls'
    BY <2>1, <1>0, FS_AddElement, FS_RemoveElement DEF FromCalls
  <2>3. \A n \in Nat : NothingSpent(n)
    BY <2>1, <1>0, CreatingIsPaid
  <2> QED
    BY <2>1, <2>2, <2>3, <1>0, KeepsWithin
<1>10. ASSUME NEW r \in inbox, ServeDelete(r) \/ ServeHealth(r) PROVE DInv'
  BY <1>10, <1>4 DEF ServeDelete, DeleteFault, ServeHealth, EndCall, serverVars, clientVars
<1> QED
  BY <1>1, <1>2, <1>3, <1>5, <1>6, <1>7, <1>8, <1>9, <1>10
     DEF Next, TestStep, ClientStep, ServerStep

\* One inject() creates at most max_retries + 1 faults, those of the attempts
\* that are served after the client gave up included (http_test_client.cpp
\* 196-226, mock-agamemnon.py 158-164).
THEOREM DuplicatesAreBounded == Spec => []RetriesBoundDuplicates
<1>1. DInv => RetriesBoundDuplicates
  BY DEF DInv, RetriesBoundDuplicates, Spent, FaultsOf, RequestsOf
<1> QED
  BY <1>1, InitIInv, StepIInv, InitDInv, StepDInv, PTL DEF Spec
===============================================================================
