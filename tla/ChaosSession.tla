----------------------------- MODULE ChaosSession -----------------------------
(***************************************************************************)
(* A session of chaos tests against one Agamemnon: the fixtures            *)
(* ChaosResilienceTest and ChaosApiTest, their HttpTestClient with its     *)
(* retries, the network, and the fault registry of the server.             *)
(*                                                                         *)
(* Tests run one after another (ctest without -j) and share the server.    *)
(* A request that the client gave up on may still be in the server's       *)
(* queue and be served later; a served request may lose its reply.  The    *)
(* breaker is left out: both fixtures use the default, disabled one.       *)
(***************************************************************************)
EXTENDS Integers, FiniteSets

CONSTANTS Id,        \* fault ids the server can issue (uuid4)
          MaxRetries,  \* RetryPolicy::max_retries of the fixtures' client
          MaxFaults, \* faults that one resilience test stacks (R05: 2)
          MaxTests,  \* bound: tests in the session
          Backlog,   \* connections the server keeps waiting
          NoId       \* the id of a call that has none

ASSUME SessionConstants ==
  /\ MaxRetries \in Nat /\ MaxFaults \in Nat \ {0} /\ MaxTests \in Nat /\ Backlog \in Nat
  /\ NoId \notin Id

VARIABLES
  \* Agamemnon
  faults,    \* _faults: the active faults
  inbox,     \* attempts that reached the server and are not served yet
  \* HttpTestClient
  call,      \* the current get/post/del
  attempt,   \* loop index in run_with_retry
  phase,     \* "none": no call; "ready" to send; "waiting" for a reply
  calls,     \* calls made so far
  \* The running test
  pc,        \* "idle" between tests, "setup", "body" or "teardown"
  plan,      \* its fixture and the helper it injects with
  left,      \* faults still to inject
  held,      \* ids in the body's local variables, not removed yet
  tracked,   \* injected_ids_
  tests,     \* tests started so far
  audit,     \* the chaos audit log
  \* History, for the properties only
  created,   \* every fault the server ever created
  unreported,\* ids whose POST reply never reached the client
  undeleted, \* ids whose DELETE came back as {0, {}}
  confirmed  \* ids whose DELETE was answered

serverVars == <<faults, created>>
clientVars == <<call, attempt, phase, calls>>
testVars == <<pc, plan, left, held, tracked, tests, audit>>
ledgerVars == <<undeleted, confirmed>>
vars == <<faults, created, inbox, call, attempt, phase, calls, pc, plan, left, held,
          tracked, tests, audit, unreported, undeleted, confirmed>>

Total == MaxRetries + 1

\* "kill" decides /v1/health; the other fault types are alike here.
FaultType == {"kill", "other"}

\* "api": ChaosApiTest; "resilience": ChaosResilienceTest with its own
\* inject() (R01-R03, R05); "starve": the same fixture with
\* safe_inject_queue_starve (R04).
Plan == {"api", "resilience", "starve"}

\* ChaosResilienceTest has injected_ids_ and a TearDown; its inject() is the
\* only helper that does not log the injection.
Tracks(p) == p # "api"
Logs(p) == p # "resilience"

Call == [no : Nat, op : {"health", "inject", "remove", "cleanup"},
         id : Id \cup {NoId}, type : FaultType, via : Plan]

Fault == [id : Id, type : FaultType, by : Nat, via : Plan]

IdsOf(S) == {f.id : f \in S}

NoCall == [no |-> 0, op |-> "health", id |-> NoId, type |-> "other", via |-> "api"]

Init ==
  /\ faults = {} /\ created = {} /\ inbox = {}
  /\ call = NoCall /\ attempt = 0 /\ phase = "none" /\ calls = 0
  /\ pc = "idle" /\ plan = "api"
  /\ left = 0 /\ held = {} /\ tracked = {} /\ tests = 0 /\ audit = {}
  /\ unreported = {} /\ undeleted = {} /\ confirmed = {}

-------------------------------------------------------------------------------
(* The test's own steps; each starts a call of the client or ends a part   *)
(* of the test.                                                            *)

StartCall(op, id, type, p) ==
  /\ phase = "none"
  /\ phase' = "ready" /\ attempt' = 0 /\ calls' = calls + 1
  /\ call' = [no |-> calls + 1, op |-> op, id |-> id, type |-> type, via |-> p]

\* SetUp: the first call is is_healthy().  Only R05 injects two faults.
SetUp(p, n) ==
  /\ pc = "idle" /\ tests < MaxTests
  /\ n = 1 \/ p = "resilience"
  /\ pc' = "setup" /\ plan' = p /\ left' = n /\ tests' = tests + 1
  /\ StartCall("health", NoId, "other", p)
  /\ UNCHANGED <<serverVars, inbox, held, tracked, audit, unreported, ledgerVars>>

\* POST /v1/chaos/<type>
Inject(type) ==
  /\ pc = "body" /\ left > 0
  /\ left' = left - 1
  /\ StartCall("inject", NoId, type, plan)
  /\ UNCHANGED <<serverVars, inbox, pc, plan, held, tracked, tests, audit,
                 unreported, ledgerVars>>

\* DELETE /v1/chaos/<id> for a fault the body injected
Remove(id) ==
  /\ pc = "body" /\ left = 0 /\ id \in held
  /\ StartCall("remove", id, "other", plan)
  /\ UNCHANGED <<serverVars, inbox, testVars, unreported, ledgerVars>>

\* A failed ASSERT_* or an exception leaves the body of a resilience test
\* (the checks R04 and R05 make after their injections).
Abort ==
  /\ pc = "body" /\ phase = "none" /\ left = 0 /\ Tracks(plan)
  /\ pc' = "teardown" /\ held' = {}
  /\ UNCHANGED <<serverVars, inbox, clientVars, plan, left, tracked, tests, audit,
                 unreported, ledgerVars>>

\* The end of the body; ChaosApiTest has no TearDown of its own.
LeaveBody ==
  /\ pc = "body" /\ phase = "none" /\ left = 0 /\ held = {}
  /\ pc' = IF Tracks(plan) THEN "teardown" ELSE "idle"
  /\ UNCHANGED <<serverVars, inbox, clientVars, plan, left, held, tracked, tests,
                 audit, unreported, ledgerVars>>

\* TearDown: one DELETE for each tracked id, whatever it answers.
CleanUp(id) ==
  /\ pc = "teardown" /\ id \in tracked
  /\ StartCall("cleanup", id, "other", plan)
  /\ UNCHANGED <<serverVars, inbox, testVars, unreported, ledgerVars>>

EndTest ==
  /\ pc = "teardown" /\ phase = "none" /\ tracked = {}
  /\ pc' = "idle"
  /\ UNCHANGED <<serverVars, inbox, clientVars, plan, left, held, tracked, tests,
                 audit, unreported, ledgerVars>>

-------------------------------------------------------------------------------
(* What the test does with the outcome of a call. *)

\* is_healthy(): the body runs on a 200; otherwise SetUp skips the test and
\* TearDown has nothing to delete.
HealthDone(ok) ==
  /\ call.op = "health"
  /\ pc' = IF ok THEN "body" ELSE "idle"
  /\ left' = IF ok THEN left ELSE 0
  /\ UNCHANGED <<plan, held, tracked, tests, audit, ledgerVars>>

\* Forgetting to track the id of a fault injected through safe_chaos.hpp.
InjectDoneUntracked(id) ==
  /\ call.op = "inject"
  /\ held' = held \cup {id}
  /\ tracked' = IF plan = "resilience"
                THEN tracked \cup {id} ELSE tracked
  /\ audit' = IF Logs(plan) THEN audit \cup {[action |-> "inject", id |-> id]} ELSE audit
  /\ UNCHANGED <<pc, plan, left, tests, ledgerVars>>

\* A log that records only the injections of ChaosApiTest.
InjectDoneUnlogged(id) ==
  /\ call.op = "inject"
  /\ held' = held \cup {id}
  /\ tracked' = IF Tracks(plan) THEN tracked \cup {id} ELSE tracked
  /\ audit' = IF ~Tracks(plan)
              THEN audit \cup {[action |-> "inject", id |-> id]} ELSE audit
  /\ UNCHANGED <<pc, plan, left, tests, ledgerVars>>

\* inject() with a reply: the id is logged, tracked and held.
InjectDone(id) ==
  /\ call.op = "inject"
  /\ held' = held \cup {id}
  /\ tracked' = IF Tracks(plan) THEN tracked \cup {id} ELSE tracked
  /\ audit' = IF Logs(plan) THEN audit \cup {[action |-> "inject", id |-> id]} ELSE audit
  /\ UNCHANGED <<pc, plan, left, tests, ledgerVars>>

\* inject() without one: the null body makes value("id", "") throw, in
\* log_inject() or in inject() itself, and the body is left.
InjectFailed ==
  /\ call.op = "inject"
  /\ pc' = IF Tracks(plan) THEN "teardown" ELSE "idle"
  /\ held' = {} /\ left' = 0
  /\ UNCHANGED <<plan, tracked, tests, audit, ledgerVars>>

\* remove() untracks and remove_fault() logs, whatever the DELETE answered.
RemoveDone(answered) ==
  /\ call.op = "remove"
  /\ held' = held \ {call.id}
  /\ tracked' = tracked \ {call.id}
  /\ audit' = IF ~Tracks(plan)
              THEN audit \cup {[action |-> "remove", id |-> call.id]} ELSE audit
  /\ UNCHANGED <<pc, plan, left, tests>>

CleanUpDone ==
  /\ call.op = "cleanup"
  /\ tracked' = tracked \ {call.id}
  /\ UNCHANGED <<pc, plan, left, held, tests, audit>>

\* A DELETE has come back, with an HTTP status or as {0, {}}.
DeleteDone(answered) ==
  /\ RemoveDone(answered) \/ CleanUpDone
  /\ confirmed' = IF answered THEN confirmed \cup {call.id} ELSE confirmed
  /\ undeleted' = IF answered THEN undeleted ELSE undeleted \cup {call.id}

EndCall ==
  /\ phase' = "none" /\ call' = NoCall
  /\ UNCHANGED <<attempt, calls>>

-------------------------------------------------------------------------------
(* run_with_retry() over a lossy network. *)

\* The attempt reaches the server's queue, or does not get that far.
Send ==
  /\ phase = "ready"
  /\ phase' = "waiting"
  /\ \/ UNCHANGED inbox
     \/ /\ Cardinality(inbox) < Backlog
        /\ inbox' = inbox \cup {[call |-> call, attempt |-> attempt]}
  /\ UNCHANGED <<serverVars, call, attempt, calls, testVars, unreported, ledgerVars>>

\* No reply in time, and an attempt is left.
RetryForever ==
  /\ phase = "waiting"
  /\ attempt' = (attempt + 1) % Total /\ phase' = "ready"
  /\ UNCHANGED <<serverVars, inbox, call, calls, testVars, unreported, ledgerVars>>

RetryOnceMore ==
  /\ phase = "waiting" /\ attempt + 1 <= Total
  /\ attempt' = attempt + 1 /\ phase' = "ready"
  /\ UNCHANGED <<serverVars, inbox, call, calls, testVars, unreported, ledgerVars>>

Retry ==
  /\ phase = "waiting" /\ attempt + 1 < Total
  /\ attempt' = attempt + 1 /\ phase' = "ready"
  /\ UNCHANGED <<serverVars, inbox, call, calls, testVars, unreported, ledgerVars>>

\* No attempt is left: the caller gets {0, {}}.
GiveUp ==
  /\ phase = "waiting" /\ attempt + 1 >= Total
  /\ HealthDone(FALSE) \/ InjectFailed \/ DeleteDone(FALSE)
  /\ EndCall
  /\ UNCHANGED <<serverVars, inbox, unreported>>

-------------------------------------------------------------------------------
(* The server: it takes any queued attempt, applies it, and then replies;  *)
(* the reply is heard if the client still waits for that attempt.          *)

\* do_POST: a new fault under a fresh id.
CreateFault(c, id) ==
  /\ c.op = "inject" /\ id \in Id \ IdsOf(created)
  /\ LET fault == [id |-> id, type |-> c.type, by |-> c.no, via |-> c.via]
     IN  faults' = faults \cup {fault} /\ created' = created \cup {fault}

\* A DELETE of an unknown id that answers 200 and leaves the registry alone.
KeepFault(c) ==
  /\ c.op \in {"remove", "cleanup"}
  /\ UNCHANGED serverVars

\* do_DELETE: 200 if the id was there, 404 if not; either way it is gone.
DeleteFault(c) ==
  /\ c.op \in {"remove", "cleanup"}
  /\ faults' = {f \in faults : f.id # c.id}
  /\ UNCHANGED created

\* do_GET /v1/health: 503 while a kill fault is active.
KillActive == \E f \in faults : f.type = "kill"

Awaited(r) == phase = "waiting" /\ r = [call |-> call, attempt |-> attempt]

ServeInject(r, id) ==
  /\ r \in inbox /\ inbox' = inbox \ {r}
  /\ CreateFault(r.call, id)
  /\ \/ /\ Awaited(r) /\ InjectDone(id) /\ EndCall
        /\ UNCHANGED unreported
     \/ /\ unreported' = unreported \cup {id}
        /\ UNCHANGED <<clientVars, testVars, ledgerVars>>

ServeDelete(r) ==
  /\ r \in inbox /\ inbox' = inbox \ {r}
  /\ DeleteFault(r.call)
  /\ \/ Awaited(r) /\ DeleteDone(TRUE) /\ EndCall
     \/ UNCHANGED <<clientVars, testVars, ledgerVars>>
  /\ UNCHANGED unreported

ServeHealth(r) ==
  /\ r \in inbox /\ inbox' = inbox \ {r}
  /\ r.call.op = "health"
  /\ \/ Awaited(r) /\ HealthDone(~KillActive) /\ EndCall
     \/ UNCHANGED <<clientVars, testVars, ledgerVars>>
  /\ UNCHANGED <<serverVars, unreported>>

-------------------------------------------------------------------------------
TestStep ==
  \/ \E p \in Plan, n \in 1 .. MaxFaults : SetUp(p, n)
  \/ \E type \in FaultType : Inject(type)
  \/ \E id \in Id : Remove(id) \/ CleanUp(id)
  \/ Abort \/ LeaveBody \/ EndTest

ClientStep == Send \/ Retry \/ GiveUp

ServerStep ==
  \E r \in inbox :
    (\E id \in Id : ServeInject(r, id)) \/ ServeDelete(r) \/ ServeHealth(r)

Next == TestStep \/ ClientStep \/ ServerStep

Spec == Init /\ [][Next]_vars

\* The test process runs on its own: ctest starts it and every wait of its
\* client has a timeout.  Nothing is asked of the server or the network.
FairSpec == Spec /\ WF_vars(TestStep) /\ WF_vars(ClientStep)

-------------------------------------------------------------------------------
(* Properties. *)

TypeOK ==
  /\ faults \subseteq Fault /\ created \subseteq Fault
  /\ inbox \subseteq [call : Call, attempt : Nat]
  /\ call \in Call /\ attempt \in 0 .. Total - 1 /\ calls \in Nat
  /\ phase \in {"none", "ready", "waiting"}
  /\ pc \in {"idle", "setup", "body", "teardown"}
  /\ plan \in Plan /\ left \in 0 .. MaxFaults /\ tests \in Nat
  /\ held \subseteq Id /\ tracked \subseteq Id
  /\ audit \subseteq [action : {"inject", "remove"}, id : Id]
  /\ unreported \subseteq Id /\ undeleted \subseteq Id /\ confirmed \subseteq Id

\* The ids the running test is going to delete.
ToBeDeleted == IF Tracks(plan) THEN tracked ELSE held

\* No fault is left behind in silence: every active fault is one the running
\* test will still delete, or one of which the client lost the creating or
\* the deleting reply.  Between two tests only lost replies are left as the
\* reason, so a test that SetUp skips on a 503 is explained by one.
NoSilentLeak ==
  \A f \in faults :
    \/ pc \in {"body", "teardown"} /\ f.id \in ToBeDeleted
    \/ f.id \in unreported \cup undeleted

\* A DELETE that was answered, by 200 or by the 404 a retried DELETE meets,
\* means the fault is gone for good: no late attempt brings it back.
AnsweredDeleteIsFinal == confirmed \cap IdsOf(faults) = {}

\* One inject() creates at most max_retries + 1 faults, counting the attempts
\* that are served after the client gave up.
RetriesBoundDuplicates ==
  \A n \in 1 .. calls :
    Cardinality({f \in created : f.by = n})
      + Cardinality({r \in inbox : r.call.no = n /\ r.call.op = "inject"}) <= Total

\* Every fault created through a logging helper is in the audit log, unless
\* the reply that carried its id was lost.
LoggedUnlessLost ==
  \A f \in created :
    Logs(f.via) => [action |-> "inject", id |-> f.id] \in audit \/ f.id \in unreported

\* Every test comes to its end, however the server and the network behave.
TestsEnd == (pc # "idle") ~> (pc = "idle")

\* "Fault injection tests clean up after themselves": no fault is active when
\* no test runs and no request is under way.  (Violated: see README.)
CleansUpAfterItself == pc = "idle" /\ inbox = {} => faults = {}
=============================================================================
