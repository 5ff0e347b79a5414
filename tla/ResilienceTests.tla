---------------------------- MODULE ResilienceTests ----------------------------
(***************************************************************************)
(* The integration tests against the stub, in real time: the fixtures of   *)
(* test/src/ one after another, their client with its timeouts and         *)
(* retries, wait_until(), and the stub that sleeps before it replies.      *)
(*                                                                         *)
(* One unit of time is 500 ms, the sleep of wait_until().  Everything else *)
(* takes no time, and no time passes while something can be done.          *)
(* The loopback network loses nothing: a reply is lost to a timeout, or    *)
(* because the test process was killed.                                    *)
(***************************************************************************)
EXTENDS MockAgamemnon, Sequences

CONSTANTS Tests,          \* names of the tests a session picks from
          MaxTests,       \* bound: tests in the session
          MaxMishaps,     \* bound: processes killed and faults deleted by hand
          Leftovers,      \* states of the stub that earlier sessions leave
          ReadTimeout,    \* TimeoutConfig::read_timeout_sec
          ConnectTimeout, \* TimeoutConfig::connection_timeout_sec
          Backlog,        \* HTTPServer.request_queue_size
          Backoff,        \* the sleeps before each further attempt, as sets
          None

TestNames == {"R01", "R02", "R03", "R04", "R05", "E01", "E02", "E03", "E04",
              "C10", "TaskState", "Malformed", "TestEmpty"}

ASSUME SessionConfig ==
  /\ Tests \subseteq TestNames /\ None \notin TestNames
  /\ \A s \in Leftovers : WellFormed(s) /\ IsFiniteSet(s.faults)
  /\ ReadTimeout \in Nat /\ ConnectTimeout \in Nat
  /\ Backoff \in Seq(SUBSET Nat)

VARIABLES
  \* The stub
  server,   \* its state
  inbox,    \* the accept queue
  serving,  \* the request whose reply it is sleeping on
  \* HttpTestClient
  call, attempt,
  mode,     \* "idle", "send", "wait", "backoff", or "pause" in wait_until()
  clock,    \* time in "send" and "wait"; time left in "backoff" and "pause"
  \* The running test
  test, pc, ids, tracked,
  since,    \* time since the current step began
  verdict,  \* "ok", "failed" or "skipped"
  tests, mishaps,
  \* History, for the properties only
  clean,    \* the test began on an idle server without faults
  before,   \* the ids issued before the test
  calm,     \* how long what the poll waits for has been true on the server
  took,     \* duration of the poll's last call
  lost      \* that call came back as {0, {}}

stubVars == <<server, inbox, serving>>
clientVars == <<call, attempt, mode, clock>>
bodyVars == <<pc, ids, tracked, since, verdict>>
sessionVars == <<test, tests, mishaps, clean, before>>
pollVars == <<calm, took, lost>>
vars == <<stubVars, clientVars, bodyVars, sessionVars, pollVars>>

-------------------------------------------------------------------------------
(* The tests as scripts.  Ids are numbered in the order the test got them. *)

Json == "application/json"
Inject(type, delay) == [do |-> "inject", req |-> PostChaos(type, "object", delay)]
InjectApi(type) == [do |-> "inject", req |-> PostChaos(type, "null", 0)]
Create(on) == [do |-> "inject", req |-> Post(on, "object", Json)]
Remove(k) == [do |-> "remove", k |-> k, checked |-> TRUE]
RemoveApi(k) == [do |-> "remove", k |-> k, checked |-> FALSE]
List(has, lacks, fatal) == [do |-> "list", has |-> has, lacks |-> lacks, fatal |-> fatal]
Poll(cond, upto, expect) == [do |-> "poll", cond |-> cond, upto |-> upto, expect |-> expect]
Probe(least, most) == [do |-> "probe", least |-> least, most |-> most]
Send(on, body, ct, ok) == [do |-> "send", req |-> Post(on, body, ct), ok |-> ok]
SendChaos(type, body, ok) == [do |-> "send", req |-> PostChaos(type, body, 0), ok |-> ok]
Healthy == [do |-> "send", req |-> Get("health"), ok |-> {200}]

\* Times beyond the last one a step compares with are alike.
Cap == 5
Any == {0, 200, 201, 400, 404, 503}

Fixture(t) ==
  CASE t \in {"R01", "R02", "R03", "R04", "R05"} -> "resilience"
    [] t \in {"E01", "E02", "E03", "E04"}        -> "api"
    [] OTHER                                     -> "plain"

Script(t) ==
  CASE t = "R01" -> << Inject("network-partition", 0), Poll("listed", 10, {TRUE}),
                       Remove(1), Poll("healthy", 20, {TRUE}) >>
    [] t = "R02" -> << Inject("latency", 4), Probe(4, Cap), Remove(1), Probe(0, 1) >>
    [] t = "R03" -> << Inject("kill", 0), Poll("unhealthy", 10, {TRUE}),
                       Remove(1), Poll("healthy", 20, {TRUE}) >>
    [] t = "R04" -> << Inject("queue-starve", 0), Create("teams"), Create("agents"),
                       Create("teams/tasks"), Poll("done", 6, {FALSE}),
                       Remove(1), Poll("done", 20, {TRUE}) >>
    [] t = "R05" -> << Inject("latency", 3), Inject("kill", 0), List({1, 2}, {}, TRUE),
                       Poll("unhealthy", 10, {TRUE}), Remove(1), Remove(2),
                       Poll("healthy", 20, {TRUE}), List({}, {1, 2}, TRUE) >>
    [] t = "E01" -> << InjectApi("network-partition"), List({1}, {}, FALSE), RemoveApi(1) >>
    [] t = "E02" -> << InjectApi("latency"), RemoveApi(1) >>
    [] t = "E03" -> << InjectApi("kill"), RemoveApi(1) >>
    [] t = "E04" -> << Inject("queue-starve", 0), Remove(1), List({}, {1}, TRUE) >>
    [] t = "C10" -> << Healthy, Create("teams"), Create("agents"), Create("teams/tasks") >>
    [] t = "TaskState" -> << Create("teams"), Create("agents"), Create("teams/tasks"),
                             Poll("done", 60, {TRUE, FALSE}) >>
    [] t = "Malformed" -> << Send("teams/tasks", "unparseable", Json, {400, 404}),
                             Send("agents", "unparseable", Json, Any),
                             Send("agents", "unparseable", "text/xml", Any), Healthy >>
    [] t = "TestEmpty" -> << SendChaos("test-empty", "empty", {400}),
                             SendChaos("test-empty", "object", {400}),
                             SendChaos("test-empty", "unparseable", {400}), Healthy >>

Steps == Script(test)
InBody == test # None /\ pc \in 1 .. Len(Steps)
InTearDown == test # None /\ pc = Len(Steps) + 1

\* kChaosResilientPolicy, or the default policy without retries.
Retries == IF Fixture(test) = "plain" THEN 0 ELSE Len(Backoff)

Timed == InBody /\ Steps[pc].do \in {"poll", "probe"}

-------------------------------------------------------------------------------
Init ==
  /\ server \in Leftovers /\ inbox = <<>> /\ serving = None
  /\ call = Get("health") /\ attempt = 0 /\ mode = "idle" /\ clock = 0
  /\ test = None /\ pc = 0 /\ ids = <<>> /\ tracked = {} /\ since = 0 /\ verdict = "ok"
  /\ tests = 0 /\ mishaps = 0 /\ clean = FALSE /\ before = 0
  /\ calm = 0 /\ took = 0 /\ lost = FALSE

StartCall(req) ==
  /\ mode' = "send" /\ call' = req /\ attempt' = 0 /\ clock' = 0
  /\ took' = 0 /\ lost' = FALSE

Quiet == server.faults = {} /\ inbox = <<>> /\ serving = None

\* SetUp: a new client asks is_healthy().
StartTest(t) ==
  /\ test = None /\ tests < MaxTests
  /\ test' = t /\ tests' = tests + 1 /\ clean' = Quiet /\ before' = server.issued
  /\ pc' = 0 /\ ids' = <<>> /\ tracked' = {} /\ since' = 0 /\ verdict' = "ok" /\ calm' = 0
  /\ StartCall(Get("health"))
  /\ UNCHANGED <<stubVars, mishaps>>

\* The test is over: its process ends.
EndTest ==
  /\ mode = "idle" /\ InTearDown /\ tracked = {}
  /\ test' = None /\ pc' = 0 /\ ids' = <<>>
  /\ UNCHANGED <<stubVars, clientVars, tracked, since, verdict, tests, mishaps,
                 clean, before, pollVars>>

\* On to the next step.
Advance(fails) ==
  /\ pc' = pc + 1 /\ since' = 0 /\ calm' = 0
  /\ verdict' = IF fails THEN "failed" ELSE verdict

\* A failed ASSERT_*, or value() on the null body of {0, {}}: on to TearDown.
Abandon ==
  /\ pc' = Len(Steps) + 1 /\ since' = 0 /\ calm' = 0 /\ verdict' = "failed"

Request(st) ==
  CASE st.do \in {"inject", "send"} -> st.req
    [] st.do = "remove"             -> Delete(ids[st.k])
    [] st.do = "list"               -> Get("chaos")
    [] st.do = "probe"              -> Get("health")
    [] st.do = "poll"               -> Get(CASE st.cond = "listed" -> "chaos"
                                             [] st.cond = "done"   -> "tasks"
                                             [] OTHER              -> "health")

\* wait_until() returns false once the time is up at the head of its loop.
TimeIsUp == mode = "idle" /\ InBody /\ Steps[pc].do = "poll" /\ since >= Steps[pc].upto

PollGivesUp ==
  /\ TimeIsUp
  /\ Advance(FALSE \notin Steps[pc].expect)
  /\ UNCHANGED <<stubVars, clientVars, ids, tracked, sessionVars, took, lost>>

Issue ==
  /\ mode = "idle" /\ InBody /\ ~TimeIsUp
  /\ StartCall(Request(Steps[pc]))
  /\ UNCHANGED <<stubVars, bodyVars, sessionVars, calm>>

\* TearDown deletes what is still tracked, in the order of injection.
CleanUp ==
  /\ mode = "idle" /\ InTearDown /\ tracked # {}
  /\ StartCall(Delete(Min(tracked)))
  /\ UNCHANGED <<stubVars, bodyVars, sessionVars, calm>>

-------------------------------------------------------------------------------
(* What the test makes of a reply; status 0 is the {0, {}} of a lost call. *)

Lost == [status |-> 0, id |-> 0, list |-> {}]

Holds(st, r) ==
  CASE st.cond = "healthy"   -> r.status = 200
    [] st.cond = "unhealthy" -> r.status # 200
    [] st.cond = "listed"    -> r.status = 200 /\ \E f \in r.list : f.type = Steps[1].req.arg
    [] st.cond = "done"      -> \E t \in r.list : t.id = ids[Len(ids)] /\ t.status = "completed"

Fatal(st, r) ==
  \/ st.do = "inject" /\ r.status # 201
  \/ st.do = "list" /\ st.fatal /\ r.status # 200
  \/ st.do = "poll" /\ st.cond = "done" /\ r.status # 200

Unmet(st, r) ==
  CASE st.do = "remove" -> st.checked /\ r.status # 200
    [] st.do = "send"   -> r.status \notin st.ok
    [] st.do = "probe"  -> since \notin st.least .. st.most
    [] st.do = "poll"   -> TRUE \notin st.expect
    [] st.do = "list"   -> LET shown == IdOf(r.list) IN
                           \/ \E k \in st.has : ids[k] \notin shown
                           \/ \E k \in st.lacks : ids[k] \in shown
    [] OTHER            -> FALSE

TrackedAfter(st, r) ==
  CASE st.do = "inject" /\ Fixture(test) = "resilience" /\ st.req.on = "chaos/"
         -> tracked \cup {r.id}
    [] st.do = "remove" -> tracked \ {ids[st.k]}
    [] OTHER -> tracked

\* A wait_until() that sleeps 2.5 s.
LongInterval == 5

\* wait_until() sleeps 500 ms between two evaluations of its predicate.
Interval == 1

BodyReturn(st, r) ==
  IF Fatal(st, r)
  THEN Abandon /\ mode' = "idle" /\ clock' = 0 /\ UNCHANGED <<ids, tracked, test>>
  ELSE IF st.do = "poll" /\ ~Holds(st, r)
  THEN /\ mode' = "pause" /\ clock' = Interval
       /\ UNCHANGED <<pc, ids, tracked, since, verdict, test, calm>>
  ELSE /\ Advance(Unmet(st, r))
       /\ ids' = IF st.do = "inject" THEN Append(ids, r.id) ELSE ids
       /\ tracked' = TrackedAfter(st, r)
       /\ mode' = "idle" /\ clock' = 0 /\ UNCHANGED test

SetUpReturn(r) ==
  /\ mode' = "idle" /\ clock' = 0
  /\ IF r.status = 200
     THEN pc' = 1 /\ UNCHANGED <<test, verdict>>
     ELSE test' = None /\ verdict' = "skipped" /\ UNCHANGED pc
  /\ UNCHANGED <<ids, tracked, since, calm>>

TearDownReturn ==
  /\ mode' = "idle" /\ clock' = 0 /\ tracked' = tracked \ {call.arg}
  /\ UNCHANGED <<pc, ids, since, verdict, test, calm>>

Return(r) ==
  /\ \/ pc = 0 /\ SetUpReturn(r)
     \/ InBody /\ BodyReturn(Steps[pc], r)
     \/ InTearDown /\ TearDownReturn
  /\ lost' = (r.status = 0)
  /\ UNCHANGED <<call, attempt, tests, mishaps, clean, before, took>>

-------------------------------------------------------------------------------
(* run_with_retry() and the sockets under it. *)

Room == Len(inbox) <= Backlog

Connect ==
  /\ mode = "send" /\ Room
  /\ inbox' = Append(inbox, [req |-> call, live |-> TRUE])
  /\ mode' = "wait" /\ clock' = 0
  /\ UNCHANGED <<server, serving, call, attempt, bodyVars, sessionVars, pollVars>>

\* A client that never runs out of attempts.
AttemptFailsForever ==
  IF Retries > 0
  THEN /\ attempt' = (attempt + 1) % Retries /\ mode' = "backoff"
       /\ clock' \in Backoff[attempt + 1]
       /\ UNCHANGED <<call, bodyVars, sessionVars, pollVars>>
  ELSE Return(Lost)

AttemptFails ==
  IF attempt < Retries
  THEN /\ attempt' = attempt + 1 /\ mode' = "backoff"
       /\ clock' \in Backoff[attempt + 1]
       /\ UNCHANGED <<call, bodyVars, sessionVars, pollVars>>
  ELSE Return(Lost)

\* The client closes the connection: nobody hears the reply any more.
Deaf(q) == [i \in DOMAIN q |-> [q[i] EXCEPT !.live = FALSE]]
HangUp ==
  /\ inbox' = Deaf(inbox)
  /\ serving' = IF serving = None THEN None ELSE [serving EXCEPT !.live = FALSE]

TimeOut ==
  /\ \/ mode = "wait" /\ clock >= ReadTimeout
     \/ mode = "send" /\ ~Room /\ clock >= ConnectTimeout
  /\ HangUp
  /\ AttemptFails
  /\ UNCHANGED server

Resume ==
  /\ mode \in {"backoff", "pause"} /\ clock = 0
  /\ mode' = IF mode = "backoff" THEN "send" ELSE "idle"
  /\ UNCHANGED <<stubVars, call, attempt, clock, bodyVars, sessionVars, pollVars>>

-------------------------------------------------------------------------------
(* The stub. *)

\* What a recovery check waits for: no fault is in its way.
Recovered(s) ==
  CASE Steps[pc].cond = "healthy" -> ~KillActive(s)
    [] Steps[pc].cond = "done"    -> ~QueueStarveActive(s)
    [] OTHER                      -> FALSE

Polling == InBody /\ Steps[pc].do = "poll"

\* The handler runs up to its sleep.
Serve ==
  /\ serving = None /\ inbox # <<>>
  /\ LET h == Handle(server, Head(inbox).req) IN
       /\ server' = h.to
       /\ serving' = [live |-> Head(inbox).live, left |-> Delay(h.to),
                      reply |-> [status |-> h.status, id |-> h.id, list |-> h.list]]
       /\ calm' = IF Polling /\ Recovered(h.to) THEN calm ELSE 0
  /\ inbox' = Tail(inbox)
  /\ UNCHANGED <<clientVars, bodyVars, sessionVars, took, lost>>

\* It replies.
Finish ==
  /\ serving # None /\ serving.left = 0
  /\ serving' = None
  /\ IF ~serving.live THEN UNCHANGED <<clientVars, bodyVars, sessionVars, pollVars>>
     ELSE Return(serving.reply)
  /\ UNCHANGED <<server, inbox>>

-------------------------------------------------------------------------------
(* Time, and the two things that happen on their own.                      *)

\* What is left of the client's timer and of the stub's sleep.
Timers ==
  (CASE test = None -> {}
     [] mode = "wait" -> {ReadTimeout - clock}
     [] mode = "send" /\ ~Room -> {ConnectTimeout - clock}
     [] mode \in {"backoff", "pause"} -> {clock}
     [] OTHER -> {0})
  \cup (IF serving # None THEN {serving.left} ELSE IF inbox # <<>> THEN {0} ELSE {})

\* Time passes until the next timer runs out.
Tick ==
  /\ Timers # {} /\ 0 \notin Timers
  /\ LET d == Min(Timers)
         st == Steps[pc]
         limit == IF st.do = "poll" THEN st.upto ELSE Cap
     IN
       /\ serving' = IF serving = None THEN None ELSE [serving EXCEPT !.left = @ - d]
       /\ clock' = CASE test = None -> clock
                     [] mode \in {"wait", "send"} -> clock + d
                     [] OTHER -> clock - d
       /\ since' = IF Timed THEN Min({since + d, limit}) ELSE since
       /\ calm' = IF Polling /\ Recovered(server) THEN calm + d ELSE 0
       /\ took' = IF Polling /\ mode # "pause" THEN took + d ELSE took
  /\ UNCHANGED <<server, inbox, call, attempt, mode, pc, ids, tracked, verdict,
                 sessionVars, lost>>

\* The test process is killed: no TearDown, and nobody hears the reply.
KillTest ==
  /\ test # None /\ mishaps < MaxMishaps
  /\ mishaps' = mishaps + 1 /\ test' = None
  /\ mode' = "idle" /\ clock' = 0 /\ pc' = 0 /\ ids' = <<>> /\ tracked' = {}
  /\ HangUp
  /\ UNCHANGED <<server, call, attempt, since, verdict, tests, clean, before, pollVars>>

\* Somebody deletes a fault that the running test did not inject.
DeleteByHand(id) ==
  /\ mishaps < MaxMishaps /\ Room
  /\ id \in IdOf(server.faults) /\ (test # None => id <= before)
  /\ mishaps' = mishaps + 1
  /\ inbox' = Append(inbox, [req |-> Delete(id), live |-> FALSE])
  /\ UNCHANGED <<server, serving, clientVars, bodyVars, test, tests, clean, before,
                 pollVars>>

-------------------------------------------------------------------------------
Progress ==
  \/ PollGivesUp \/ Issue \/ CleanUp \/ EndTest
  \/ Connect \/ TimeOut \/ Resume
  \/ Serve \/ Finish
  \/ Tick

Next ==
  \/ Progress
  \/ \E t \in Tests : StartTest(t)
  \/ KillTest
  \/ \E f \in server.faults : DeleteByHand(f.id)

Spec == Init /\ [][Next]_vars

\* Time passes, the stub serves, and a process that runs goes on.
FairSpec == Spec /\ WF_vars(Progress)

-------------------------------------------------------------------------------
(* Properties. *)

TypeOK ==
  /\ WellFormed(server)
  /\ \A e \in Range(inbox) : e.live \in BOOLEAN
  /\ Cardinality({i \in DOMAIN inbox : inbox[i].live}) <= 1
  /\ mode \in {"idle", "send", "wait", "backoff", "pause"}
  /\ attempt \in 0 .. Len(Backoff) /\ clock \in Nat
  /\ verdict \in {"ok", "failed", "skipped"}
  /\ tracked \subseteq 1 .. server.issued

\* A test that starts on an idle server without faults runs and passes: no
\* timeout, retry, poll deadline or effect of its own faults can fail it.
CleanTestsPass == clean => verdict = "ok"

\* Such a test, if it is not killed, leaves no fault and no request behind.
CleanTestsStayClean ==
  [][clean /\ test # None /\ test' = None /\ mishaps' = mishaps => Quiet']_vars

\* A recovery check gives up only if what it waits for has not been true for
\* longer than one evaluation of its predicate and one sleep, or if its last
\* evaluation got no reply.
GivesUpForAReason ==
  TimeIsUp /\ Steps[pc].cond \in {"healthy", "done"} => lost \/ calm <= took + 1

\* Whatever happened to the stub: the requests of its smoke test get the
\* statuses that test expects, and those it refuses leave no trace.
DiagnosticsAreHarmless ==
  \A i \in DOMAIN SmokeTest :
    LET h == Handle(server, SmokeTest[i].req) IN
      /\ h.status = SmokeTest[i].expect
      /\ h.status >= 400 => h.to = server

\* Every test comes to its end, however slow the server has become.
TestsEnd == (test # None) ~> (test = None)
===============================================================================
