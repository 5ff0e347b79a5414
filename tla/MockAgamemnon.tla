---------------------------- MODULE MockAgamemnon ----------------------------
(***************************************************************************)
(* The request handlers of scripts/mock-agamemnon.py as operators on the   *)
(* stub's state.  Handle(s, q) is what the stub makes of request q in      *)
(* state s: the next state `to`, the HTTP status, the id of a record it    *)
(* created and the list it returns.  JSON bodies that are not objects,      *)
(* which no test sends, are left out.                                      *)
(*                                                                         *)
(* The stub serves one request at a time, so a handler is one step up to   *)
(* the sleep in _send(); Delay(s) is the length of that sleep.             *)
(***************************************************************************)
EXTENDS Naturals, FiniteSets, FiniteSetsExt

ChaosTypes == {"network-partition", "latency", "kill", "queue-starve", "test-empty"}

\* The Content-Type header; "" is what an absent one reads as.
IsJson(ct) == ct \in {"application/json", ""}

\* `on` is the path's shape and `arg` what follows it: a chaos type, a fault id.
\* A body is "empty", "unparseable", "null" or an "object".
Get(on) == [verb |-> "GET", on |-> on, arg |-> 0, body |-> "empty", ct |-> "", delay |-> 0]
Delete(id) == [Get("chaos/") EXCEPT !.verb = "DELETE", !.arg = id]
PostChaos(type, body, delay) ==
  [verb |-> "POST", on |-> "chaos/", arg |-> type, body |-> body,
   ct |-> "application/json", delay |-> delay]
Post(on, body, ct) ==
  [verb |-> "POST", on |-> on, arg |-> 0, body |-> body, ct |-> ct, delay |-> 0]

Empty == [faults |-> {}, tasks |-> {}, teams |-> {}, agents |-> {}, issued |-> 0]

-------------------------------------------------------------------------------
(* The three chaos effects. *)

OfType(s, type) == {f \in s.faults : f.type = type}
KillActive(s) == OfType(s, "kill") # {}
QueueStarveActive(s) == OfType(s, "queue-starve") # {}

\* The sum over the active latency faults, read when the reply is sent: a POST
\* that creates one is itself delayed by it, the DELETE of one no longer is.
Delay(s) == MapThenSumSet(LAMBDA f : f.delay, OfType(s, "latency"))

-------------------------------------------------------------------------------
Reply(s, status) == [to |-> s, status |-> status, id |-> 0, list |-> {}]

\* Every record is stored under a fresh id before the reply.
Created(s) == [to |-> s, status |-> 201, id |-> s.issued, list |-> {}]

\* A queue that completes its tasks whether or not it is starved.
CompleteAlways(s) == [s EXCEPT !.tasks = {[t EXCEPT !.status = "completed"] : t \in s.tasks}]

\* Listing the tasks is what completes them: all of them, unless starved.
CompleteTasks(s) ==
  IF QueueStarveActive(s) THEN s
  ELSE [s EXCEPT !.tasks = {[t EXCEPT !.status = "completed"] : t \in s.tasks}]

DoGet(s, q) ==
  CASE q.on = "health" -> Reply(s, IF KillActive(s) THEN 503 ELSE 200)
    [] q.on = "chaos"  -> [Reply(s, 200) EXCEPT !.list = s.faults]
    [] q.on = "tasks"  -> LET done == CompleteTasks(s)
                          IN  [Reply(done, 200) EXCEPT !.list = done.tasks]
    [] OTHER           -> Reply(s, 404)

\* A fault stored under an id of its own choice, not a fresh one.
AddFaultUnissued(s, q) ==
  LET id == s.issued + 1
  IN  Created([s EXCEPT !.faults = @ \cup {[id |-> id, type |-> q.arg, delay |-> q.delay]}])

\* Only an object can carry a delay_ms.
AddFault(s, q) ==
  LET id == s.issued + 1
  IN  Created([s EXCEPT !.issued = id,
                        !.faults = @ \cup {[id |-> id, type |-> q.arg, delay |-> q.delay]}])

\* test-empty that only refuses an empty body.
PostFaultLax(s, q) ==
  CASE q.arg \notin ChaosTypes \/ q.body = "empty" -> Reply(s, 400)
    [] OTHER                                       -> AddFault(s, q)

\* A body that is not empty counts as a request, parseable or not.
PostFault(s, q) ==
  CASE q.arg \notin ChaosTypes -> Reply(s, 404)
    [] q.arg = "test-empty"    -> Reply(s, 400)
    [] q.body = "empty"        -> Reply(s, 400)
    [] OTHER                   -> AddFault(s, q)

\* The collections want a JSON content type and a parseable body.
Acceptable(q) == IsJson(q.ct) /\ q.body = "object"

PostTeam(s, q) ==
  IF ~Acceptable(q) THEN Reply(s, 400)
  ELSE Created([s EXCEPT !.issued = @ + 1, !.teams = @ \cup {s.issued + 1}])

\* The team in the path is not looked up.
PostTask(s, q) ==
  IF ~Acceptable(q) THEN Reply(s, 400)
  ELSE Created([s EXCEPT !.issued = @ + 1,
                         !.tasks = @ \cup {[id |-> s.issued + 1, status |-> "pending"]}])

PostAgent(s, q) ==
  IF ~Acceptable(q) THEN Reply(s, 400)
  ELSE Created([s EXCEPT !.issued = @ + 1, !.agents = @ \cup {s.issued + 1}])

DoPost(s, q) ==
  CASE q.on = "chaos/"      -> PostFault(s, q)
    [] q.on = "teams"       -> PostTeam(s, q)
    [] q.on = "teams/tasks" -> PostTask(s, q)
    [] q.on = "agents"      -> PostAgent(s, q)
    [] OTHER                -> Reply(s, 404)

\* A DELETE that finds the fault and forgets to delete it.
DoDeleteNothing(s, q) ==
  Reply(s, IF q.on = "chaos/" /\ \E f \in s.faults : f.id = q.arg THEN 200 ELSE 404)

DoDelete(s, q) ==
  IF q.on = "chaos/" /\ \E f \in s.faults : f.id = q.arg
  THEN Reply([s EXCEPT !.faults = {f \in @ : f.id # q.arg}], 200)
  ELSE Reply(s, 404)

Handle(s, q) ==
  CASE q.verb = "GET"    -> DoGet(s, q)
    [] q.verb = "POST"   -> DoPost(s, q)
    [] q.verb = "DELETE" -> DoDelete(s, q)

-------------------------------------------------------------------------------
(* What scripts/test-mock-agamemnon.py asks of the stub: its requests, in   *)
(* order, and the status each must get.                                     *)

Ask(type, body, status) == [req |-> PostChaos(type, body, 0), expect |-> status]

SmokeTest ==
  << Ask("test-empty", "empty", 400), Ask("test-empty", "object", 400),
     Ask("test-empty", "unparseable", 400), Ask("latency", "object", 201),
     Ask("latency", "empty", 400) >>

IdOf(S) == {x.id : x \in S}

\* What a state of the stub may be.
State ==
  [faults : SUBSET [id : Nat, type : ChaosTypes \ {"test-empty"}, delay : Nat],
   tasks : SUBSET [id : Nat, status : {"pending", "completed"}],
   teams : SUBSET Nat, agents : SUBSET Nat, issued : Nat]

\* Every record has an id that was issued, and the next id is new.
WellFormed(s) ==
  /\ s \in State
  /\ \A x \in s.faults \cup s.tasks : x.id \in 1 .. s.issued
  /\ s.teams \cup s.agents \subseteq 1 .. s.issued
===============================================================================
