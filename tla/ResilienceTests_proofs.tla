------------------------ MODULE ResilienceTests_proofs ------------------------
(***************************************************************************)
(* For every session of the tests, with any timeouts, backoffs, left-overs *)
(* and mishaps: the types, with at most one request that is still heard;   *)
(* why a recovery check of a chaos test may give up; and that the smoke    *)
(* test of the stub gets its replies in every state. For every session     *)
(* whose client waits longer than the stub sleeps (RoomAndTime): a test    *)
(* that begins on an idle stub without faults passes, and leaves it so.    *)
(***************************************************************************)
EXTENDS ResilienceTests, FiniteSetTheorems, SequenceTheorems, WellFoundedInduction, TLAPS

IsRequest(q) == q.verb \in {"GET", "POST", "DELETE"} /\ q.delay \in Nat

StepOK(st) ==
  /\ st.do \in {"inject", "send", "remove", "list", "probe", "poll"}
  /\ st.do \in {"inject", "send"} => IsRequest(st.req)

ScriptOK(script) == Len(script) \in Nat /\ \A k \in 1 .. Len(script) : StepOK(script[k])

\* The requests the tests are written with.
LEMMA RequestsAreRequests ==
  ASSUME NEW on, NEW id, NEW type, NEW body, NEW ct, NEW delay \in Nat
  PROVE  /\ IsRequest(Get(on)) /\ IsRequest(Delete(id))
         /\ IsRequest(PostChaos(type, body, delay)) /\ IsRequest(Post(on, body, ct))
BY DEF IsRequest, Get, Delete, PostChaos, Post

\* The steps the scripts are made of.
LEMMA StepsAreSteps ==
  ASSUME NEW on, NEW k, NEW type, NEW body, NEW ct, NEW delay \in Nat,
         NEW has, NEW lacks, NEW fatal, NEW cond, NEW upto, NEW expect, NEW least, NEW most, NEW ok
  PROVE  /\ StepOK(Inject(type, delay)) /\ StepOK(InjectApi(type)) /\ StepOK(Create(on))
         /\ StepOK(Remove(k)) /\ StepOK(RemoveApi(k)) /\ StepOK(List(has, lacks, fatal))
         /\ StepOK(Poll(cond, upto, expect)) /\ StepOK(Probe(least, most))
         /\ StepOK(Send(on, body, ct, ok)) /\ StepOK(SendChaos(type, body, ok)) /\ StepOK(Healthy)
BY RequestsAreRequests DEF StepOK, Inject, InjectApi, Create, Remove, RemoveApi, List, Poll, Probe,
   Send, SendChaos, Healthy

\* A script of three steps.
LEMMA ThreeSteps ==
  ASSUME NEW s, Len(s) = 3, StepOK(s[1]), StepOK(s[2]), StepOK(s[3])
  PROVE  ScriptOK(s)
<1>1. \A k \in 1 .. 3 : StepOK(s[k])
  OBVIOUS
<1> QED
  BY <1>1 DEF ScriptOK

\* The scripts.
LEMMA ScriptsAreScripts == \A t \in TestNames : ScriptOK(Script(t))
<1> USE StepsAreSteps DEF ScriptOK
<1>1. ScriptOK(Script("R01"))
  BY DEF Script
<1>2. ScriptOK(Script("R02"))
  BY DEF Script
<1>3. ScriptOK(Script("R03"))
  BY DEF Script
<1>4. ScriptOK(Script("R04"))
  BY DEF Script
<1>5. ScriptOK(Script("R05"))
  <2> DEFINE s == Script("R05")
  <2>1. Len(s) = 8 /\ s[1] = Inject("latency", 3) /\ s[2] = Inject("kill", 0)
        /\ s[3].do = "list" /\ s[4] = Poll("unhealthy", 10, {TRUE})
    BY DEF Script, List
  <2>2. s[5] = Remove(1) /\ s[6] = Remove(2)
        /\ s[7] = Poll("healthy", 20, {TRUE}) /\ s[8].do = "list"
    BY DEF Script, List
  <2>3. StepOK(s[3]) /\ StepOK(s[8])
    <3> HIDE DEF s
    <3> QED
      BY <2>1, <2>2 DEF StepOK
  <2>4. \A k \in 1 .. 8 : StepOK(s[k])
    <3> HIDE DEF s
    <3> QED
      BY <2>1, <2>2, <2>3
  <2>5. ScriptOK(s)
    <3> HIDE DEF s
    <3> QED
      BY <2>1, <2>4
  <2> QED
    BY <2>5, Zenon
<1>6. ScriptOK(Script("E01"))
  <2> DEFINE s == Script("E01")
  <2>1. Len(s) = 3 /\ s[1] = InjectApi("network-partition") /\ s[2] = List({1}, {}, FALSE) /\ s[3] = RemoveApi(1)
    BY DEF Script
  <2>2. StepOK(InjectApi("network-partition")) /\ StepOK(List({1}, {}, FALSE)) /\ StepOK(RemoveApi(1))
    BY StepsAreSteps
  <2> HIDE DEF s
  <2>3. StepOK(s[1]) /\ StepOK(s[2]) /\ StepOK(s[3])
    BY <2>1, <2>2, Zenon
  <2>4. ScriptOK(s)
    BY <2>1, <2>3, ThreeSteps, Zenon
  <2> QED
    BY <2>4 DEF s
<1>7. ScriptOK(Script("E02"))
  BY DEF Script
<1>8. ScriptOK(Script("E03"))
  BY DEF Script
<1>9. ScriptOK(Script("E04"))
  <2> DEFINE s == Script("E04")
  <2>1. Len(s) = 3 /\ s[1] = Inject("queue-starve", 0) /\ s[2] = Remove(1) /\ s[3] = List({}, {1}, TRUE)
    BY DEF Script
  <2>2. StepOK(Inject("queue-starve", 0)) /\ StepOK(Remove(1)) /\ StepOK(List({}, {1}, TRUE))
    BY StepsAreSteps
  <2> HIDE DEF s
  <2>3. StepOK(s[1]) /\ StepOK(s[2]) /\ StepOK(s[3])
    BY <2>1, <2>2, Zenon
  <2>4. ScriptOK(s)
    BY <2>1, <2>3, ThreeSteps, Zenon
  <2> QED
    BY <2>4 DEF s
<1>10. ScriptOK(Script("C10"))
  BY DEF Script
<1>11. ScriptOK(Script("TaskState"))
  BY DEF Script
<1>12. ScriptOK(Script("Malformed"))
  BY DEF Script
<1>13. ScriptOK(Script("TestEmpty"))
  BY DEF Script
<1> QED
  BY <1>1, <1>2, <1>3, <1>4, <1>5, <1>6, <1>7, <1>8, <1>9, <1>10, <1>11, <1>12, <1>13 DEF TestNames

-------------------------------------------------------------------------------
(* The stub. *)

\* What a state of the stub may be, with the faults that it can add up.
StubOK(s) == WellFormed(s) /\ IsFiniteSet(s.faults)

\* A reply carries the id of an issued record, or none.
ReplyOK(s, r) == r.id \in 0 .. s.issued /\ (r.status = 201 => r.id \in 1 .. s.issued)

\* What every handler keeps of a state.
Kept(s, h) ==
  /\ StubOK(h.to) /\ s.issued <= h.to.issued /\ ReplyOK(h.to, h)
  /\ IdOf(s.tasks) \subseteq IdOf(h.to.tasks)

\* A reply that changes nothing.
LEMMA ReplyKeeps ==
  ASSUME NEW s, StubOK(s), NEW status, status # 201
  PROVE  Kept(s, Reply(s, status))
<1>1. s.issued \in Nat
  BY DEF StubOK, WellFormed, State
<1> QED
  BY <1>1 DEF Kept, Reply, ReplyOK

\* One more record, under the next id.
LEMMA OneMore ==
  ASSUME NEW s \in State, NEW n \in Nat
  PROVE  /\ \A x \in SUBSET [id : Nat, type : ChaosTypes \ {"test-empty"}, delay : Nat] :
              [s EXCEPT !.issued = n, !.faults = x] \in State
         /\ \A x \in SUBSET [id : Nat, status : {"pending", "completed"}] :
              [s EXCEPT !.issued = n, !.tasks = x] \in State
         /\ \A x \in SUBSET Nat :
              [s EXCEPT !.issued = n, !.teams = x] \in State
         /\ \A x \in SUBSET Nat :
              [s EXCEPT !.issued = n, !.agents = x] \in State
<1>1. ASSUME NEW x \in SUBSET [id : Nat, type : ChaosTypes \ {"test-empty"}, delay : Nat]
      PROVE  [s EXCEPT !.issued = n, !.faults = x] \in State
  BY DEF State
<1>2. ASSUME NEW x \in SUBSET [id : Nat, status : {"pending", "completed"}]
      PROVE  [s EXCEPT !.issued = n, !.tasks = x] \in State
  BY DEF State
<1>3. ASSUME NEW x \in SUBSET Nat
      PROVE  [s EXCEPT !.issued = n, !.teams = x] \in State
  BY DEF State
<1>4. ASSUME NEW x \in SUBSET Nat
      PROVE  [s EXCEPT !.issued = n, !.agents = x] \in State
  BY DEF State
<1> QED
  BY <1>1, <1>2, <1>3, <1>4

\* POST of a fault, a team, an agent or a task.
LEMMA DoPostKeeps ==
  ASSUME NEW s, StubOK(s), NEW q, q.delay \in Nat
  PROVE  /\ Kept(s, DoPost(s, q))
         /\ q.on = "teams/tasks" /\ DoPost(s, q).status = 201
              => DoPost(s, q).id \in IdOf(DoPost(s, q).to.tasks)
<1> DEFINE h == DoPost(s, q)
           new == s.issued + 1
<1>0. h = DoPost(s, q) /\ new = s.issued + 1
  OBVIOUS
<1>1. s \in State /\ new \in Nat /\ s.issued \in Nat /\ s.issued < new /\ IsFiniteSet(s.faults)
  BY DEF StubOK, WellFormed, State
<1> HIDE DEF h, new
<1>2. h = Reply(s, 400) \/ h = Reply(s, 404) => Kept(s, h) /\ h.status # 201
  BY ReplyKeeps DEF Reply
<1>3. ASSUME q.arg \in ChaosTypes, q.arg # "test-empty", h = AddFault(s, q) PROVE Kept(s, h)
  <2> DEFINE f == [id |-> new, type |-> q.arg, delay |-> q.delay]
  <2>1. /\ h.to = [s EXCEPT !.issued = new, !.faults = s.faults \cup {f}]
        /\ h.id = new /\ h.status = 201
    BY <1>0, <1>1, <1>3 DEF AddFault, Created, State
  <2>2. h.to \in State
    <3>1. s.faults \cup {f} \in SUBSET [id : Nat, type : ChaosTypes \ {"test-empty"}, delay : Nat]
      BY <1>1, <1>3 DEF State
    <3>2. [s EXCEPT !.issued = new, !.faults = s.faults \cup {f}] \in State
      BY <1>1, <3>1, OneMore
    <3> QED
      BY <2>1, <3>2
  <2>3. /\ h.to.faults = s.faults \cup {f} /\ h.to.issued = new
        /\ h.to.tasks = s.tasks /\ h.to.teams = s.teams /\ h.to.agents = s.agents
    BY <1>1, <2>1 DEF State
  <2>4. WellFormed(h.to)
    BY <1>1, <2>2, <2>3 DEF StubOK, WellFormed
  <2>5. IdOf(s.tasks) \subseteq IdOf(h.to.tasks)
    BY <2>3 DEF IdOf
  <2>6. IsFiniteSet(h.to.faults)
    <3> HIDE DEF f
    <3> QED
      BY <1>1, <2>3, FS_AddElement
  <2> QED
    BY <1>1, <2>1, <2>3, <2>4, <2>5, <2>6 DEF Kept, StubOK, ReplyOK
<1>4. ASSUME h = PostTeam(s, q), Acceptable(q) PROVE Kept(s, h)
  <2>1. /\ h.to = [s EXCEPT !.issued = new, !.teams = s.teams \cup {new}]
        /\ h.id = new /\ h.status = 201
    BY <1>0, <1>1, <1>4 DEF PostTeam, Created, State
  <2>2. h.to \in State
    <3>1. s.teams \cup {new} \in SUBSET Nat
      BY <1>1, <1>4 DEF State
    <3>2. [s EXCEPT !.issued = new, !.teams = s.teams \cup {new}] \in State
      BY <1>1, <3>1, OneMore
    <3> QED
      BY <2>1, <3>2
  <2>3. /\ h.to.teams = s.teams \cup {new} /\ h.to.issued = new
        /\ h.to.faults = s.faults /\ h.to.tasks = s.tasks /\ h.to.agents = s.agents
    BY <1>1, <2>1 DEF State
  <2>4. WellFormed(h.to)
    BY <1>1, <2>2, <2>3 DEF StubOK, WellFormed
  <2>5. IdOf(s.tasks) \subseteq IdOf(h.to.tasks)
    BY <2>3 DEF IdOf
  <2>6. IsFiniteSet(h.to.faults)
    BY <1>1, <2>3
  <2> QED
    BY <1>1, <2>1, <2>3, <2>4, <2>5, <2>6 DEF Kept, StubOK, ReplyOK
<1>5. ASSUME h = PostAgent(s, q), Acceptable(q) PROVE Kept(s, h)
  <2>1. /\ h.to = [s EXCEPT !.issued = new, !.agents = s.agents \cup {new}]
        /\ h.id = new /\ h.status = 201
    BY <1>0, <1>1, <1>5 DEF PostAgent, Created, State
  <2>2. h.to \in State
    <3>1. s.agents \cup {new} \in SUBSET Nat
      BY <1>1, <1>5 DEF State
    <3>2. [s EXCEPT !.issued = new, !.agents = s.agents \cup {new}] \in State
      BY <1>1, <3>1, OneMore
    <3> QED
      BY <2>1, <3>2
  <2>3. /\ h.to.agents = s.agents \cup {new} /\ h.to.issued = new
        /\ h.to.faults = s.faults /\ h.to.tasks = s.tasks /\ h.to.teams = s.teams
    BY <1>1, <2>1 DEF State
  <2>4. WellFormed(h.to)
    BY <1>1, <2>2, <2>3 DEF StubOK, WellFormed
  <2>5. IdOf(s.tasks) \subseteq IdOf(h.to.tasks)
    BY <2>3 DEF IdOf
  <2>6. IsFiniteSet(h.to.faults)
    BY <1>1, <2>3
  <2> QED
    BY <1>1, <2>1, <2>3, <2>4, <2>5, <2>6 DEF Kept, StubOK, ReplyOK
<1>6. ASSUME h = PostTask(s, q), Acceptable(q) PROVE Kept(s, h) /\ h.id \in IdOf(h.to.tasks)
  <2> DEFINE t == [id |-> new, status |-> "pending"]
  <2>1. /\ h.to = [s EXCEPT !.issued = new, !.tasks = s.tasks \cup {t}]
        /\ h.id = new /\ h.status = 201
    BY <1>0, <1>1, <1>6 DEF PostTask, Created, State
  <2>2. h.to \in State
    <3>1. s.tasks \cup {t} \in SUBSET [id : Nat, status : {"pending", "completed"}]
      BY <1>1, <1>6 DEF State
    <3>2. [s EXCEPT !.issued = new, !.tasks = s.tasks \cup {t}] \in State
      BY <1>1, <3>1, OneMore
    <3> QED
      BY <2>1, <3>2
  <2>3. /\ h.to.tasks = s.tasks \cup {t} /\ h.to.issued = new
        /\ h.to.faults = s.faults /\ h.to.teams = s.teams /\ h.to.agents = s.agents
    BY <1>1, <2>1 DEF State
  <2>4. WellFormed(h.to)
    BY <1>1, <2>2, <2>3 DEF StubOK, WellFormed
  <2>5. IdOf(s.tasks) \subseteq IdOf(h.to.tasks) /\ new \in IdOf(h.to.tasks)
    <3>1. t.id = new
      OBVIOUS
    <3> HIDE DEF t
    <3> QED
      BY <2>3, <3>1 DEF IdOf
  <2>6. IsFiniteSet(h.to.faults)
    BY <1>1, <2>3
  <2> QED
    BY <1>1, <2>1, <2>3, <2>4, <2>5, <2>6 DEF Kept, StubOK, ReplyOK
<1>7. CASE q.on = "chaos/"
  BY <1>0, <1>2, <1>3, <1>7 DEF DoPost, PostFault
<1>8. CASE q.on = "teams"
  BY <1>0, <1>2, <1>4, <1>8 DEF DoPost, PostTeam
<1>9. CASE q.on = "agents"
  BY <1>0, <1>2, <1>5, <1>9 DEF DoPost, PostAgent
<1>10. CASE q.on = "teams/tasks"
  BY <1>0, <1>2, <1>6, <1>10 DEF DoPost, PostTask
<1>11. CASE q.on \notin {"chaos/", "teams", "agents", "teams/tasks"}
  BY <1>0, <1>2, <1>11 DEF DoPost
<1> QED
  BY <1>0, <1>7, <1>8, <1>9, <1>10, <1>11

\* GET: listing the tasks completes them, all of them, unless they are starved.
LEMMA DoGetKeeps ==
  ASSUME NEW s, StubOK(s), NEW q
  PROVE  LET h == DoGet(s, q) IN
         /\ Kept(s, h)
         /\ q.on = "health" /\ ~KillActive(h.to) => h.status = 200
         /\ q.on = "tasks" => /\ h.list = h.to.tasks
                              /\ ~QueueStarveActive(h.to) =>
                                   \A t \in h.list : t.status = "completed"
<1> DEFINE h == DoGet(s, q)
           finished(t) == [t EXCEPT !.status = "completed"]
<1>1. s \in State /\ IsFiniteSet(s.faults) /\ s.issued \in Nat
  BY DEF StubOK, WellFormed, State
<1>2. CASE q.on = "health"
  BY <1>2, ReplyKeeps DEF DoGet, Reply
<1>3. CASE q.on = "chaos"
  BY <1>1, <1>3 DEF DoGet, Reply, Kept, ReplyOK
<1>4. CASE q.on = "tasks"
  <2>1. h = [Reply(CompleteTasks(s), 200) EXCEPT !.list = CompleteTasks(s).tasks]
    BY <1>4 DEF DoGet
  <2>2. h.to = CompleteTasks(s) /\ h.list = h.to.tasks /\ h.status = 200 /\ h.id = 0
    BY <2>1 DEF Reply
  <2>3. CASE QueueStarveActive(s)
    <3>1. h.to = s
      BY <2>2, <2>3 DEF CompleteTasks
    <3> QED
      BY <1>1, <1>4, <2>2, <2>3, <3>1 DEF Kept, ReplyOK
  <2>4. CASE ~QueueStarveActive(s)
    <3>1. h.to = [s EXCEPT !.tasks = {finished(t) : t \in s.tasks}]
      BY <2>2, <2>4 DEF CompleteTasks
    <3>2. h.to.tasks = {finished(t) : t \in s.tasks} /\ h.to.faults = s.faults /\ h.to.issued = s.issued
          /\ h.to.teams = s.teams /\ h.to.agents = s.agents
      BY <1>1, <3>1 DEF State
    <3>3. \A t \in s.tasks : finished(t) = [id |-> t.id, status |-> "completed"]
      BY <1>1 DEF State
    <3>4. h.to \in State
      BY <1>1, <3>1, <3>3 DEF State
    <3>5. \A t \in s.tasks : finished(t).id = t.id
      BY <3>3
    <3>6. WellFormed(h.to)
      BY <3>2, <3>4, <3>5 DEF StubOK, WellFormed
    <3>7. IdOf(s.tasks) \subseteq IdOf(h.to.tasks)
      BY <3>2, <3>5 DEF IdOf
    <3>8. Kept(s, h)
      BY <1>1, <2>2, <3>2, <3>6, <3>7 DEF Kept, ReplyOK, StubOK
    <3>9. \A t \in s.tasks : finished(t).status = "completed"
      BY <3>3
    <3>10. \A t \in h.list : t.status = "completed"
      <4> HIDE DEF finished, h
      <4> QED
        BY <2>2, <3>2, <3>9
    <3> QED
      BY <1>4, <2>2, <3>8, <3>10
  <2> QED
    BY <2>3, <2>4
<1>5. CASE q.on \notin {"health", "chaos", "tasks"}
  BY <1>5, ReplyKeeps DEF DoGet
<1> QED
  BY <1>2, <1>3, <1>4, <1>5

\* DELETE: an id that names a fault takes it away.
LEMMA DoDeleteKeeps ==
  ASSUME NEW s, StubOK(s), NEW q
  PROVE  Kept(s, DoDelete(s, q))
<1> DEFINE rest == [s EXCEPT !.faults = {f \in s.faults : f.id # q.arg}]
<1>1. s \in State
  BY DEF StubOK, WellFormed
<1>2. DoDelete(s, q) \in {Reply(rest, 200), Reply(s, 404)}
  BY <1>1 DEF DoDelete, State
<1>3. rest.faults \subseteq s.faults /\ rest.tasks = s.tasks /\ rest.issued = s.issued
      /\ rest.teams = s.teams /\ rest.agents = s.agents /\ rest \in State
  BY <1>1 DEF State
<1>4. StubOK(rest)
  BY <1>3, FS_Subset DEF StubOK, WellFormed
<1>5. Kept(rest, Reply(rest, 200)) => Kept(s, Reply(rest, 200))
  BY <1>3 DEF Kept
<1> QED
  BY <1>2, <1>4, <1>5, ReplyKeeps

\* Every request that a test sends keeps the stub's records in order.
LEMMA HandleKeeps ==
  ASSUME NEW s, StubOK(s), NEW q, IsRequest(q)
  PROVE  Kept(s, Handle(s, q))
BY DoGetKeeps, DoPostKeeps, DoDeleteKeeps DEF Handle, IsRequest

-------------------------------------------------------------------------------
(* The accept queue. *)

EntryOK(e) == e \in [req : {e.req}, live : BOOLEAN] /\ IsRequest(e.req)
QueueOK(q) == (\E S : q \in Seq(S)) /\ \A i \in 1 .. Len(q) : EntryOK(q[i])

\* A connection is accepted at the end of the queue,
LEMMA Accepted ==
  ASSUME NEW q, QueueOK(q), NEW e, EntryOK(e)
  PROVE  /\ QueueOK(Append(q, e)) /\ Len(q) \in Nat /\ Len(Append(q, e)) = Len(q) + 1
         /\ \A i \in 1 .. Len(q) : Append(q, e)[i] = q[i]
         /\ Append(q, e)[Len(q) + 1] = e
<1>1. PICK S : q \in Seq(S)
  BY DEF QueueOK
<1> DEFINE T == S \cup {e}
<1>2. q \in Seq(T)
  BY <1>1, SeqMonotonic, Zenon
<1> HIDE DEF T
<1>3. e \in T
  BY DEF T
<1>4. /\ Append(q, e) \in Seq(T) /\ Len(q) \in Nat /\ Len(Append(q, e)) = Len(q) + 1
      /\ \A i \in 1 .. Len(q) : Append(q, e)[i] = q[i]
      /\ Append(q, e)[Len(q) + 1] = e
  BY <1>2, <1>3, AppendProperties
<1> QED
  BY <1>4 DEF QueueOK

\* served from its head,
LEMMA Popped ==
  ASSUME NEW q, QueueOK(q), q # <<>>
  PROVE  /\ QueueOK(Tail(q)) /\ EntryOK(Head(q)) /\ Head(q) = q[1] /\ 1 \in 1 .. Len(q)
         /\ Len(Tail(q)) = Len(q) - 1 /\ Len(q) \in Nat
         /\ \A i \in 1 .. Len(q) - 1 : Tail(q)[i] = q[i + 1]
<1>1. PICK S : q \in Seq(S)
  BY DEF QueueOK
<1>2. /\ Head(q) = q[1] /\ Tail(q) \in Seq(S) /\ Len(Tail(q)) = Len(q) - 1
      /\ \A i \in 1 .. Len(Tail(q)) : Tail(q)[i] = q[i + 1]
  BY <1>1, HeadTailProperties
<1>3. Len(q) \in Nat /\ Len(q) >= 1
  BY <1>1, LenProperties, EmptySeq
<1> QED
  BY <1>2, <1>3 DEF QueueOK

\* and stays where it is when its client closes the connection.
LEMMA Deafened ==
  ASSUME NEW q, QueueOK(q)
  PROVE  /\ QueueOK(Deaf(q)) /\ Len(Deaf(q)) = Len(q) /\ Len(q) \in Nat
         /\ \A i \in 1 .. Len(q) : ~Deaf(q)[i].live
<1>1. PICK S : q \in Seq(S)
  BY DEF QueueOK
<1>2. Len(q) \in Nat /\ DOMAIN q = 1 .. Len(q)
  BY <1>1, LenProperties
<1> DEFINE T == {[q[i] EXCEPT !.live = FALSE] : i \in 1 .. Len(q)}
<1>3. Deaf(q) = [i \in 1 .. Len(q) |-> [q[i] EXCEPT !.live = FALSE]]
  BY <1>2 DEF Deaf
<1>4. \A e : EntryOK(e) =>
        EntryOK([e EXCEPT !.live = FALSE]) /\ [e EXCEPT !.live = FALSE].live = FALSE
  BY DEF EntryOK
<1>5. Deaf(q) \in Seq(T)
  <2>1. Deaf(q) \in [1 .. Len(q) -> T]
    BY <1>3
  <2> HIDE DEF T
  <2> QED
    BY <1>2, <2>1, SeqDef
<1>6. Len(Deaf(q)) = Len(q)
  BY <1>2, <1>3, <1>5, LenProperties
<1>7. \A i \in 1 .. Len(q) : EntryOK(q[i]) /\ Deaf(q)[i] = [q[i] EXCEPT !.live = FALSE]
  BY <1>3 DEF QueueOK
<1>8. ASSUME NEW i \in 1 .. Len(q) PROVE EntryOK(Deaf(q)[i]) /\ ~Deaf(q)[i].live
  <2>1. EntryOK(q[i]) /\ Deaf(q)[i] = [q[i] EXCEPT !.live = FALSE]
    BY <1>7
  <2>2. EntryOK([q[i] EXCEPT !.live = FALSE]) /\ [q[i] EXCEPT !.live = FALSE].live = FALSE
    BY <1>4, <2>1
  <2> QED
    BY <2>1, <2>2, Zenon
<1> QED
  BY <1>2, <1>5, <1>6, <1>8 DEF QueueOK

\* The first of at most two timers to run out.
LEMMA FirstTimer ==
  ASSUME NEW a \in Nat, NEW b \in Nat
  PROVE  /\ Min({a}) = a
         /\ Min({a, b}) \in Nat /\ Min({a, b}) <= a /\ Min({a, b}) <= b
<1>1. \E x \in {a} : \A y \in {a} : x <= y
  OBVIOUS
<1>2. \E x \in {a, b} : \A y \in {a, b} : x <= y
  OBVIOUS
<1> QED
  BY <1>1, <1>2 DEF Min

-------------------------------------------------------------------------------
(* The latency faults of a state have a sum.  MapThenSumSet is recursive, so *)
(* that it has a value at all is shown by induction on the number of faults. *)

\* A set of natural numbers has a least one.
LEMMA Least ==
  ASSUME NEW T, T \subseteq Nat, T # {}
  PROVE  \E n \in T : \A m \in T : n <= m
<1>1. PICK n \in T : \A m \in T : ~(<<m, n>> \in OpToRel(<, Nat))
  BY NatLessThanWellFounded, WFMin, Zenon
<1>2. \A m \in T : ~(m < n)
  BY <1>1 DEF OpToRel
<1> QED
  BY <1>2

\* The sum of a set from the sums of smaller ones, as MapThenSumSet forms it.
First(s) == CHOOSE x \in s : TRUE
SumStep(g, s) == IF s = {} THEN 0 ELSE First(s).delay + g[s \ {First(s)}]

\* Taking an element out leaves a smaller set.
LEMMA OneLess ==
  ASSUME NEW S, IsFiniteSet(S), NEW s \in SUBSET S, s # {}
  PROVE  /\ First(s) \in s /\ s \ {First(s)} \in SUBSET S
         /\ Cardinality(s) \in Nat /\ Cardinality(s \ {First(s)}) \in Nat
         /\ Cardinality(s) = Cardinality(s \ {First(s)}) + 1
<1>1. First(s) \in s
  BY DEF First
<1>2. IsFiniteSet(s) /\ IsFiniteSet(s \ {First(s)})
  BY FS_Subset
<1>3. Cardinality(s \ {First(s)}) = Cardinality(s) - 1
  BY <1>1, <1>2, FS_RemoveElement
<1> QED
  BY <1>1, <1>2, <1>3, FS_CardinalityType

\* The delays of finitely many faults have a sum.
LEMMA SumsExist ==
  ASSUME NEW S, IsFiniteSet(S), \A f \in S : f.delay \in Nat
  PROVE  \E g : g = [s \in SUBSET S |-> SumStep(g, s)]
<1> DEFINE G(g, n) == /\ g \in [SUBSET S -> Nat]
                      /\ \A s \in SUBSET S : Cardinality(s) <= n => g[s] = SumStep(g, s)
           T == {n \in Nat : ~ \E g : G(g, n)}
<1>1. T = {}
  <2> SUFFICES ASSUME T # {} PROVE FALSE
    OBVIOUS
  <2>1. PICK n \in T : \A m \in T : n <= m
    <3> HIDE DEF T
    <3> T \subseteq Nat
      BY DEF T
    <3> QED
      BY Least
  <2>2. n # 0
    <3> DEFINE zero == [s \in SUBSET S |-> 0]
    <3>1. ASSUME NEW s \in SUBSET S, Cardinality(s) <= 0 PROVE zero[s] = SumStep(zero, s)
      <4>1. s = {}
        <5> SUFFICES ASSUME s # {} PROVE FALSE
          OBVIOUS
        <5>1. Cardinality(s) \in Nat /\ Cardinality(s \ {First(s)}) \in Nat
              /\ Cardinality(s) = Cardinality(s \ {First(s)}) + 1
          BY OneLess
        <5> QED
          BY <3>1, <5>1
      <4> QED
        BY <4>1 DEF SumStep
    <3>2. G(zero, 0)
      BY <3>1
    <3> QED
      BY <3>2
  <2>3. PICK g : G(g, n - 1)
    <3> HIDE DEF G
    <3> n - 1 \in Nat /\ ~(n <= n - 1)
      BY <2>1, <2>2
    <3> QED
      BY <2>1
  <2> DEFINE h == [s \in SUBSET S |-> SumStep(g, s)]
  <2>4. h \in [SUBSET S -> Nat]
    <3> SUFFICES ASSUME NEW s \in SUBSET S PROVE SumStep(g, s) \in Nat
      OBVIOUS
    <3>1. CASE s = {}
      BY <3>1 DEF SumStep
    <3>2. CASE s # {}
      <4>1. First(s) \in S /\ s \ {First(s)} \in SUBSET S
        BY <3>2, OneLess
      <4>2. First(s).delay \in Nat /\ g[s \ {First(s)}] \in Nat
        BY <4>1, <2>3
      <4> QED
        BY <3>2, <4>2 DEF SumStep
    <3> QED
      BY <3>1, <3>2
  <2>5. ASSUME NEW s \in SUBSET S, Cardinality(s) <= n PROVE h[s] = SumStep(h, s)
    <3>1. CASE s = {}
      BY <3>1 DEF SumStep
    <3>2. CASE s # {}
      <4> DEFINE rest == s \ {First(s)}
      <4>1. rest \in SUBSET S /\ Cardinality(rest) <= n - 1
        BY <2>1, <2>5, <3>2, OneLess
      <4>2. h[rest] = g[rest]
        BY <2>3, <4>1
      <4> QED
        BY <3>2, <4>2 DEF SumStep
    <3> QED
      BY <3>1, <3>2
  <2>6. G(h, n)
    BY <2>4, <2>5
  <2> QED
    <3> HIDE DEF G, h
    <3> QED
      BY <2>1, <2>6
<1>2. PICK g : G(g, Cardinality(S))
  <2> HIDE DEF G
  <2> QED
    BY <1>1, FS_CardinalityType
<1>3. \A s \in SUBSET S : Cardinality(s) <= Cardinality(S)
  BY FS_Subset
<1> QED
  BY <1>2, <1>3

\* The sum of the delays of finitely many faults is a natural number.
LEMMA SumIsNat ==
  ASSUME NEW S, IsFiniteSet(S), \A f \in S : f.delay \in Nat
  PROVE  MapThenSumSet(LAMBDA f : f.delay, S) \in Nat
<1> DEFINE iter == CHOOSE g : g = [s \in SUBSET S |-> SumStep(g, s)]
<1>1. MapThenSumSet(LAMBDA f : f.delay, S) = iter[S]
  BY DEF MapThenSumSet, MapThenFoldSet, SumStep, First
<1>2. iter = [s \in SUBSET S |-> SumStep(iter, s)]
  BY SumsExist
<1> HIDE DEF iter
<1>3. \A s \in SUBSET S : iter[s] = SumStep(iter, s)
  BY <1>2
<1> DEFINE T == {n \in Nat : \E s \in SUBSET S : Cardinality(s) = n /\ iter[s] \notin Nat}
<1>4. T = {}
  <2> SUFFICES ASSUME T # {} PROVE FALSE
    OBVIOUS
  <2>1. PICK n \in T : \A m \in T : n <= m
    <3> HIDE DEF T
    <3> T \subseteq Nat
      BY DEF T
    <3> QED
      BY Least
  <2>2. PICK s \in SUBSET S : Cardinality(s) = n /\ iter[s] \notin Nat
    BY <2>1
  <2>3. iter[s] = SumStep(iter, s) /\ iter[s] \notin Nat
    BY <1>3, <2>2
  <2>4. s # {}
    BY <2>3 DEF SumStep
  <2>5. /\ First(s) \in S /\ s \ {First(s)} \in SUBSET S
        /\ Cardinality(s \ {First(s)}) \in Nat /\ Cardinality(s \ {First(s)}) = n - 1
    BY <2>2, <2>4, OneLess
  <2>6. iter[s \ {First(s)}] \in Nat
    BY <2>1, <2>5
  <2>7. First(s).delay \in Nat
    BY <2>5
  <2>8. SumStep(iter, s) = First(s).delay + iter[s \ {First(s)}]
    BY <2>4 DEF SumStep
  <2> QED
    BY <2>3, <2>6, <2>7, <2>8
<1>5. iter[S] \in Nat
  BY <1>4, FS_CardinalityType
<1> QED
  BY <1>1, <1>5

\* What the stub adds to a reply is a natural number.
LEMMA DelayIsNat == \A s \in State : IsFiniteSet(s.faults) => Delay(s) \in Nat
<1> SUFFICES ASSUME NEW s \in State, IsFiniteSet(s.faults) PROVE Delay(s) \in Nat
  OBVIOUS
<1>1. IsFiniteSet(OfType(s, "latency")) /\ \A f \in OfType(s, "latency") : f.delay \in Nat
  BY FS_Subset DEF OfType, State
<1> QED
  BY <1>1, SumIsNat DEF Delay

-------------------------------------------------------------------------------
(* The invariant behind TypeOK. *)

ServingOK(v, s) == v \in [live : BOOLEAN, left : Nat, reply : {v.reply}] /\ ReplyOK(s, v.reply)

StubInv == StubOK(server) /\ QueueOK(inbox) /\ (serving # None => ServingOK(serving, server))

\* Only a running test has a client that does something.
SessionInv ==
  /\ test \in Tests \cup {None}
  /\ IF test = None THEN mode = "idle" ELSE pc \in 0 .. Len(Script(test)) + 1

\* A client waits no longer than its timeouts.
ClientInv ==
  /\ mode \in {"idle", "send", "wait", "backoff", "pause"}
  /\ attempt \in 0 .. Len(Backoff) /\ clock \in Nat /\ IsRequest(call)
  /\ mode = "wait" => clock <= ReadTimeout
  /\ mode = "send" => clock <= ConnectTimeout
  /\ verdict \in {"ok", "failed", "skipped"}
  /\ tracked \subseteq 1 .. server.issued

\* At most one request is still heard: that of the client that waits.
Listening(i) == inbox[i].live
LiveInv ==
  /\ \A i, j \in 1 .. Len(inbox) : Listening(i) /\ Listening(j) => i = j
  /\ \A i \in 1 .. Len(inbox) : Listening(i) => mode = "wait"
  /\ serving # None /\ serving.live =>
       mode = "wait" /\ \A i \in 1 .. Len(inbox) : ~Listening(i)

LoopInv == StubInv /\ SessionInv /\ ClientInv /\ LiveInv

\* The scripts and the backoffs that a session may use.
LEMMA ScriptsUsed ==
  /\ None \notin Tests
  /\ \A t \in Tests : Len(Script(t)) \in Nat
  /\ \A t \in Tests : \A k \in 1 .. Len(Script(t)) : StepOK(Script(t)[k])
  /\ Len(Backoff) \in Nat /\ \A k \in 1 .. Len(Backoff) : Backoff[k] \subseteq Nat
BY SessionConfig, ScriptsAreScripts, LenProperties DEF SessionConfig, ScriptOK

\* What the test makes of a reply.
LEMMA ReturnMeans ==
  ASSUME SessionInv, ClientInv, test # None, server.issued \in Nat,
         NEW r, ReplyOK(server, r), Return(r)
  PROVE  /\ mode' \in {"idle", "pause"} /\ clock' \in Nat /\ UNCHANGED <<call, attempt>>
         /\ verdict' \in {"ok", "failed", "skipped"} /\ tracked' \subseteq 1 .. server.issued
         /\ test' \in {test, None} /\ (test' = None => mode' = "idle")
         /\ test' # None => pc' \in 0 .. Len(Script(test)) + 1
<1> DEFINE L == Len(Script(test))
<1>1. test \in Tests /\ L \in Nat /\ pc \in 0 .. L + 1
  BY ScriptsUsed DEF SessionInv
<1>2. UNCHANGED <<call, attempt>>
  BY DEF Return
<1>3. CASE pc = 0
  <2>1. SetUpReturn(r)
    BY <1>1, <1>3 DEF Return, InBody, InTearDown, Steps
  <2> QED
    BY <1>1, <1>2, <1>3, <2>1 DEF SetUpReturn, ClientInv
<1>4. CASE pc \in 1 .. L
  <2> DEFINE st == Steps[pc]
  <2>1. BodyReturn(st, r)
    BY <1>1, <1>4 DEF Return, InBody, InTearDown, Steps
  <2>2. CASE Fatal(st, r)
    <3>1. Abandon /\ mode' = "idle" /\ clock' = 0 /\ UNCHANGED <<tracked, test>>
      BY <2>1, <2>2 DEF BodyReturn
    <3> QED
      BY <1>1, <1>2, <3>1 DEF Abandon, Steps, ClientInv
  <2>3. CASE ~Fatal(st, r) /\ st.do = "poll" /\ ~Holds(st, r)
    <3>1. mode' = "pause" /\ clock' = Interval /\ UNCHANGED <<pc, tracked, verdict, test>>
      BY <2>1, <2>3 DEF BodyReturn
    <3> QED
      BY <1>1, <1>2, <3>1 DEF ClientInv, Interval
  <2>4. CASE ~Fatal(st, r) /\ ~(st.do = "poll" /\ ~Holds(st, r))
    <3>1. /\ Advance(Unmet(st, r)) /\ tracked' = TrackedAfter(st, r)
          /\ mode' = "idle" /\ clock' = 0 /\ UNCHANGED test
      BY <2>1, <2>4 DEF BodyReturn
    <3>2. tracked' \subseteq 1 .. server.issued
      BY <2>4, <3>1 DEF TrackedAfter, Fatal, ReplyOK, ClientInv
    <3>3. pc' = pc + 1 /\ verdict' \in {"ok", "failed", "skipped"}
      BY <3>1 DEF Advance, ClientInv
    <3> QED
      BY <1>1, <1>2, <1>4, <3>1, <3>2, <3>3
  <2> QED
    BY <2>2, <2>3, <2>4
<1>5. CASE pc = L + 1
  <2>1. TearDownReturn
    BY <1>1, <1>5 DEF Return, InBody, InTearDown, Steps
  <2> QED
    BY <1>1, <1>2, <1>5, <2>1 DEF TearDownReturn, ClientInv
<1> QED
  BY <1>1, <1>3, <1>4, <1>5

\* What the steps need of it, and what they have to show.
LEMMA IssuedIsNat == StubInv => server.issued \in Nat /\ server \in State
BY DEF StubInv, StubOK, WellFormed, State

\* A client that hangs up is not heard any more.
LEMMA HangUpMeans ==
  ASSUME StubInv, HangUp, UNCHANGED server
  PROVE  /\ StubInv'
         /\ \A i \in 1 .. Len(inbox') : ~inbox'[i].live
         /\ serving' # None => ~serving'.live
<1>1. QueueOK(inbox') /\ \A i \in 1 .. Len(inbox') : ~inbox'[i].live
  BY Deafened DEF StubInv, HangUp
<1>2. CASE serving = None
  BY <1>1, <1>2 DEF StubInv, HangUp
<1>3. CASE serving # None
  <2>1. serving' = [serving EXCEPT !.live = FALSE] /\ ServingOK(serving, server)
    BY <1>3 DEF StubInv, HangUp
  <2>2. ServingOK(serving', server) /\ ~serving'.live
    BY <2>1 DEF ServingOK
  <2> QED
    BY <1>1, <2>2 DEF StubInv
<1> QED
  BY <1>2, <1>3

\* A test starts, issues a request, cleans up or ends.
LEMMA BodyKeepsInv ==
  ASSUME LoopInv, \/ \E t \in Tests : StartTest(t)
                  \/ PollGivesUp \/ Issue \/ CleanUp \/ EndTest
  PROVE  LoopInv'
<1> USE ScriptsUsed DEF LoopInv, stubVars, clientVars, bodyVars, sessionVars, pollVars
<1>1. ASSUME NEW t \in Tests, StartTest(t) PROVE LoopInv'
  <2>1. StubInv' /\ LiveInv'
    BY <1>1 DEF StartTest, StartCall, SessionInv, StubInv, LiveInv, Listening
  <2>2. SessionInv'
    BY <1>1 DEF StartTest, StartCall, SessionInv
  <2>3. ClientInv'
    BY <1>1, RequestsAreRequests, SessionConfig DEF StartTest, StartCall, ClientInv, SessionConfig
  <2> QED
    BY <2>1, <2>2, <2>3
<1>2. CASE PollGivesUp
  <2>1. test \in Tests /\ mode = "idle" /\ pc \in 1 .. Len(Script(test)) /\ pc' = pc + 1
        /\ verdict' \in {"failed", verdict}
    BY <1>2 DEF PollGivesUp, TimeIsUp, InBody, Steps, SessionInv, Advance
  <2>2. StubInv' /\ LiveInv'
    BY <1>2 DEF PollGivesUp, StubInv, LiveInv, Listening
  <2>3. SessionInv'
    BY <1>2, <2>1 DEF PollGivesUp, SessionInv
  <2>4. ClientInv'
    BY <1>2, <2>1 DEF PollGivesUp, ClientInv
  <2> QED
    BY <2>2, <2>3, <2>4
<1>3. CASE Issue
  <2>1. test \in Tests /\ pc \in 1 .. Len(Script(test)) /\ mode = "idle"
    BY <1>3 DEF Issue, InBody, Steps, SessionInv
  <2>2. StepOK(Steps[pc])
    BY <2>1 DEF Steps
  <2>3. IsRequest(Request(Steps[pc]))
    BY <2>2, RequestsAreRequests DEF StepOK, Request
  <2>4. StubInv' /\ LiveInv'
    BY <1>3, <2>1 DEF Issue, StartCall, StubInv, LiveInv, Listening
  <2>5. SessionInv'
    BY <1>3, <2>1 DEF Issue, StartCall, SessionInv
  <2>6. ClientInv'
    BY <1>3, <2>3, SessionConfig DEF Issue, StartCall, ClientInv, SessionConfig
  <2> QED
    BY <2>4, <2>5, <2>6
<1>4. CASE CleanUp
  <2>1. StubInv' /\ LiveInv'
    BY <1>4 DEF CleanUp, StartCall, StubInv, LiveInv, Listening
  <2>2. SessionInv'
    BY <1>4 DEF CleanUp, InTearDown, StartCall, SessionInv
  <2>3. ClientInv'
    BY <1>4, RequestsAreRequests, SessionConfig DEF CleanUp, StartCall, ClientInv, SessionConfig
  <2> QED
    BY <2>1, <2>2, <2>3
<1>5. CASE EndTest
  <2>1. StubInv' /\ LiveInv'
    BY <1>5 DEF EndTest, StubInv, LiveInv, Listening
  <2>2. SessionInv'
    BY <1>5 DEF EndTest, SessionInv
  <2>3. ClientInv'
    BY <1>5 DEF EndTest, ClientInv
  <2> QED
    BY <2>1, <2>2, <2>3
<1> QED
  BY <1>1, <1>2, <1>3, <1>4, <1>5

\* The client connects, times out and resumes.
LEMMA SocketKeepsInv ==
  ASSUME LoopInv, Connect \/ TimeOut \/ Resume PROVE LoopInv'
<1> USE ScriptsUsed DEF LoopInv, stubVars, clientVars, bodyVars, sessionVars, pollVars
<1>1. CASE Connect
  <2> DEFINE e == [req |-> call, live |-> TRUE]
  <2>1. EntryOK(e) /\ e.live
    BY DEF EntryOK, ClientInv
  <2>2. mode = "send" /\ mode' = "wait" /\ inbox' = Append(inbox, e) /\ QueueOK(inbox)
        /\ UNCHANGED <<server, serving>>
    BY <1>1 DEF Connect, StubInv
  <2> HIDE DEF e
  <2>3. /\ QueueOK(inbox') /\ Len(inbox) \in Nat /\ Len(inbox') = Len(inbox) + 1
        /\ \A i \in 1 .. Len(inbox) : inbox'[i] = inbox[i]
    BY <2>1, <2>2, Accepted
  <2>4. StubInv'
    BY <2>2, <2>3 DEF StubInv
  <2>5. \A i \in 1 .. Len(inbox) : ~Listening(i)
    BY <2>2 DEF LiveInv
  <2>6. \A i \in 1 .. Len(inbox') : inbox'[i].live => i = Len(inbox) + 1
    BY <2>3, <2>5 DEF Listening
  <2>7. LiveInv'
    BY <2>2, <2>6 DEF LiveInv, Listening
  <2>8. SessionInv'
    BY <1>1 DEF Connect, SessionInv
  <2>9. ClientInv'
    BY <1>1, SessionConfig DEF Connect, ClientInv, SessionConfig
  <2> QED
    BY <2>4, <2>7, <2>8, <2>9
<1>2. CASE TimeOut
  <2>1. StubInv' /\ \A i \in 1 .. Len(inbox') : ~inbox'[i].live
    BY <1>2, HangUpMeans DEF TimeOut
  <2>2. LiveInv'
    BY <1>2, HangUpMeans DEF TimeOut, LiveInv, Listening
  <2>3. test \in Tests /\ test # None /\ mode # "idle"
    BY <1>2 DEF TimeOut, SessionInv
  <2>4. CASE attempt < Retries
    <3>1. attempt' = attempt + 1 /\ mode' = "backoff" /\ clock' \in Backoff[attempt + 1]
          /\ UNCHANGED <<server, call, bodyVars, sessionVars>>
      BY <1>2, <2>4 DEF TimeOut, AttemptFails
    <3>2. attempt + 1 \in 1 .. Len(Backoff)
      BY <2>4 DEF Retries, ClientInv
    <3>3. SessionInv'
      BY <2>3, <3>1 DEF SessionInv
    <3>4. ClientInv'
      BY <3>1, <3>2 DEF ClientInv
    <3> QED
      BY <2>1, <2>2, <3>3, <3>4
  <2>5. CASE ~(attempt < Retries)
    <3>1. Return(Lost) /\ UNCHANGED server
      BY <1>2, <2>5 DEF TimeOut, AttemptFails
    <3>2. ReplyOK(server, Lost)
      BY IssuedIsNat DEF ReplyOK, Lost
    <3>3. SessionInv' /\ ClientInv'
      BY <2>3, <3>1, <3>2, IssuedIsNat, ReturnMeans DEF SessionInv, ClientInv
    <3> QED
      BY <2>1, <2>2, <3>3
  <2> QED
    BY <2>4, <2>5
<1>3. CASE Resume
  <2>1. StubInv' /\ LiveInv'
    BY <1>3 DEF Resume, StubInv, LiveInv, Listening
  <2>2. SessionInv'
    BY <1>3 DEF Resume, SessionInv
  <2>3. ClientInv'
    BY <1>3, SessionConfig DEF Resume, ClientInv, SessionConfig
  <2> QED
    BY <2>1, <2>2, <2>3
<1> QED
  BY <1>1, <1>2, <1>3

\* The stub serves and replies.
LEMMA StubKeepsInv ==
  ASSUME LoopInv, Serve \/ Finish PROVE LoopInv'
<1> USE ScriptsUsed DEF LoopInv, stubVars, clientVars, bodyVars, sessionVars, pollVars
<1>1. CASE Serve
  <2> DEFINE e == Head(inbox)
             h == Handle(server, e.req)
             r == [status |-> h.status, id |-> h.id, list |-> h.list]
             v == [live |-> e.live, left |-> Delay(h.to), reply |-> r]
  <2>1. /\ serving = None /\ server' = h.to /\ serving' = v /\ inbox' = Tail(inbox)
        /\ inbox # <<>> /\ UNCHANGED <<clientVars, bodyVars, sessionVars>>
    BY <1>1 DEF Serve
  <2>2. /\ QueueOK(inbox') /\ EntryOK(e) /\ e = inbox[1] /\ 1 \in 1 .. Len(inbox)
        /\ Len(inbox') = Len(inbox) - 1 /\ Len(inbox) \in Nat
        /\ \A i \in 1 .. Len(inbox) - 1 : inbox'[i] = inbox[i + 1]
    BY <2>1, Popped DEF StubInv
  <2>3. Kept(server, h)
    BY <2>2, HandleKeeps DEF StubInv, EntryOK
  <2>4. Delay(h.to) \in Nat
    BY <2>3, DelayIsNat DEF Kept, StubOK, WellFormed
  <2>5. ReplyOK(h.to, r)
    BY <2>3 DEF Kept, ReplyOK
  <2>6. ServingOK(v, h.to) /\ v.live = e.live
    <3> HIDE DEF r, h
    <3> QED
      BY <2>2, <2>4, <2>5 DEF ServingOK, EntryOK
  <2>7. server.issued <= server'.issued /\ server.issued \in Nat /\ server'.issued \in Nat
    BY <2>1, <2>3 DEF Kept, StubOK, WellFormed, State, StubInv
  <2> HIDE DEF v, e, h
  <2>8. StubInv'
    BY <2>1, <2>2, <2>3, <2>6 DEF StubInv, Kept
  <2>9. ASSUME e.live PROVE mode = "wait" /\ \A i \in 1 .. Len(inbox') : ~inbox'[i].live
    BY <2>2, <2>9 DEF LiveInv, Listening
  <2>10. \A i, j \in 1 .. Len(inbox') : inbox'[i].live /\ inbox'[j].live => i = j
    <3> SUFFICES ASSUME NEW i \in 1 .. Len(inbox'), NEW j \in 1 .. Len(inbox'),
                        inbox'[i].live, inbox'[j].live
                 PROVE  i = j
      OBVIOUS
    <3>1. i + 1 \in 1 .. Len(inbox) /\ j + 1 \in 1 .. Len(inbox)
          /\ inbox[i + 1].live /\ inbox[j + 1].live
      BY <2>2
    <3> QED
      BY <3>1 DEF LiveInv, Listening
  <2>11. ASSUME NEW i \in 1 .. Len(inbox'), inbox'[i].live PROVE mode = "wait"
    <3>1. i + 1 \in 1 .. Len(inbox) /\ inbox[i + 1].live
      BY <2>2, <2>11
    <3> QED
      BY <3>1 DEF LiveInv, Listening
  <2>12. LiveInv'
    BY <2>1, <2>6, <2>9, <2>10, <2>11 DEF LiveInv, Listening
  <2>13. SessionInv'
    BY <2>1 DEF SessionInv
  <2>14. ClientInv'
    BY <2>1, <2>7 DEF ClientInv
  <2> QED
    BY <2>8, <2>12, <2>13, <2>14
<1>2. CASE Finish
  <2>1. serving # None /\ serving' = None /\ UNCHANGED <<server, inbox>>
    BY <1>2 DEF Finish
  <2>2. StubInv'
    BY <2>1 DEF StubInv
  <2>3. CASE ~serving.live
    <3>1. UNCHANGED <<clientVars, bodyVars, sessionVars>>
      BY <1>2, <2>3 DEF Finish
    <3> QED
      BY <2>1, <2>2, <3>1 DEF SessionInv, ClientInv, LiveInv, Listening
  <2>4. CASE serving.live
    <3>1. Return(serving.reply) /\ ReplyOK(server, serving.reply)
      BY <1>2, <2>1, <2>4 DEF Finish, StubInv, ServingOK
    <3>2. test \in Tests /\ test # None
      BY <2>1, <2>4 DEF LiveInv, SessionInv
    <3>3. SessionInv' /\ ClientInv'
      BY <2>1, <3>1, <3>2, IssuedIsNat, ReturnMeans DEF SessionInv, ClientInv
    <3>4. LiveInv'
      BY <2>1, <2>4 DEF LiveInv, Listening
    <3> QED
      BY <2>2, <3>3, <3>4
  <2> QED
    BY <2>3, <2>4
<1> QED
  BY <1>1, <1>2

\* Time passes up to the next timer, and never past one.
LEMMA TickMeans ==
  ASSUME LoopInv, Tick, NEW d, d = Min(Timers)
  PROVE  /\ d \in Nat /\ (serving # None => d <= serving.left)
         /\ test # None => /\ mode # "idle"
                           /\ mode = "wait" => d <= ReadTimeout - clock
                           /\ mode = "send" => d <= ConnectTimeout - clock
                           /\ mode \in {"backoff", "pause"} => d <= clock
<1> DEFINE Y == IF serving # None THEN {serving.left} ELSE IF inbox # <<>> THEN {0} ELSE {}
           X == CASE test = None -> {}
                  [] mode = "wait" -> {ReadTimeout - clock}
                  [] mode = "send" /\ ~Room -> {ConnectTimeout - clock}
                  [] mode \in {"backoff", "pause"} -> {clock}
                  [] OTHER -> {0}
<1>1. Timers = X \cup Y /\ Timers # {} /\ 0 \notin Timers
  BY DEF Tick, Timers
<1>2. 0 \notin X /\ 0 \notin Y
  BY <1>1
<1>3. serving = None => Y = {}
  BY <1>2
<1>4. serving # None => Y = {serving.left} /\ serving.left \in Nat
  BY DEF LoopInv, StubInv, ServingOK
<1>5. ASSUME NEW x \in Nat, X = {x}
      PROVE  d \in Nat /\ d <= x /\ (serving # None => d <= serving.left)
  <2> HIDE DEF X, Y
  <2>1. CASE serving = None
    <3>1. Timers = {x}
      BY <1>1, <1>3, <1>5, <2>1
    <3> QED
      BY <2>1, <3>1, FirstTimer
  <2>2. CASE serving # None
    <3>1. Timers = {x, serving.left}
      BY <1>1, <1>4, <1>5, <2>2
    <3> QED
      BY <1>4, <2>2, <3>1, FirstTimer
  <2> QED
    BY <2>1, <2>2
<1>6. CASE test = None
  <2>1. X = {}
    BY <1>6 DEF LoopInv, SessionInv
  <2> HIDE DEF X, Y
  <2>2. serving # None /\ Timers = {serving.left} /\ serving.left \in Nat
    BY <1>1, <1>3, <1>4, <2>1
  <2> QED
    BY <1>6, <2>2, FirstTimer
<1>7. CASE test # None
  <2>1. clock \in Nat /\ mode \in {"idle", "send", "wait", "backoff", "pause"}
    BY DEF LoopInv, ClientInv
  <2>2. CASE mode = "wait"
    <3>1. X = {ReadTimeout - clock} /\ ReadTimeout - clock \in Nat
      BY <1>7, <2>1, <2>2, SessionConfig DEF LoopInv, ClientInv, SessionConfig
    <3> HIDE DEF X, Y
    <3> QED
      BY <1>5, <2>2, <3>1
  <2>3. CASE mode = "send"
    <3>1. ~Room
      BY <1>2, <1>7, <2>3
    <3>2. X = {ConnectTimeout - clock} /\ ConnectTimeout - clock \in Nat
      BY <1>7, <2>1, <2>3, <3>1, SessionConfig DEF LoopInv, ClientInv, SessionConfig
    <3> HIDE DEF X, Y
    <3> QED
      BY <1>5, <2>3, <3>2
  <2>4. CASE mode \in {"backoff", "pause"}
    <3>1. X = {clock}
      BY <1>7, <2>4
    <3> HIDE DEF X, Y
    <3> QED
      BY <1>5, <2>1, <2>4, <3>1
  <2>5. mode # "idle"
    BY <1>2, <1>7
  <2> QED
    BY <2>1, <2>2, <2>3, <2>4, <2>5
<1> QED
  BY <1>6, <1>7

\* Time passes.
LEMMA TickKeepsInv ==
  ASSUME LoopInv, Tick PROVE LoopInv'
<1> DEFINE d == Min(Timers)
<1>1. /\ d \in Nat /\ (serving # None => d <= serving.left)
      /\ test # None => /\ mode # "idle"
                        /\ mode = "wait" => d <= ReadTimeout - clock
                        /\ mode = "send" => d <= ConnectTimeout - clock
                        /\ mode \in {"backoff", "pause"} => d <= clock
  BY TickMeans
<1>2. /\ serving' = IF serving = None THEN None ELSE [serving EXCEPT !.left = serving.left - d]
      /\ clock' = CASE test = None -> clock
                    [] mode \in {"wait", "send"} -> clock + d
                    [] OTHER -> clock - d
      /\ UNCHANGED <<server, inbox, call, attempt, mode, pc, ids, tracked, verdict,
                     sessionVars, lost>>
  BY DEF Tick
<1> HIDE DEF d
<1> USE DEF LoopInv, sessionVars
<1>3. StubInv' /\ (serving' # None => serving # None /\ serving'.live = serving.live)
  <2>1. CASE serving = None
    BY <1>2, <2>1 DEF StubInv
  <2>2. CASE serving # None
    <3>1. serving.left - d \in Nat /\ ServingOK(serving, server)
      BY <1>1, <2>2 DEF StubInv, ServingOK
    <3>2. ServingOK(serving', server) /\ serving'.live = serving.live
      BY <1>2, <2>2, <3>1 DEF ServingOK
    <3> QED
      BY <1>2, <2>2, <3>2 DEF StubInv
  <2> QED
    BY <2>1, <2>2
<1>4. LiveInv'
  BY <1>2, <1>3 DEF LiveInv, Listening
<1>5. SessionInv'
  BY <1>2 DEF SessionInv
<1>6. clock' \in Nat /\ (mode = "wait" => clock' <= ReadTimeout)
      /\ (mode = "send" => clock' <= ConnectTimeout)
  <2>1. CASE test = None
    BY <1>2, <2>1 DEF ClientInv, SessionInv
  <2>2. CASE test # None
    BY <1>1, <1>2, <2>2, SessionConfig DEF ClientInv, SessionConfig
  <2> QED
    BY <2>1, <2>2
<1>7. ClientInv'
  BY <1>2, <1>6 DEF ClientInv
<1> QED
  BY <1>3, <1>4, <1>5, <1>7

\* A test process is killed; somebody deletes a fault by hand.
LEMMA MishapKeepsInv ==
  ASSUME LoopInv, KillTest \/ \E f \in server.faults : DeleteByHand(f.id) PROVE LoopInv'
<1> USE DEF LoopInv, stubVars, clientVars, bodyVars, sessionVars, pollVars
<1>1. CASE KillTest
  <2>1. StubInv' /\ LiveInv'
    BY <1>1, HangUpMeans DEF KillTest, LiveInv, Listening
  <2>2. SessionInv'
    BY <1>1 DEF KillTest, SessionInv
  <2>3. ClientInv'
    BY <1>1 DEF KillTest, ClientInv
  <2> QED
    BY <2>1, <2>2, <2>3
<1>2. ASSUME NEW f \in server.faults, DeleteByHand(f.id) PROVE LoopInv'
  <2> DEFINE e == [req |-> Delete(f.id), live |-> FALSE]
  <2>1. EntryOK(e) /\ ~e.live
    BY RequestsAreRequests DEF EntryOK
  <2>2. inbox' = Append(inbox, e) /\ QueueOK(inbox)
        /\ UNCHANGED <<server, serving, clientVars, bodyVars, test>>
    BY <1>2 DEF DeleteByHand, StubInv
  <2> HIDE DEF e
  <2>3. /\ QueueOK(inbox') /\ Len(inbox) \in Nat /\ Len(inbox') = Len(inbox) + 1
        /\ \A i \in 1 .. Len(inbox) : inbox'[i] = inbox[i]
        /\ ~inbox'[Len(inbox) + 1].live
    BY <2>1, <2>2, Accepted
  <2>4. StubInv'
    BY <2>2, <2>3 DEF StubInv
  <2>5. \A i \in 1 .. Len(inbox') : inbox'[i].live => i \in 1 .. Len(inbox) /\ inbox[i].live
    BY <2>3
  <2>6. LiveInv'
    BY <2>2, <2>5 DEF LiveInv, Listening
  <2>7. SessionInv' /\ ClientInv'
    BY <2>2 DEF SessionInv, ClientInv
  <2> QED
    BY <2>4, <2>6, <2>7
<1> QED
  BY <1>1, <1>2

\* Every step keeps the invariant.
LEMMA StepKeepsInv == LoopInv /\ [Next]_vars => LoopInv'
<1> SUFFICES ASSUME LoopInv, [Next]_vars PROVE LoopInv'
  OBVIOUS
<1>1. CASE UNCHANGED vars
  BY <1>1 DEF LoopInv, StubInv, SessionInv, ClientInv, LiveInv, Listening,
     vars, stubVars, clientVars, bodyVars, sessionVars
<1> QED
  BY <1>1, BodyKeepsInv, SocketKeepsInv, StubKeepsInv, TickKeepsInv, MishapKeepsInv
     DEF Next, Progress

\* Whatever earlier sessions left on the stub.
LEMMA InitLoopInv == Init => LoopInv
<1> SUFFICES ASSUME Init PROVE LoopInv
  OBVIOUS
<1>1. StubInv /\ LiveInv
  BY SessionConfig, EmptySeq DEF Init, StubInv, StubOK, QueueOK, LiveInv, Listening, SessionConfig
<1>2. SessionInv
  BY DEF Init, SessionInv
<1>3. ClientInv
  BY ScriptsUsed, RequestsAreRequests DEF Init, ClientInv
<1> QED
  BY <1>1, <1>2, <1>3 DEF LoopInv

\* The invariant behind TypeOK holds throughout.
LEMMA LoopInvHolds == Spec => []LoopInv
BY InitLoopInv, StepKeepsInv, PTL DEF Spec

\* At most one request in the accept queue is still heard, every record on the
\* stub and every fault a test tracks has an id that the stub issued, and the
\* types are right, whatever the timeouts, the left-overs and the mishaps.
THEOREM TypeCorrect == Spec => []TypeOK
<1>1. LoopInv => TypeOK
  <2> SUFFICES ASSUME LoopInv PROVE TypeOK
    OBVIOUS
  <2> DEFINE heard == {i \in DOMAIN inbox : inbox[i].live}
  <2>1. PICK S : inbox \in Seq(S)
    BY DEF LoopInv, StubInv, QueueOK
  <2>2. DOMAIN inbox = 1 .. Len(inbox)
    BY <2>1, LenProperties
  <2>3. \A e \in Range(inbox) : e.live \in BOOLEAN
    BY <2>2 DEF Range, LoopInv, StubInv, QueueOK, EntryOK
  <2>4. Cardinality(heard) <= 1
    <3>1. CASE heard = {}
      BY <3>1, FS_EmptySet
    <3>2. ASSUME NEW i \in heard PROVE Cardinality(heard) <= 1
      <4>1. heard = {i}
        BY <2>2, <3>2 DEF LoopInv, LiveInv, Listening
      <4>2. Cardinality({i}) = 1
        BY FS_Singleton
      <4> HIDE DEF heard
      <4> QED
        BY <4>1, <4>2
    <3> QED
      BY <3>1, <3>2
  <2> QED
    BY <2>3, <2>4 DEF LoopInv, TypeOK, StubInv, StubOK, ClientInv
<1> QED
  BY <1>1, LoopInvHolds, PTL

-------------------------------------------------------------------------------
(* Why a recovery check gives up. *)

\* From these steps on, the last id that the test got is that of its task.
TaskKnown(t, k) ==
  /\ (t = "R04" /\ k >= 5) \/ (t = "TaskState" /\ k >= 4)
  /\ k \in 1 .. Len(Script(t))

PostsTask(q) == q.verb = "POST" /\ q.on = "teams/tasks"

TaskStepOK(t, k) ==
  LET st == Script(t)[k] IN
  /\ st.do = "poll" /\ st.cond = "done" => TaskKnown(t, k)
  /\ TaskKnown(t, k + 1) =>
       IF st.do = "inject" THEN PostsTask(st.req) ELSE TaskKnown(t, k)

\* A poll for a task comes after the task was created.
LEMMA TasksAreCreatedFirst ==
  \A t \in TestNames : \A k \in 1 .. Len(Script(t)) : TaskStepOK(t, k)
<1> DEFINE Known(t) == \A k \in 1 .. Len(Script(t)) : TaskStepOK(t, k)
<1> USE DEF Script, TaskStepOK, TaskKnown, Inject, InjectApi, Create, Remove, RemoveApi, List,
        Poll, Probe, Send, SendChaos, Healthy
<1>1. Known("R01")
  OBVIOUS
<1>2. Known("R02")
  OBVIOUS
<1>3. Known("R03")
  OBVIOUS
<1>4. Known("R04")
  BY DEF PostsTask, Post
<1>5. Known("R05")
  OBVIOUS
<1>6. Known("E01")
  OBVIOUS
<1>7. Known("E02")
  OBVIOUS
<1>8. Known("E03")
  OBVIOUS
<1>9. Known("E04")
  OBVIOUS
<1>10. Known("C10")
  OBVIOUS
<1>11. Known("TaskState")
  BY DEF PostsTask, Post
<1>12. Known("Malformed")
  OBVIOUS
<1>13. Known("TestEmpty")
  OBVIOUS
<1> HIDE DEF Known
<1>14. \A t \in TestNames : Known(t)
  BY <1>1, <1>2, <1>3, <1>4, <1>5, <1>6, <1>7, <1>8, <1>9, <1>10, <1>11, <1>12, <1>13 DEF TestNames
<1> QED
  BY <1>14 DEF Known

LastTaskExists == ids[Len(ids)] \in IdOf(server.tasks)

\* The stub and the test talk about the same request.
TalkInv ==
  /\ \E S : ids \in Seq(S)
  /\ InBody /\ TaskKnown(test, pc) => LastTaskExists
  /\ InBody /\ mode \in {"send", "wait", "backoff"} => call = Request(Steps[pc])
  /\ \A i \in 1 .. Len(inbox) : Listening(i) => inbox[i].req = call
  /\ serving # None /\ serving.live /\ PostsTask(call) /\ serving.reply.status = 201 =>
       serving.reply.id \in IdOf(server.tasks)

Rechecks == Polling /\ Steps[pc].cond \in {"healthy", "done"}

\* What a recovery check waits for has not been true for longer than the call
\* whose reply is on its way, or than the last call and the sleep after it.
CalmInv ==
  /\ calm \in Nat /\ took \in Nat
  /\ test # None /\ ~(Polling /\ Recovered(server)) => calm = 0
  /\ Rechecks =>
       /\ mode = "pause" => lost \/ calm + clock <= took + 1
       /\ mode = "idle" => lost \/ calm <= took + 1
       /\ serving # None /\ serving.live => Holds(Steps[pc], serving.reply) \/ calm <= took

PollInv == LoopInv /\ TalkInv /\ CalmInv

\* Nobody is heard any more, so only the client's side is left to show.
LEMMA SilenceKeepsTalk ==
  ASSUME \A i \in 1 .. Len(inbox') : ~inbox'[i].live, serving' # None => ~serving'.live,
         \E S : ids' \in Seq(S), (InBody /\ TaskKnown(test, pc) => LastTaskExists)',
         (InBody /\ mode \in {"send", "wait", "backoff"} => call = Request(Steps[pc]))'
  PROVE  TalkInv'
BY DEF TalkInv, Listening

\* The test goes on with what the stub replied, or with {0, {}}.
LEMMA ReturnKeepsPoll ==
  ASSUME PollInv, test # None, NEW r, ReplyOK(server, r), Return(r),
         r = Lost \/ (serving # None /\ serving.live /\ r = serving.reply),
         UNCHANGED server, \A i \in 1 .. Len(inbox') : ~inbox'[i].live,
         serving' # None => ~serving'.live
  PROVE  TalkInv' /\ CalmInv'
<1> DEFINE L == Len(Script(test))
           st == Steps[pc]
<1>1. test \in Tests /\ L \in Nat /\ pc \in 0 .. L + 1 /\ calm \in Nat /\ took \in Nat
  BY ScriptsUsed DEF PollInv, LoopInv, SessionInv, CalmInv
<1>2. UNCHANGED took /\ lost' = (r.status = 0)
  BY DEF Return
<1>3. PICK S : ids \in Seq(S)
  BY DEF PollInv, TalkInv
<1>4. CASE pc = 0
  <2>1. mode' = "idle" /\ calm' = calm /\ ids' = ids /\ test' \in {test, None}
        /\ (test' # None => pc' = 1)
    BY <1>1, <1>4 DEF Return, InBody, InTearDown, Steps, SetUpReturn
  <2>2. calm = 0
    BY <1>4 DEF PollInv, CalmInv, Polling, InBody
  <2>3. TalkInv'
    BY <1>3, <2>1, SilenceKeepsTalk DEF InBody, TaskKnown
  <2>4. CalmInv'
    BY <1>1, <1>2, <2>1, <2>2 DEF CalmInv
  <2> QED
    BY <2>3, <2>4
<1>5. CASE pc \in 1 .. L
  <2>1. InBody /\ BodyReturn(st, r)
    BY <1>1, <1>5 DEF Return, InBody, InTearDown, Steps
  <2>2. CASE Fatal(st, r)
    <3>1. mode' = "idle" /\ calm' = 0 /\ ids' = ids /\ pc' = L + 1 /\ test' = test
      BY <2>1, <2>2 DEF BodyReturn, Abandon, Steps
    <3>2. ~InBody'
      BY <1>1, <3>1 DEF InBody, Steps
    <3>3. TalkInv'
      BY <1>3, <3>1, <3>2, SilenceKeepsTalk
    <3>4. CalmInv'
      BY <1>1, <1>2, <3>1, <3>2 DEF CalmInv, Rechecks, Polling
    <3> QED
      BY <3>3, <3>4
  <2>3. CASE ~Fatal(st, r) /\ st.do = "poll" /\ ~Holds(st, r)
    <3>1. mode' = "pause" /\ clock' = 1 /\ UNCHANGED <<ids, pc, test, calm>>
      BY <2>1, <2>3 DEF BodyReturn, Interval
    <3>2. TalkInv'
      BY <1>3, <3>1, SilenceKeepsTalk
         DEF PollInv, TalkInv, InBody, LastTaskExists, Steps
    <3>3. Steps' = Steps
      BY <3>1 DEF Steps
    <3>4. /\ Polling' = Polling /\ Rechecks' = Rechecks
          /\ Recovered(server)' = Recovered(server)
      BY <3>1, <3>3 DEF Polling, InBody, Rechecks, Recovered
    <3>5. (test # None /\ ~(Polling /\ Recovered(server)) => calm = 0)'
      BY <3>1, <3>4 DEF PollInv, CalmInv
    <3>6. lost' \/ (Rechecks => calm <= took)
      <4>1. CASE r = Lost
        BY <1>2, <4>1 DEF Lost
      <4>2. CASE serving # None /\ serving.live /\ r = serving.reply
        BY <2>3, <4>2 DEF PollInv, CalmInv
      <4> QED
        BY <4>1, <4>2
    <3>7. CalmInv'
      BY <1>1, <1>2, <3>1, <3>4, <3>5, <3>6 DEF CalmInv
    <3> QED
      BY <3>2, <3>7
  <2>4. CASE ~Fatal(st, r) /\ ~(st.do = "poll" /\ ~Holds(st, r))
    <3>1. /\ mode' = "idle" /\ calm' = 0 /\ pc' = pc + 1 /\ test' = test
          /\ ids' = IF st.do = "inject" THEN Append(ids, r.id) ELSE ids
      BY <2>1, <2>4 DEF BodyReturn, Advance
    <3>2. \E T : ids' \in Seq(T)
      <4>1. ids \in Seq(S \cup {r.id})
        BY <1>3, SeqMonotonic, Zenon
      <4> QED
        BY <1>3, <3>1, <4>1
    <3>3. (InBody /\ TaskKnown(test, pc) => LastTaskExists)'
      <4> SUFFICES ASSUME TaskKnown(test, pc + 1) PROVE LastTaskExists'
        BY <3>1
      <4>1. TaskStepOK(test, pc) /\ st = Script(test)[pc]
        BY <1>1, <1>5, TasksAreCreatedFirst, SessionConfig DEF SessionConfig, Steps
      <4>2. CASE st.do = "inject"
        <5>1. r.status = 201 /\ serving # None /\ serving.live /\ r = serving.reply
          BY <2>4, <4>2 DEF Fatal, Lost
        <5>2. mode = "wait" /\ call = st.req /\ PostsTask(st.req)
          BY <2>1, <4>1, <4>2, <5>1
             DEF PollInv, LoopInv, LiveInv, TalkInv, Request, TaskStepOK
        <5>3. r.id \in IdOf(server.tasks)
          BY <5>1, <5>2 DEF PollInv, TalkInv
        <5>4. ids' = Append(ids, r.id) /\ ids'[Len(ids')] = r.id
          BY <1>3, <3>1, <4>2, AppendProperties, SeqMonotonic
        <5> QED
          BY <5>3, <5>4 DEF LastTaskExists
      <4>3. CASE st.do # "inject"
        BY <2>1, <3>1, <4>1, <4>3 DEF PollInv, TalkInv, TaskStepOK, LastTaskExists
      <4> QED
        BY <4>2, <4>3
    <3>4. TalkInv'
      BY <3>1, <3>2, <3>3, SilenceKeepsTalk
    <3>5. CalmInv'
      BY <1>1, <1>2, <3>1 DEF CalmInv
    <3> QED
      BY <3>4, <3>5
  <2> QED
    BY <2>2, <2>3, <2>4
<1>6. CASE pc = L + 1
  <2>1. mode' = "idle" /\ UNCHANGED <<pc, ids, test, calm>>
    BY <1>1, <1>6 DEF Return, InBody, InTearDown, Steps, TearDownReturn
  <2>2. ~InBody /\ ~InBody'
    BY <1>1, <1>6, <2>1 DEF InBody, Steps
  <2>3. calm = 0
    BY <2>2 DEF PollInv, CalmInv, Polling
  <2>4. TalkInv'
    BY <1>3, <2>1, <2>2, SilenceKeepsTalk
  <2>5. CalmInv'
    BY <1>1, <1>2, <2>1, <2>2, <2>3 DEF CalmInv
  <2> QED
    BY <2>4, <2>5
<1> QED
  BY <1>1, <1>4, <1>5, <1>6

\* A client that does not wait is not heard.
LEMMA Silent ==
  ASSUME LoopInv, mode # "wait"
  PROVE  /\ \A i \in 1 .. Len(inbox) : ~inbox[i].live
         /\ serving # None => ~serving.live
BY DEF LoopInv, LiveInv, Listening

\* A test starts, issues a request, cleans up or ends.
LEMMA BodyKeepsPoll ==
  ASSUME PollInv, \/ \E t \in Tests : StartTest(t)
                  \/ PollGivesUp \/ Issue \/ CleanUp \/ EndTest
  PROVE  TalkInv' /\ CalmInv'
<1> USE DEF stubVars, clientVars, bodyVars, sessionVars, pollVars
<1>1. PICK S : ids \in Seq(S)
  BY DEF PollInv, TalkInv
<1>2. calm \in Nat /\ took \in Nat /\ mode = "idle"
      /\ (\A i \in 1 .. Len(inbox) : ~inbox[i].live) /\ (serving # None => ~serving.live)
  BY Silent DEF PollInv, CalmInv, LoopInv, SessionInv, StartTest, PollGivesUp, TimeIsUp,
     Issue, CleanUp, EndTest
<1>3. ASSUME NEW t \in Tests, StartTest(t) PROVE TalkInv' /\ CalmInv'
  <2>1. pc' = 0 /\ ids' = <<>> /\ calm' = 0 /\ took' = 0 /\ UNCHANGED stubVars
    BY <1>3 DEF StartTest, StartCall
  <2>2. ~InBody'
    BY <2>1 DEF InBody
  <2>3. TalkInv'
    BY <1>2, <2>1, <2>2, EmptySeq, SilenceKeepsTalk
  <2>4. CalmInv'
    BY <2>1, <2>2 DEF CalmInv, Rechecks, Polling
  <2> QED
    BY <2>3, <2>4
<1>4. CASE PollGivesUp
  <2>1. /\ InBody /\ Steps[pc].do = "poll" /\ pc' = pc + 1 /\ calm' = 0
        /\ UNCHANGED <<ids, test, mode, took, server, inbox, serving>>
    BY <1>4 DEF PollGivesUp, TimeIsUp, Advance
  <2>2. test \in Tests /\ pc \in 1 .. Len(Script(test))
    BY <2>1 DEF InBody, Steps, PollInv, LoopInv, SessionInv
  <2>3. TaskStepOK(test, pc) /\ Steps[pc] = Script(test)[pc]
    BY <2>2, TasksAreCreatedFirst, SessionConfig DEF SessionConfig, Steps
  <2>4. (InBody /\ TaskKnown(test, pc) => LastTaskExists)'
    BY <2>1, <2>3 DEF TaskStepOK, PollInv, TalkInv, LastTaskExists
  <2>5. TalkInv'
    BY <1>1, <1>2, <2>1, <2>4, SilenceKeepsTalk
  <2>6. CalmInv'
    BY <1>2, <2>1 DEF CalmInv
  <2> QED
    BY <2>5, <2>6
<1>5. CASE Issue
  <2>1. /\ mode' = "send" /\ call' = Request(Steps[pc]) /\ took' = 0
        /\ UNCHANGED <<ids, test, pc, calm, server, inbox, serving>>
    BY <1>5 DEF Issue, StartCall
  <2>2. Steps' = Steps /\ InBody' = InBody
    BY <2>1 DEF Steps, InBody
  <2>3. (InBody /\ TaskKnown(test, pc) => LastTaskExists)'
    BY <2>1, <2>2 DEF PollInv, TalkInv, LastTaskExists
  <2>4. Request(Steps[pc])' = Request(Steps[pc])
    BY <2>1, <2>2 DEF Request
  <2>5. TalkInv'
    BY <1>1, <1>2, <2>1, <2>3, <2>4, SilenceKeepsTalk
  <2>6. Polling' = Polling /\ Recovered(server)' = Recovered(server)
    BY <2>1, <2>2 DEF Polling, Recovered
  <2>7. CalmInv'
    BY <1>2, <2>1, <2>6 DEF PollInv, CalmInv
  <2> QED
    BY <2>5, <2>7
<1>6. CASE CleanUp \/ EndTest
  <2>1. ~InBody /\ UNCHANGED <<calm, server, inbox, serving>> /\ took' \in {0, took}
        /\ (test' = None \/ UNCHANGED <<test, pc>>)
    BY <1>6 DEF CleanUp, EndTest, StartCall, InTearDown, InBody, PollInv, LoopInv, SessionInv, Steps
  <2>2. ~InBody'
    BY <2>1 DEF InBody, Steps
  <2>3. TalkInv'
    <3>1. \E T : ids' \in Seq(T)
      BY <1>1, <1>6, EmptySeq DEF CleanUp, EndTest, StartCall
    <3> QED
      BY <1>2, <2>1, <2>2, <3>1, SilenceKeepsTalk
  <2>4. calm' = calm /\ (test' # None => calm = 0)
    BY <2>1 DEF PollInv, CalmInv, Polling
  <2>5. CalmInv'
    BY <1>2, <2>1, <2>2, <2>4 DEF CalmInv, Rechecks, Polling
  <2> QED
    BY <2>3, <2>5
<1> QED
  BY <1>3, <1>4, <1>5, <1>6

\* The client connects, times out and resumes.
LEMMA SocketKeepsPoll ==
  ASSUME PollInv, Connect \/ TimeOut \/ Resume PROVE TalkInv' /\ CalmInv'
<1> USE DEF stubVars, clientVars, bodyVars, sessionVars, pollVars
<1>1. PICK S : ids \in Seq(S)
  BY DEF PollInv, TalkInv
<1>2. calm \in Nat /\ took \in Nat /\ test \in Tests /\ test # None /\ server.issued \in Nat
  BY IssuedIsNat, ScriptsUsed DEF PollInv, CalmInv, LoopInv, SessionInv, Connect, TimeOut, Resume
<1>3. CASE Connect
  <2> DEFINE e == [req |-> call, live |-> TRUE]
  <2>1. /\ mode = "send" /\ mode' = "wait" /\ inbox' = Append(inbox, e) /\ QueueOK(inbox)
        /\ UNCHANGED <<server, serving, call, ids, test, pc, calm, took, lost>>
    BY <1>3 DEF Connect, PollInv, LoopInv, StubInv
  <2>2. EntryOK(e) /\ e.req = call
    BY DEF EntryOK, PollInv, LoopInv, ClientInv
  <2> HIDE DEF e
  <2>3. /\ Len(inbox) \in Nat /\ Len(inbox') = Len(inbox) + 1
        /\ (\A i \in 1 .. Len(inbox) : inbox'[i] = inbox[i]) /\ inbox'[Len(inbox) + 1] = e
    BY <2>1, <2>2, Accepted
  <2>4. (\A i \in 1 .. Len(inbox) : ~inbox[i].live) /\ (serving # None => ~serving.live)
    BY <2>1, Silent DEF PollInv
  <2>5. \A i \in 1 .. Len(inbox') : inbox'[i].live => inbox'[i].req = call
    BY <2>2, <2>3, <2>4
  <2>6. Steps' = Steps /\ InBody' = InBody
    BY <2>1 DEF Steps, InBody
  <2>7. (InBody => call = Request(Steps[pc])) /\ Request(Steps[pc])' = Request(Steps[pc])
    BY <2>1, <2>6 DEF PollInv, TalkInv, Request
  <2>8. (InBody /\ TaskKnown(test, pc) => LastTaskExists)'
    BY <2>1, <2>6 DEF PollInv, TalkInv, LastTaskExists
  <2>9. TalkInv'
    BY <1>1, <2>1, <2>4, <2>5, <2>6, <2>7, <2>8 DEF TalkInv, Listening
  <2>10. Polling' = Polling /\ Recovered(server)' = Recovered(server)
    BY <2>1, <2>6 DEF Polling, Recovered
  <2>11. CalmInv'
    BY <1>2, <2>1, <2>4, <2>10 DEF PollInv, CalmInv
  <2> QED
    BY <2>9, <2>11
<1>4. CASE TimeOut
  <2>1. /\ \A i \in 1 .. Len(inbox') : ~inbox'[i].live
        /\ serving' # None => ~serving'.live
        /\ UNCHANGED server /\ mode \in {"wait", "send"}
    BY <1>4, HangUpMeans DEF TimeOut, PollInv, LoopInv
  <2>2. CASE attempt < Retries
    <3>1. mode' = "backoff" /\ UNCHANGED <<call, ids, test, pc, calm, took, lost>>
      BY <1>4, <2>2 DEF TimeOut, AttemptFails
    <3>2. Steps' = Steps /\ InBody' = InBody
      BY <3>1 DEF Steps, InBody
    <3>3. (InBody => call = Request(Steps[pc])) /\ Request(Steps[pc])' = Request(Steps[pc])
      BY <2>1, <3>1, <3>2 DEF PollInv, TalkInv, Request
    <3>4. (InBody /\ TaskKnown(test, pc) => LastTaskExists)'
      BY <2>1, <3>1, <3>2 DEF PollInv, TalkInv, LastTaskExists
    <3>5. TalkInv'
      BY <1>1, <2>1, <3>1, <3>2, <3>3, <3>4, SilenceKeepsTalk
    <3>6. Polling' = Polling /\ Recovered(server)' = Recovered(server)
      BY <2>1, <3>1, <3>2 DEF Polling, Recovered
    <3>7. CalmInv'
      BY <1>2, <2>1, <3>1, <3>6 DEF PollInv, CalmInv
    <3> QED
      BY <3>5, <3>7
  <2>3. CASE ~(attempt < Retries)
    <3>1. Return(Lost)
      BY <1>4, <2>3 DEF TimeOut, AttemptFails
    <3>2. ReplyOK(server, Lost)
      BY <1>2 DEF ReplyOK, Lost
    <3> QED
      BY <1>2, <2>1, <3>1, <3>2, ReturnKeepsPoll
  <2> QED
    BY <2>2, <2>3
<1>5. CASE Resume
  <2>1. /\ (mode = "backoff" /\ mode' = "send") \/ (mode = "pause" /\ clock = 0 /\ mode' = "idle")
        /\ UNCHANGED <<server, inbox, serving, call, ids, test, pc, calm, took, lost>>
    <3>1. mode = "backoff" => mode' = "send"
      BY <1>5 DEF Resume
    <3>2. mode = "pause" => clock = 0 /\ mode' = "idle"
      BY <1>5 DEF Resume
    <3> QED
      BY <1>5, <3>1, <3>2 DEF Resume
  <2>2. (\A i \in 1 .. Len(inbox) : ~inbox[i].live) /\ (serving # None => ~serving.live)
    BY <2>1, Silent DEF PollInv
  <2>3. Steps' = Steps /\ InBody' = InBody
    BY <2>1 DEF Steps, InBody
  <2>4. Request(Steps[pc])' = Request(Steps[pc])
    BY <2>1, <2>3 DEF Request
  <2>5. (InBody /\ TaskKnown(test, pc) => LastTaskExists)'
    BY <2>1, <2>3 DEF PollInv, TalkInv, LastTaskExists
  <2>6. TalkInv'
    BY <1>1, <2>1, <2>2, <2>3, <2>4, <2>5, SilenceKeepsTalk DEF PollInv, TalkInv
  <2>7. Polling' = Polling /\ Rechecks' = Rechecks /\ Recovered(server)' = Recovered(server)
    BY <2>1, <2>3 DEF Polling, Rechecks, Recovered
  <2>8. CalmInv'
    BY <1>2, <2>1, <2>2, <2>7 DEF PollInv, CalmInv
  <2> QED
    BY <2>6, <2>8
<1> QED
  BY <1>3, <1>4, <1>5

\* What a recovery check waits for is what its request asks for.
LEMMA RecoveredReplies ==
  ASSUME PollInv, InBody, Rechecks, call = Request(Steps[pc]),
         NEW h, h = Handle(server, call), Recovered(h.to),
         NEW r, r = [status |-> h.status, id |-> h.id, list |-> h.list]
  PROVE  Holds(Steps[pc], r)
<1> DEFINE st == Steps[pc]
<1>1. test \in Tests /\ pc \in 1 .. Len(Script(test)) /\ st = Script(test)[pc]
  BY DEF InBody, Steps, PollInv, LoopInv, SessionInv
<1>2. st.do = "poll" /\ st.cond \in {"healthy", "done"} /\ StubOK(server)
  BY DEF Rechecks, Polling, PollInv, LoopInv, StubInv
<1>3. CASE st.cond = "healthy"
  <2>1. call = Get("health")
    BY <1>2, <1>3 DEF Request
  <2>2. h = DoGet(server, call) /\ call.on = "health"
    <3>1. Get("health").verb = "GET" /\ Get("health").on = "health"
      BY DEF Get
    <3>2. call.verb = "GET" /\ call.on = Request(Steps[pc]).on
      BY <2>1, <3>1
    <3> QED
      BY <2>1, <3>1, <3>2 DEF Handle
  <2>3. ~KillActive(h.to)
    BY <1>3 DEF Recovered
  <2>4. h.status = 200
    BY <1>2, <2>2, <2>3, DoGetKeeps
  <2> QED
    BY <1>3, <2>4 DEF Holds
<1>4. CASE st.cond = "done"
  <2>1. call = Get("tasks")
    BY <1>2, <1>4 DEF Request
  <2>2. h = DoGet(server, call) /\ call.on = "tasks"
    <3>1. Get("tasks").verb = "GET" /\ Get("tasks").on = "tasks"
      BY DEF Get
    <3>2. call.verb = "GET" /\ call.on = Request(Steps[pc]).on
      BY <2>1, <3>1
    <3> QED
      BY <2>1, <3>1, <3>2 DEF Handle
  <2>3. ~QueueStarveActive(h.to)
    BY <1>4 DEF Recovered
  <2>4. /\ h.list = h.to.tasks /\ \A t \in h.list : t.status = "completed"
        /\ IdOf(server.tasks) \subseteq IdOf(h.to.tasks)
    <3>1. /\ Kept(server, DoGet(server, call))
          /\ DoGet(server, call).list = DoGet(server, call).to.tasks
          /\ ~QueueStarveActive(DoGet(server, call).to) =>
               \A t \in DoGet(server, call).list : t.status = "completed"
      BY <1>2, <2>2, DoGetKeeps
    <3> QED
      BY <2>2, <2>3, <3>1 DEF Kept
  <2>5. TaskKnown(test, pc)
    BY <1>1, <1>2, <1>4, TasksAreCreatedFirst, SessionConfig DEF SessionConfig, TaskStepOK
  <2>6. ids[Len(ids)] \in IdOf(h.to.tasks)
    BY <2>4, <2>5 DEF PollInv, TalkInv, LastTaskExists
  <2>7. PICK t \in h.list : t.id = ids[Len(ids)] /\ t.status = "completed"
    BY <2>4, <2>6 DEF IdOf
  <2> QED
    BY <1>4, <2>7 DEF Holds
<1> QED
  BY <1>2, <1>3, <1>4

\* The stub serves and replies.
LEMMA StubKeepsPoll ==
  ASSUME PollInv, Serve \/ Finish PROVE TalkInv' /\ CalmInv'
<1> USE DEF stubVars, clientVars, bodyVars, sessionVars, pollVars
<1>1. PICK S : ids \in Seq(S)
  BY DEF PollInv, TalkInv
<1>2. calm \in Nat /\ took \in Nat
  BY DEF PollInv, CalmInv
<1>3. CASE Serve
  <2> DEFINE e == Head(inbox)
             h == Handle(server, e.req)
             r == [status |-> h.status, id |-> h.id, list |-> h.list]
             v == [live |-> e.live, left |-> Delay(h.to), reply |-> r]
  <2>1. /\ serving = None /\ server' = h.to /\ serving' = v /\ inbox' = Tail(inbox)
        /\ inbox # <<>> /\ UNCHANGED <<call, mode, clock, ids, test, pc, took, lost>>
        /\ calm' = IF Polling /\ Recovered(h.to) THEN calm ELSE 0
    BY <1>3 DEF Serve
  <2>2. /\ EntryOK(e) /\ e = inbox[1] /\ 1 \in 1 .. Len(inbox)
        /\ Len(inbox') = Len(inbox) - 1 /\ Len(inbox) \in Nat
        /\ \A i \in 1 .. Len(inbox) - 1 : inbox'[i] = inbox[i + 1]
    BY <2>1, Popped DEF PollInv, LoopInv, StubInv
  <2>3. Kept(server, h)
    BY <2>2, HandleKeeps DEF PollInv, LoopInv, StubInv, EntryOK
  <2>4. IdOf(server.tasks) \subseteq IdOf(server'.tasks)
    BY <2>1, <2>3 DEF Kept
  <2>5. serving'.live = e.live /\ serving'.reply = r /\ r.status = h.status /\ r.id = h.id
    BY <2>1
  <2>6. e.live => e.req = call /\ mode = "wait"
    BY <2>2 DEF PollInv, TalkInv, LoopInv, LiveInv, Listening
  <2>7. ASSUME e.live, PostsTask(call), r.status = 201 PROVE r.id \in IdOf(server'.tasks)
    <3>1. h = DoPost(server, call) /\ call.delay \in Nat /\ StubOK(server)
      BY <2>2, <2>6, <2>7 DEF Handle, PostsTask, EntryOK, IsRequest, PollInv, LoopInv, StubInv
    <3> QED
      BY <2>1, <2>5, <2>7, <3>1, DoPostKeeps DEF PostsTask
  <2>8. Steps' = Steps /\ InBody' = InBody /\ Polling' = Polling /\ Rechecks' = Rechecks
    BY <2>1 DEF Steps, InBody, Polling, Rechecks
  <2>9. Recovered(server)' = Recovered(h.to)
    BY <2>1, <2>8 DEF Recovered
  <2>10. ASSUME e.live, Rechecks PROVE Holds(Steps[pc], r) \/ calm' = 0
    <3>1. CASE Recovered(h.to)
      <4>1. InBody /\ call = Request(Steps[pc]) /\ h = Handle(server, call)
        BY <2>6, <2>10 DEF PollInv, TalkInv, Rechecks, Polling
      <4> QED
        BY <2>10, <3>1, <4>1, RecoveredReplies
    <3>2. CASE ~Recovered(h.to)
      BY <2>1, <3>2
    <3> QED
      BY <3>1, <3>2
  <2>11. Holds(Steps[pc], serving.reply)' = Holds(Steps[pc], r)
    BY <2>1, <2>5, <2>8 DEF Holds
  <2>12. Request(Steps[pc])' = Request(Steps[pc])
    BY <2>1, <2>8 DEF Request
  <2> HIDE DEF v, r, h, e
  <2>13. \A i \in 1 .. Len(inbox') : inbox'[i].live => inbox'[i].req = call
    BY <2>2 DEF PollInv, TalkInv, Listening
  <2>14. (InBody /\ TaskKnown(test, pc) => LastTaskExists)'
    BY <2>1, <2>4, <2>8 DEF PollInv, TalkInv, LastTaskExists
  <2>15. TalkInv'
    BY <1>1, <2>1, <2>5, <2>7, <2>8, <2>12, <2>13, <2>14 DEF PollInv, TalkInv, Listening
  <2>16. calm' \in Nat /\ calm' <= calm
    BY <1>2, <2>1
  <2>17. (test # None /\ ~(Polling /\ Recovered(server)) => calm = 0)'
    BY <2>1, <2>8, <2>9
  <2>18. Rechecks => (mode = "pause" => lost \/ calm' + clock <= took + 1)
                     /\ (mode = "idle" => lost \/ calm' <= took + 1)
    <3>1. clock \in Nat
      BY DEF PollInv, LoopInv, ClientInv
    <3>2. Rechecks => (mode = "pause" => lost \/ calm + clock <= took + 1)
                      /\ (mode = "idle" => lost \/ calm <= took + 1)
      BY DEF PollInv, CalmInv
    <3>3. ASSUME NEW a \in Nat, NEW b \in Nat, NEW c \in Nat, NEW t \in Nat, a <= b
          PROVE  (b + c <= t + 1 => a + c <= t + 1) /\ (b <= t + 1 => a <= t + 1)
      BY <3>3
    <3>4. /\ calm + clock <= took + 1 => calm' + clock <= took + 1
          /\ calm <= took + 1 => calm' <= took + 1
      BY <1>2, <2>16, <3>1, <3>3
    <3> QED
      BY <3>2, <3>4
  <2>19. Rechecks /\ serving'.live => Holds(Steps[pc], serving.reply)' \/ calm' <= took
    BY <1>2, <2>5, <2>10, <2>11
  <2>20. CalmInv'
    BY <1>2, <2>1, <2>8, <2>16, <2>17, <2>18, <2>19 DEF CalmInv
  <2> QED
    BY <2>15, <2>20
<1>4. CASE Finish
  <2>1. serving # None /\ serving' = None /\ UNCHANGED <<server, inbox>>
    BY <1>4 DEF Finish
  <2>2. CASE ~serving.live
    <3>1. UNCHANGED <<call, mode, clock, ids, test, pc, calm, took, lost>>
      BY <1>4, <2>2 DEF Finish
    <3>2. Steps' = Steps /\ InBody' = InBody
      BY <3>1 DEF Steps, InBody
    <3>3. Polling' = Polling /\ Rechecks' = Rechecks /\ Recovered(server)' = Recovered(server)
          /\ Request(Steps[pc])' = Request(Steps[pc])
      BY <2>1, <3>1, <3>2 DEF Polling, Rechecks, Recovered, Request
    <3>4. (InBody /\ TaskKnown(test, pc) => LastTaskExists)'
      BY <2>1, <3>1, <3>2 DEF PollInv, TalkInv, LastTaskExists
    <3>5. TalkInv'
      BY <1>1, <2>1, <3>1, <3>2, <3>3, <3>4 DEF PollInv, TalkInv, Listening
    <3>6. CalmInv'
      BY <1>2, <2>1, <3>1, <3>3 DEF PollInv, CalmInv
    <3> QED
      BY <3>5, <3>6
  <2>3. CASE serving.live
    <3>1. Return(serving.reply) /\ ReplyOK(server, serving.reply)
      BY <1>4, <2>1, <2>3 DEF Finish, PollInv, LoopInv, StubInv, ServingOK
    <3>2. test # None /\ \A i \in 1 .. Len(inbox') : ~inbox'[i].live
      BY <2>1, <2>3 DEF PollInv, LoopInv, LiveInv, SessionInv, Listening
    <3> QED
      BY <2>1, <2>3, <3>1, <3>2, ReturnKeepsPoll
  <2> QED
    BY <2>2, <2>3
<1> QED
  BY <1>3, <1>4

\* Time passes: for the call in progress as much as for what the poll waits for.
LEMMA TickKeepsPoll ==
  ASSUME PollInv, Tick PROVE TalkInv' /\ CalmInv'
<1> DEFINE d == Min(Timers)
<1>1. d \in Nat /\ (test # None => mode # "idle" /\ (mode = "pause" => d <= clock))
  BY TickMeans DEF PollInv
<1>2. /\ calm' = IF Polling /\ Recovered(server) THEN calm + d ELSE 0
      /\ took' = IF Polling /\ mode # "pause" THEN took + d ELSE took
      /\ test # None /\ mode = "pause" => clock' = clock - d
      /\ serving' = IF serving = None THEN None ELSE [serving EXCEPT !.left = @ - d]
      /\ UNCHANGED <<server, inbox, call, mode, ids, test, pc, lost>>
  BY DEF Tick, sessionVars
<1> HIDE DEF d
<1>3. calm \in Nat /\ took \in Nat /\ clock \in Nat
  BY DEF PollInv, CalmInv, LoopInv, ClientInv
<1>4. serving' # None => serving # None /\ serving'.live = serving.live /\ serving'.reply = serving.reply
  <2>1. CASE serving = None
    BY <1>2, <2>1
  <2>2. CASE serving # None
    <3>1. ServingOK(serving, server)
      BY <2>2 DEF PollInv, LoopInv, StubInv
    <3> QED
      BY <1>2, <2>2, <3>1 DEF ServingOK
  <2> QED
    BY <2>1, <2>2
<1>5. Steps' = Steps /\ InBody' = InBody
  BY <1>2 DEF Steps, InBody
<1>6. Polling' = Polling /\ Rechecks' = Rechecks /\ Recovered(server)' = Recovered(server)
      /\ Request(Steps[pc])' = Request(Steps[pc])
  BY <1>2, <1>5 DEF Polling, Rechecks, Recovered, Request
<1>7. (InBody /\ TaskKnown(test, pc) => LastTaskExists)'
  BY <1>2, <1>5 DEF PollInv, TalkInv, LastTaskExists
<1>8. TalkInv'
  BY <1>2, <1>4, <1>5, <1>6, <1>7 DEF PollInv, TalkInv, Listening
<1>9. calm' \in Nat /\ took' \in Nat /\ calm' <= calm + d
  BY <1>1, <1>2, <1>3
<1>10. (test # None /\ ~(Polling /\ Recovered(server)) => calm = 0)'
  BY <1>2, <1>6
<1>11. Rechecks /\ mode = "pause" => lost \/ calm' + clock' <= took' + 1
  <2> SUFFICES ASSUME Rechecks, mode = "pause", ~lost PROVE calm' + clock' <= took' + 1
    OBVIOUS
  <2>1. calm + clock <= took + 1 /\ test # None
    BY DEF PollInv, CalmInv, Rechecks, Polling, InBody
  <2> QED
    BY <1>1, <1>2, <1>3, <1>9, <2>1
<1>12. Rechecks => mode # "idle"
  BY <1>1 DEF Rechecks, Polling, InBody
<1>13. Rechecks /\ serving' # None /\ serving'.live =>
         Holds(Steps[pc], serving.reply)' \/ calm' <= took'
  <2> SUFFICES ASSUME Rechecks, serving' # None, serving'.live, calm <= took
               PROVE  calm' <= took'
    <3>1. serving' # None => Holds(Steps[pc], serving.reply)' = Holds(Steps[pc], serving.reply)
      BY <1>2, <1>4, <1>5 DEF Holds
    <3> QED
      BY <1>4, <3>1 DEF PollInv, CalmInv
  <2>1. mode = "wait" /\ Polling
    BY <1>4 DEF PollInv, LoopInv, LiveInv, Rechecks
  <2>2. took' = took + d
    BY <1>2, <2>1
  <2> QED
    BY <1>1, <1>3, <1>9, <2>2
<1>14. CalmInv'
  BY <1>2, <1>6, <1>9, <1>10, <1>11, <1>12, <1>13 DEF CalmInv
<1> QED
  BY <1>8, <1>14

\* A test process is killed; somebody deletes a fault by hand.
LEMMA MishapKeepsPoll ==
  ASSUME PollInv, KillTest \/ \E f \in server.faults : DeleteByHand(f.id)
  PROVE  TalkInv' /\ CalmInv'
<1> USE DEF stubVars, clientVars, bodyVars, sessionVars, pollVars
<1>1. calm \in Nat /\ took \in Nat /\ \E S : ids \in Seq(S)
  BY DEF PollInv, CalmInv, TalkInv
<1>2. CASE KillTest
  <2>1. /\ test' = None /\ mode' = "idle" /\ ids' = <<>> /\ UNCHANGED <<calm, took, lost>>
        /\ \A i \in 1 .. Len(inbox') : ~inbox'[i].live
        /\ serving' # None => ~serving'.live
    BY <1>2, HangUpMeans DEF KillTest, PollInv, LoopInv
  <2>2. ~InBody'
    BY <2>1 DEF InBody
  <2>3. TalkInv'
    BY <2>1, <2>2, EmptySeq, SilenceKeepsTalk
  <2>4. CalmInv'
    BY <1>1, <2>1, <2>2 DEF CalmInv, Rechecks, Polling
  <2> QED
    BY <2>3, <2>4
<1>3. ASSUME NEW f \in server.faults, DeleteByHand(f.id) PROVE TalkInv' /\ CalmInv'
  <2> DEFINE e == [req |-> Delete(f.id), live |-> FALSE]
  <2>1. EntryOK(e) /\ ~e.live
    BY RequestsAreRequests DEF EntryOK
  <2>2. inbox' = Append(inbox, e) /\ QueueOK(inbox)
        /\ UNCHANGED <<server, serving, call, mode, clock, ids, test, pc, calm, took, lost>>
    BY <1>3 DEF DeleteByHand, PollInv, LoopInv, StubInv
  <2> HIDE DEF e
  <2>3. /\ Len(inbox) \in Nat /\ Len(inbox') = Len(inbox) + 1
        /\ \A i \in 1 .. Len(inbox) : inbox'[i] = inbox[i]
        /\ ~inbox'[Len(inbox) + 1].live
    BY <2>1, <2>2, Accepted
  <2>4. \A i \in 1 .. Len(inbox') : inbox'[i].live => inbox'[i].req = call
    BY <2>3 DEF PollInv, TalkInv, Listening
  <2>5. Steps' = Steps /\ InBody' = InBody
    BY <2>2 DEF Steps, InBody
  <2>6. Polling' = Polling /\ Rechecks' = Rechecks /\ Recovered(server)' = Recovered(server)
        /\ Request(Steps[pc])' = Request(Steps[pc])
        /\ Holds(Steps[pc], serving.reply)' = Holds(Steps[pc], serving.reply)
    BY <2>2, <2>5 DEF Polling, Rechecks, Recovered, Request, Holds
  <2>7. (InBody /\ TaskKnown(test, pc) => LastTaskExists)'
    BY <2>2, <2>5 DEF PollInv, TalkInv, LastTaskExists
  <2>8. TalkInv'
    BY <1>1, <2>2, <2>4, <2>5, <2>6, <2>7 DEF PollInv, TalkInv, Listening
  <2>9. CalmInv'
    BY <1>1, <2>2, <2>6 DEF PollInv, CalmInv
  <2> QED
    BY <2>8, <2>9
<1> QED
  BY <1>2, <1>3

\* Every step keeps both invariants.
LEMMA StepKeepsPoll == PollInv /\ [Next]_vars => PollInv'
<1> SUFFICES ASSUME PollInv, [Next]_vars PROVE TalkInv' /\ CalmInv'
  BY StepKeepsInv DEF PollInv
<1>1. CASE UNCHANGED vars
  <2>1. UNCHANGED <<server, inbox, serving, call, mode, clock, ids, test, pc, calm, took, lost>>
    BY <1>1 DEF vars, stubVars, clientVars, bodyVars, sessionVars, pollVars
  <2>2. Steps' = Steps /\ InBody' = InBody
    BY <2>1 DEF Steps, InBody
  <2>3. Polling' = Polling /\ Rechecks' = Rechecks /\ Recovered(server)' = Recovered(server)
        /\ Request(Steps[pc])' = Request(Steps[pc])
        /\ Holds(Steps[pc], serving.reply)' = Holds(Steps[pc], serving.reply)
    BY <2>1, <2>2 DEF Polling, Rechecks, Recovered, Request, Holds
  <2>4. TalkInv'
    BY <2>1, <2>2, <2>3 DEF PollInv, TalkInv, Listening, LastTaskExists
  <2>5. CalmInv'
    BY <2>1, <2>3 DEF PollInv, CalmInv
  <2> QED
    BY <2>4, <2>5
<1> QED
  BY <1>1, BodyKeepsPoll, SocketKeepsPoll, StubKeepsPoll, TickKeepsPoll, MishapKeepsPoll
     DEF Next, Progress

\* No test runs at first, so nothing is asked or polled for.
LEMMA InitPollInv == Init => PollInv
<1> SUFFICES ASSUME Init PROVE TalkInv /\ CalmInv
  BY InitLoopInv DEF PollInv
<1>1. ~InBody
  BY DEF Init, InBody
<1>2. TalkInv
  BY <1>1, EmptySeq DEF Init, TalkInv
<1>3. CalmInv
  BY <1>1 DEF Init, CalmInv, Rechecks, Polling
<1> QED
  BY <1>2, <1>3

\* A recovery check of a chaos test that runs into its deadline had a reason:
\* its last call was lost, or the stub recovered so late that no evaluation of
\* the predicate could have seen it; whatever the timeouts, the backoffs, the
\* left-overs and the mishaps.
THEOREM RecoveryChecksAreFair == Spec => []GivesUpForAReason
<1>1. PollInv => GivesUpForAReason
  BY DEF PollInv, CalmInv, GivesUpForAReason, TimeIsUp, Rechecks, Polling
<1>2. Init => PollInv
  BY InitPollInv
<1>3. PollInv /\ [Next]_vars => PollInv'
  BY StepKeepsPoll
<1> QED
  BY <1>1, <1>2, <1>3, PTL DEF Spec

-------------------------------------------------------------------------------
(* A test that begins on an idle stub without faults, and is not killed,   *)
(* passes.  What it finds on the stub before each step is what its earlier *)
(* steps have put there.                                                   *)

\* The step that removes the n-th fault of a test, which its n-th step injects.
RemovedAt(t) ==
  CASE t \in {"R01", "R02", "R03", "E01"} -> <<3>>
    [] t = "R04"                          -> <<6>>
    [] t = "R05"                          -> <<5, 6>>
    [] t \in {"E02", "E03", "E04"}        -> <<2>>
    [] OTHER                              -> <<>>

FaultsOf(t) == 1 .. Len(RemovedAt(t))
TypeOf(t, n) == Script(t)[n].req.arg
DelayOf(t, n) == Script(t)[n].req.delay

\* The faults that stand before step k.
Standing(t, k) == {n \in FaultsOf(t) : n < k /\ k <= RemovedAt(t)[n]}
Stands(t, k, type) == \E n \in Standing(t, k) : TypeOf(t, n) = type

\* A poll that is meant to see nothing.
Starving(t, k) ==
  Script(t)[k].do = "poll" /\ Script(t)[k].cond = "done" /\ Stands(t, k, "queue-starve")

\* Step k neither injects nor removes a fault; all faults are removed before it.
Same(t, k) == k \notin FaultsOf(t) /\ \A n \in FaultsOf(t) : RemovedAt(t)[n] # k
Gone(t, k) == \A n \in FaultsOf(t) : RemovedAt(t)[n] < k

\* How each kind of step agrees with the faults that stand before it.
Injects(t, k, st) ==
  /\ st.do = "inject" /\ st.req.verb = "POST" /\ st.req.on = "chaos/" /\ st.req.body # "empty"
  /\ st.req.arg \in ChaosTypes \ {"test-empty"} /\ k \in FaultsOf(t)
Creates(t, k, st) ==
  /\ st.do = "inject" /\ st.req.verb = "POST" /\ st.req.on \in {"teams", "agents", "teams/tasks"}
  /\ Acceptable(st.req) /\ Same(t, k)
Removes(t, k, st) ==
  st.do = "remove" /\ st.k \in FaultsOf(t) /\ RemovedAt(t)[st.k] = k
Lists(t, k, st) ==
  /\ st.do = "list" /\ Same(t, k)
  /\ \A n \in st.has : n \in Standing(t, k)
  /\ \A n \in st.lacks : n \in FaultsOf(t) /\ Gone(t, k)
Probes(t, k, st) ==
  /\ st.do = "probe" /\ Same(t, k)
  /\ \/ Gone(t, k) /\ 0 \in st.least .. st.most
     \/ Standing(t, k) = {1} /\ TypeOf(t, 1) = "latency" /\ DelayOf(t, 1) \in st.least .. st.most
Sends(t, k, st) ==
  /\ st.do = "send" /\ Same(t, k) /\ Gone(t, k)
  /\ \A s : s.faults = {} => Handle(s, st.req).to = s /\ Handle(s, st.req).status \in st.ok
Polls(t, k, st) ==
  /\ st.do = "poll" /\ Same(t, k) /\ st.upto \in Nat \ {0}
  /\ \/ Starving(t, k) /\ FALSE \in st.expect
     \/ /\ TRUE \in st.expect
        /\ \/ st.cond = "listed" /\ Stands(t, k, TypeOf(t, 1))
           \/ st.cond = "unhealthy" /\ Stands(t, k, "kill")
           \/ st.cond \in {"healthy", "done"} /\ Gone(t, k)

StepFits(t, k) ==
  LET st == Script(t)[k] IN
  \/ Injects(t, k, st) \/ Creates(t, k, st) \/ Removes(t, k, st)
  \/ Lists(t, k, st) \/ Probes(t, k, st) \/ Sends(t, k, st) \/ Polls(t, k, st)

\* The longest that the stub sleeps on a reply to such a test.
Longest == 4

\* All faults are injected first and removed later, by a step each, and at most
\* one of them delays the replies.
ScriptFits(t) ==
  /\ Len(Script(t)) \in Nat /\ Len(RemovedAt(t)) \in Nat
  /\ \A n \in FaultsOf(t) :
       /\ RemovedAt(t)[n] \in Len(RemovedAt(t)) + 1 .. Len(Script(t))
       /\ DelayOf(t, n) \in 0 .. Longest /\ (TypeOf(t, n) = "latency" => n = 1)
       /\ \A m \in FaultsOf(t) : RemovedAt(t)[m] = RemovedAt(t)[n] => m = n
  /\ \A k \in 1 .. Len(Script(t)) : StepFits(t, k)

\* What is in those lists.
LEMMA RemovedMeans ==
  /\ \A t \in {"R01", "R02", "R03", "E01"} : Len(RemovedAt(t)) = 1 /\ RemovedAt(t)[1] = 3
  /\ Len(RemovedAt("R04")) = 1 /\ RemovedAt("R04")[1] = 6
  /\ Len(RemovedAt("R05")) = 2 /\ RemovedAt("R05")[1] = 5 /\ RemovedAt("R05")[2] = 6
  /\ \A t \in {"E02", "E03", "E04"} : Len(RemovedAt(t)) = 1 /\ RemovedAt(t)[1] = 2
  /\ \A t \in {"C10", "TaskState", "Malformed", "TestEmpty"} : Len(RemovedAt(t)) = 0
BY DEF RemovedAt

\* Each kind of step, as the scripts use it.  A step that injects a fault.
LEMMA InjectsFit ==
  ASSUME NEW t, NEW k \in FaultsOf(t), NEW delay,
         NEW type \in {"network-partition", "latency", "kill", "queue-starve"},
         Script(t)[k] = Inject(type, delay) \/ Script(t)[k] = InjectApi(type)
  PROVE  StepFits(t, k)
<1>1. Injects(t, k, Script(t)[k])
  BY DEF Inject, InjectApi, PostChaos, Injects, ChaosTypes
<1> QED
  BY <1>1, Zenon DEF StepFits

\* A step that creates a team, an agent or a task.
LEMMA CreatesFit ==
  ASSUME NEW t, NEW k, NEW on \in {"teams", "agents", "teams/tasks"},
         Script(t)[k] = Create(on), Same(t, k)
  PROVE  StepFits(t, k)
<1> DEFINE st == Script(t)[k]
<1>1. st.do = "inject" /\ st.req = Post(on, "object", Json)
  BY DEF Create
<1>2. /\ st.req.verb = "POST" /\ st.req.on = on
      /\ st.req.body = "object" /\ st.req.ct = "application/json"
  BY <1>1 DEF Post, Json
<1> HIDE DEF st
<1>3. Creates(t, k, st)
  BY <1>1, <1>2 DEF Creates, Acceptable, IsJson
<1> QED
  BY <1>3, Zenon DEF StepFits, st

\* A step that removes a fault.
LEMMA RemovesFit ==
  ASSUME NEW t, NEW k, NEW n \in FaultsOf(t), RemovedAt(t)[n] = k,
         Script(t)[k] = Remove(n) \/ Script(t)[k] = RemoveApi(n)
  PROVE  StepFits(t, k)
<1>1. Removes(t, k, Script(t)[k])
  BY DEF Remove, RemoveApi, Removes
<1> QED
  BY <1>1, Zenon DEF StepFits

\* A step that lists the faults: those that stand, or none.
LEMMA ListsFit ==
  ASSUME NEW t, NEW k, NEW fatal, Same(t, k),
         \/ Script(t)[k] = List(Standing(t, k), {}, fatal)
         \/ Script(t)[k] = List({}, FaultsOf(t), fatal) /\ Gone(t, k)
  PROVE  StepFits(t, k)
<1>1. Lists(t, k, Script(t)[k])
  BY DEF List, Lists
<1> QED
  BY <1>1, Zenon DEF StepFits

\* A step that measures the reply to a health check.
LEMMA ProbesFit ==
  ASSUME NEW t, NEW k, NEW least, NEW most, Script(t)[k] = Probe(least, most), Same(t, k),
         \/ Gone(t, k) /\ 0 \in least .. most
         \/ Standing(t, k) = {1} /\ TypeOf(t, 1) = "latency" /\ DelayOf(t, 1) \in least .. most
  PROVE  StepFits(t, k)
<1> DEFINE st == Script(t)[k]
<1>1. st.do = "probe" /\ st.least = least /\ st.most = most
  BY DEF Probe
<1> HIDE DEF st
<1>2. Probes(t, k, st)
  BY <1>1, Zenon DEF Probes
<1> QED
  BY <1>2, Zenon DEF StepFits, st

\* A step that waits for something, or for nothing to happen.
LEMMA PollsFit ==
  ASSUME NEW t, NEW k, NEW cond, NEW upto, NEW expect, Script(t)[k] = Poll(cond, upto, expect),
         upto \in Nat \ {0}, Same(t, k),
         \/ FALSE \in expect /\ cond = "done" /\ Stands(t, k, "queue-starve")
         \/ TRUE \in expect /\ cond = "listed" /\ Stands(t, k, TypeOf(t, 1))
         \/ TRUE \in expect /\ cond = "unhealthy" /\ Stands(t, k, "kill")
         \/ TRUE \in expect /\ cond \in {"healthy", "done"} /\ Gone(t, k)
  PROVE  StepFits(t, k)
<1> DEFINE st == Script(t)[k]
<1>1. st.do = "poll" /\ st.cond = cond /\ st.expect = expect /\ st.upto = upto
  BY DEF Poll
<1>2. cond = "done" /\ Stands(t, k, "queue-starve") => Starving(t, k)
  BY <1>1, Zenon DEF Starving
<1> HIDE DEF st
<1>3. Polls(t, k, st)
  BY <1>1, <1>2, Zenon DEF Polls
<1> QED
  BY <1>3, Zenon DEF StepFits, st

\* A step that sends a request which changes nothing.
LEMMA SendsFit ==
  ASSUME NEW t, NEW k, Same(t, k), Gone(t, k), Script(t)[k].do = "send",
         NEW q, Script(t)[k].req = q, NEW status, status \in Script(t)[k].ok,
         \A s : s.faults = {} => Handle(s, q) = Reply(s, status)
  PROVE  StepFits(t, k)
<1> DEFINE st == Script(t)[k]
<1>1. \A s : Reply(s, status).to = s /\ Reply(s, status).status = status
  BY DEF Reply
<1>2. st.do = "send" /\ st.req = q /\ status \in st.ok
  OBVIOUS
<1> HIDE DEF st
<1>3. ASSUME NEW s, s.faults = {}
      PROVE  Handle(s, st.req).to = s /\ Handle(s, st.req).status \in st.ok
  <2>1. Handle(s, st.req) = Reply(s, status)
    BY <1>2, <1>3
  <2> QED
    BY <1>1, <1>2, <2>1
<1>4. Sends(t, k, st)
  BY <1>2, <1>3, Zenon DEF Sends
<1> QED
  BY <1>4, Zenon DEF StepFits, st

\* Such a step with a body that no collection accepts,
LEMMA BadBodiesFit ==
  ASSUME NEW t, NEW k, NEW on \in {"teams/tasks", "agents"}, NEW ct, NEW ok, Same(t, k), Gone(t, k),
         Script(t)[k] = Send(on, "unparseable", ct, ok), 400 \in ok
  PROVE  StepFits(t, k)
<1> DEFINE q == Post(on, "unparseable", ct)
<1>1. Script(t)[k].do = "send" /\ Script(t)[k].ok = ok /\ Script(t)[k].req = q
  BY DEF Send
<1>2. \A s : Handle(s, q) = Reply(s, 400)
  BY DEF Post, Handle, DoPost, PostTask, PostAgent, Acceptable
<1> HIDE DEF q
<1> QED
  BY <1>1, <1>2, SendsFit

\* with the fault type that is always refused,
LEMMA TestEmptyFits ==
  ASSUME NEW t, NEW k, NEW body, NEW ok, Same(t, k), Gone(t, k),
         Script(t)[k] = SendChaos("test-empty", body, ok), 400 \in ok
  PROVE  StepFits(t, k)
<1> DEFINE q == PostChaos("test-empty", body, 0)
<1>1. Script(t)[k].do = "send" /\ Script(t)[k].ok = ok /\ Script(t)[k].req = q
  BY DEF SendChaos
<1>2. \A s : Handle(s, q) = Reply(s, 400)
  BY DEF PostChaos, Handle, DoPost, PostFault, ChaosTypes
<1> HIDE DEF q
<1> QED
  BY <1>1, <1>2, SendsFit

\* or with a health check.
LEMMA HealthyFits ==
  ASSUME NEW t, NEW k, Same(t, k), Gone(t, k), Script(t)[k] = Healthy
  PROVE  StepFits(t, k)
<1>1. /\ Healthy.do = "send" /\ Healthy.ok = {200}
      /\ Healthy.req.verb = "GET" /\ Healthy.req.on = "health"
  BY DEF Healthy, Get
<1> DEFINE q == Healthy.req
<1> HIDE DEF q
<1>2. \A s : s.faults = {} => Handle(s, q) = Reply(s, 200)
  BY <1>1 DEF Handle, DoGet, KillActive, OfType, q
<1>3. Script(t)[k].do = "send" /\ 200 \in Script(t)[k].ok /\ Script(t)[k].req = q
  BY <1>1 DEF q
<1> QED
  BY <1>2, <1>3, SendsFit

\* A test that injects no fault.
LEMMA NoFault ==
  ASSUME NEW t, Len(RemovedAt(t)) = 0
  PROVE  \A k : Same(t, k) /\ Gone(t, k)
BY DEF FaultsOf, Same, Gone

\* One fault, removed by step r.
LEMMA OneFault ==
  ASSUME NEW t, NEW r \in Nat, r > 1, Len(RemovedAt(t)) = 1, RemovedAt(t)[1] = r
  PROVE  /\ FaultsOf(t) = {1} /\ 1 \in FaultsOf(t)
         /\ \A k \in Nat : k > 1 /\ k # r => Same(t, k)
         /\ \A k \in Nat : k > r => Gone(t, k)
         /\ \A k \in Nat : k > 1 /\ k <= r => Standing(t, k) = {1} /\ Stands(t, k, TypeOf(t, 1))
<1>1. FaultsOf(t) = {1}
  BY DEF FaultsOf
<1>2. \A k \in Nat : k > 1 /\ k # r => Same(t, k)
  BY <1>1 DEF Same
<1>3. \A k \in Nat : k > r => Gone(t, k)
  BY <1>1 DEF Gone
<1>4. \A k \in Nat : k > 1 /\ k <= r => Standing(t, k) = {1} /\ Stands(t, k, TypeOf(t, 1))
  BY <1>1 DEF Standing, Stands
<1> QED
  BY <1>1, <1>2, <1>3, <1>4

\* Two faults, the first one removed before the second.
LEMMA TwoFaults ==
  ASSUME NEW t, NEW r \in Nat, NEW q \in Nat, r > 2, q > r,
         Len(RemovedAt(t)) = 2, RemovedAt(t)[1] = r, RemovedAt(t)[2] = q
  PROVE  /\ FaultsOf(t) = {1, 2} /\ 1 \in FaultsOf(t) /\ 2 \in FaultsOf(t)
         /\ \A k \in Nat : k > 2 /\ k # r /\ k # q => Same(t, k)
         /\ \A k \in Nat : k > q => Gone(t, k)
         /\ \A k \in Nat : k > 2 /\ k <= r => Standing(t, k) = {1, 2} /\ Stands(t, k, TypeOf(t, 2))
<1>1. FaultsOf(t) = {1, 2}
  BY DEF FaultsOf
<1>2. \A k \in Nat : k > 2 /\ k # r /\ k # q => Same(t, k)
  BY <1>1 DEF Same
<1>3. \A k \in Nat : k > q => Gone(t, k)
  BY <1>1 DEF Gone
<1>4. \A k \in Nat : k > 2 /\ k <= r => Standing(t, k) = {1, 2} /\ Stands(t, k, TypeOf(t, 2))
  BY <1>1 DEF Standing, Stands
<1> QED
  BY <1>1, <1>2, <1>3, <1>4

\* A script fits when its steps do and its faults are removed in time.
LEMMA AllFit ==
  ASSUME NEW t, NEW N \in Nat, Len(Script(t)) = N, \A k \in 1 .. N : StepFits(t, k),
         \/ Len(RemovedAt(t)) = 0
         \/ /\ Len(RemovedAt(t)) = 1 /\ RemovedAt(t)[1] \in 2 .. N
            /\ DelayOf(t, 1) \in 0 .. Longest
         \/ /\ Len(RemovedAt(t)) = 2
            /\ RemovedAt(t)[1] \in 3 .. N /\ RemovedAt(t)[2] \in 3 .. N
            /\ RemovedAt(t)[1] # RemovedAt(t)[2]
            /\ DelayOf(t, 1) \in 0 .. Longest /\ DelayOf(t, 2) \in 0 .. Longest
            /\ TypeOf(t, 2) # "latency"
  PROVE  ScriptFits(t)
<1>1. CASE Len(RemovedAt(t)) = 0
  BY <1>1 DEF ScriptFits, FaultsOf
<1>2. CASE Len(RemovedAt(t)) = 1
  <2>1. FaultsOf(t) = {1}
    BY <1>2 DEF FaultsOf
  <2> QED
    BY <1>2, <2>1 DEF ScriptFits
<1>3. CASE Len(RemovedAt(t)) = 2
  <2>1. FaultsOf(t) = {1, 2}
    BY <1>3 DEF FaultsOf
  <2> QED
    BY <1>3, <2>1 DEF ScriptFits
<1> QED
  BY <1>1, <1>2, <1>3

\* The steps of R01, one by one.
LEMMA FitsR01 == ScriptFits("R01")
<1>1. Len(Script("R01")) = 4 /\ Len(RemovedAt("R01")) = 1 /\ RemovedAt("R01")[1] = 3
  BY RemovedMeans DEF Script
<1>2. /\ Script("R01")[1] = Inject("network-partition", 0)
      /\ Script("R01")[2] = Poll("listed", 10, {TRUE})
      /\ Script("R01")[3] = Remove(1)
      /\ Script("R01")[4] = Poll("healthy", 20, {TRUE})
  BY DEF Script
<1>3. TypeOf("R01", 1) = "network-partition" /\ DelayOf("R01", 1) = 0
  BY <1>2 DEF TypeOf, DelayOf, Inject, InjectApi, PostChaos
<1>4. /\ 1 \in FaultsOf("R01")
      /\ Same("R01", 2) /\ Stands("R01", 2, TypeOf("R01", 1))
      /\ Same("R01", 4) /\ Gone("R01", 4)
  BY <1>1, OneFault
<1>5. StepFits("R01", 1)
  BY <1>2, <1>4, InjectsFit, Zenon
<1>6. StepFits("R01", 2)
  <2>1. 10 \in Nat \ {0}
    OBVIOUS
  <2> QED
    BY <1>2, <1>3, <1>4, <2>1, PollsFit, Zenon
<1>7. StepFits("R01", 3)
  BY <1>1, <1>2, <1>4, RemovesFit, Zenon
<1>8. StepFits("R01", 4)
  <2>1. 20 \in Nat \ {0}
    OBVIOUS
  <2> QED
    BY <1>2, <1>4, <2>1, PollsFit, Zenon
<1>9. \A k \in 1 .. 4 : StepFits("R01", k)
  BY <1>5, <1>6, <1>7, <1>8
<1>10. 4 \in Nat /\ RemovedAt("R01")[1] \in 2 .. 4
  BY <1>1
<1>11. DelayOf("R01", 1) \in 0 .. Longest
  BY <1>3 DEF Longest
<1> QED
  BY <1>1, <1>9, <1>10, <1>11, AllFit, Zenon

\* The steps of R02, one by one.
LEMMA FitsR02 == ScriptFits("R02")
<1>1. Len(Script("R02")) = 4 /\ Len(RemovedAt("R02")) = 1 /\ RemovedAt("R02")[1] = 3
  BY RemovedMeans DEF Script
<1>2. /\ Script("R02")[1] = Inject("latency", 4)
      /\ Script("R02")[2] = Probe(4, Cap)
      /\ Script("R02")[3] = Remove(1)
      /\ Script("R02")[4] = Probe(0, 1)
  BY DEF Script
<1>3. TypeOf("R02", 1) = "latency" /\ DelayOf("R02", 1) = 4
  BY <1>2 DEF TypeOf, DelayOf, Inject, InjectApi, PostChaos
<1>4. /\ 1 \in FaultsOf("R02")
      /\ Same("R02", 2) /\ Standing("R02", 2) = {1}
      /\ Same("R02", 4) /\ Gone("R02", 4)
  BY <1>1, OneFault
<1>5. StepFits("R02", 1)
  BY <1>2, <1>4, InjectsFit, Zenon
<1>6. StepFits("R02", 2)
  <2>1. DelayOf("R02", 1) \in 4 .. Cap
    BY <1>3 DEF Cap
  <2> QED
    BY <1>2, <1>3, <1>4, <2>1, ProbesFit, Zenon
<1>7. StepFits("R02", 3)
  BY <1>1, <1>2, <1>4, RemovesFit, Zenon
<1>8. StepFits("R02", 4)
  <2>1. 0 \in 0 .. 1
    BY <1>3 DEF Cap
  <2> QED
    BY <1>2, <1>3, <1>4, <2>1, ProbesFit, Zenon
<1>9. \A k \in 1 .. 4 : StepFits("R02", k)
  BY <1>5, <1>6, <1>7, <1>8
<1>10. 4 \in Nat /\ RemovedAt("R02")[1] \in 2 .. 4
  BY <1>1
<1>11. DelayOf("R02", 1) \in 0 .. Longest
  BY <1>3 DEF Longest
<1> QED
  BY <1>1, <1>9, <1>10, <1>11, AllFit, Zenon

\* The steps of R03, one by one.
LEMMA FitsR03 == ScriptFits("R03")
<1>1. Len(Script("R03")) = 4 /\ Len(RemovedAt("R03")) = 1 /\ RemovedAt("R03")[1] = 3
  BY RemovedMeans DEF Script
<1>2. /\ Script("R03")[1] = Inject("kill", 0)
      /\ Script("R03")[2] = Poll("unhealthy", 10, {TRUE})
      /\ Script("R03")[3] = Remove(1)
      /\ Script("R03")[4] = Poll("healthy", 20, {TRUE})
  BY DEF Script
<1>3. TypeOf("R03", 1) = "kill" /\ DelayOf("R03", 1) = 0
  BY <1>2 DEF TypeOf, DelayOf, Inject, InjectApi, PostChaos
<1>4. /\ 1 \in FaultsOf("R03")
      /\ Same("R03", 2) /\ Stands("R03", 2, TypeOf("R03", 1))
      /\ Same("R03", 4) /\ Gone("R03", 4)
  BY <1>1, OneFault
<1>5. StepFits("R03", 1)
  BY <1>2, <1>4, InjectsFit, Zenon
<1>6. StepFits("R03", 2)
  <2>1. 10 \in Nat \ {0}
    OBVIOUS
  <2> QED
    BY <1>2, <1>3, <1>4, <2>1, PollsFit, Zenon
<1>7. StepFits("R03", 3)
  BY <1>1, <1>2, <1>4, RemovesFit, Zenon
<1>8. StepFits("R03", 4)
  <2>1. 20 \in Nat \ {0}
    OBVIOUS
  <2> QED
    BY <1>2, <1>4, <2>1, PollsFit, Zenon
<1>9. \A k \in 1 .. 4 : StepFits("R03", k)
  BY <1>5, <1>6, <1>7, <1>8
<1>10. 4 \in Nat /\ RemovedAt("R03")[1] \in 2 .. 4
  BY <1>1
<1>11. DelayOf("R03", 1) \in 0 .. Longest
  BY <1>3 DEF Longest
<1> QED
  BY <1>1, <1>9, <1>10, <1>11, AllFit, Zenon

\* The steps of R04, one by one.
LEMMA FitsR04 == ScriptFits("R04")
<1>1. Len(Script("R04")) = 7 /\ Len(RemovedAt("R04")) = 1 /\ RemovedAt("R04")[1] = 6
  BY RemovedMeans DEF Script
<1>2. /\ Script("R04")[1] = Inject("queue-starve", 0)
      /\ Script("R04")[2] = Create("teams")
      /\ Script("R04")[3] = Create("agents")
      /\ Script("R04")[4] = Create("teams/tasks")
      /\ Script("R04")[5] = Poll("done", 6, {FALSE})
      /\ Script("R04")[6] = Remove(1)
      /\ Script("R04")[7] = Poll("done", 20, {TRUE})
  BY DEF Script
<1>3. TypeOf("R04", 1) = "queue-starve" /\ DelayOf("R04", 1) = 0
  BY <1>2 DEF TypeOf, DelayOf, Inject, InjectApi, PostChaos
<1>4. /\ 1 \in FaultsOf("R04")
      /\ Same("R04", 2)
      /\ Same("R04", 3)
      /\ Same("R04", 4)
      /\ Same("R04", 5) /\ Stands("R04", 5, TypeOf("R04", 1))
      /\ Same("R04", 7) /\ Gone("R04", 7)
  BY <1>1, OneFault
<1>5. StepFits("R04", 1)
  BY <1>2, <1>4, InjectsFit, Zenon
<1>6. StepFits("R04", 2)
  BY <1>2, <1>4, CreatesFit, Zenon
<1>7. StepFits("R04", 3)
  BY <1>2, <1>4, CreatesFit, Zenon
<1>8. StepFits("R04", 4)
  BY <1>2, <1>4, CreatesFit, Zenon
<1>9. StepFits("R04", 5)
  <2>1. 6 \in Nat \ {0}
    OBVIOUS
  <2> QED
    BY <1>2, <1>3, <1>4, <2>1, PollsFit, Zenon
<1>10. StepFits("R04", 6)
  BY <1>1, <1>2, <1>4, RemovesFit, Zenon
<1>11. StepFits("R04", 7)
  <2>1. 20 \in Nat \ {0}
    OBVIOUS
  <2> QED
    BY <1>2, <1>4, <2>1, PollsFit, Zenon
<1>12. \A k \in 1 .. 7 : StepFits("R04", k)
  BY <1>5, <1>6, <1>7, <1>8, <1>9, <1>10, <1>11
<1>13. 7 \in Nat /\ RemovedAt("R04")[1] \in 2 .. 7
  BY <1>1
<1>14. DelayOf("R04", 1) \in 0 .. Longest
  BY <1>3 DEF Longest
<1> QED
  BY <1>1, <1>12, <1>13, <1>14, AllFit, Zenon

\* The steps of R05, one by one.
LEMMA FitsR05 == ScriptFits("R05")
<1>1. /\ Len(Script("R05")) = 8
      /\ Len(RemovedAt("R05")) = 2
      /\ RemovedAt("R05")[1] = 5
      /\ RemovedAt("R05")[2] = 6
  BY RemovedMeans DEF Script
<1>2. /\ Script("R05")[1] = Inject("latency", 3)
      /\ Script("R05")[2] = Inject("kill", 0)
      /\ Script("R05")[3] = List({1, 2}, {}, TRUE)
      /\ Script("R05")[4] = Poll("unhealthy", 10, {TRUE})
      /\ Script("R05")[5] = Remove(1)
      /\ Script("R05")[6] = Remove(2)
      /\ Script("R05")[7] = Poll("healthy", 20, {TRUE})
      /\ Script("R05")[8] = List({}, {1, 2}, TRUE)
  BY DEF Script
<1>3. /\ TypeOf("R05", 1) = "latency" /\ DelayOf("R05", 1) = 3
      /\ TypeOf("R05", 2) = "kill" /\ DelayOf("R05", 2) = 0
  BY <1>2 DEF TypeOf, DelayOf, Inject, InjectApi, PostChaos
<1>4. /\ 1 \in FaultsOf("R05") /\ 2 \in FaultsOf("R05")
      /\ Same("R05", 3) /\ Standing("R05", 3) = {1, 2}
      /\ Same("R05", 4) /\ Stands("R05", 4, TypeOf("R05", 2))
      /\ Same("R05", 7) /\ Gone("R05", 7)
      /\ Same("R05", 8) /\ Gone("R05", 8) /\ FaultsOf("R05") = {1, 2}
  BY <1>1, TwoFaults
<1>5. StepFits("R05", 1)
  BY <1>2, <1>4, InjectsFit, Zenon
<1>6. StepFits("R05", 2)
  BY <1>2, <1>4, InjectsFit, Zenon
<1>7. StepFits("R05", 3)
  <2>1. Script("R05")[3] = List(Standing("R05", 3), {}, TRUE)
    BY <1>2, <1>4, Zenon
  <2> QED
    BY <1>4, <2>1, ListsFit, Zenon
<1>8. StepFits("R05", 4)
  <2>1. 10 \in Nat \ {0}
    OBVIOUS
  <2> QED
    BY <1>2, <1>3, <1>4, <2>1, PollsFit, Zenon
<1>9. StepFits("R05", 5)
  BY <1>1, <1>2, <1>4, RemovesFit, Zenon
<1>10. StepFits("R05", 6)
  BY <1>1, <1>2, <1>4, RemovesFit, Zenon
<1>11. StepFits("R05", 7)
  <2>1. 20 \in Nat \ {0}
    OBVIOUS
  <2> QED
    BY <1>2, <1>4, <2>1, PollsFit, Zenon
<1>12. StepFits("R05", 8)
  <2>1. Script("R05")[8] = List({}, FaultsOf("R05"), TRUE)
    BY <1>2, <1>4, Zenon
  <2> QED
    BY <1>4, <2>1, ListsFit, Zenon
<1>13. \A k \in 1 .. 8 : StepFits("R05", k)
  BY <1>5, <1>6, <1>7, <1>8, <1>9, <1>10, <1>11, <1>12
<1>14. /\ 8 \in Nat /\ RemovedAt("R05")[1] \in 3 .. 8 /\ RemovedAt("R05")[2] \in 3 .. 8
       /\ RemovedAt("R05")[1] # RemovedAt("R05")[2] /\ TypeOf("R05", 2) # "latency"
  BY <1>1, <1>3
<1>15. DelayOf("R05", 1) \in 0 .. Longest /\ DelayOf("R05", 2) \in 0 .. Longest
  BY <1>3 DEF Longest
<1> QED
  BY <1>1, <1>13, <1>14, <1>15, AllFit, Zenon

\* The steps of E01, one by one.
LEMMA FitsE01 == ScriptFits("E01")
<1>1. Len(Script("E01")) = 3 /\ Len(RemovedAt("E01")) = 1 /\ RemovedAt("E01")[1] = 3
  BY RemovedMeans DEF Script
<1>2. /\ Script("E01")[1] = InjectApi("network-partition")
      /\ Script("E01")[2] = List({1}, {}, FALSE)
      /\ Script("E01")[3] = RemoveApi(1)
  BY DEF Script
<1>3. TypeOf("E01", 1) = "network-partition" /\ DelayOf("E01", 1) = 0
  BY <1>2 DEF TypeOf, DelayOf, Inject, InjectApi, PostChaos
<1>4. /\ 1 \in FaultsOf("E01")
      /\ Same("E01", 2) /\ Standing("E01", 2) = {1}
  BY <1>1, OneFault
<1>5. StepFits("E01", 1)
  BY <1>2, <1>4, InjectsFit, Zenon
<1>6. StepFits("E01", 2)
  <2>1. Script("E01")[2] = List(Standing("E01", 2), {}, FALSE)
    BY <1>2, <1>4, Zenon
  <2> QED
    BY <1>4, <2>1, ListsFit, Zenon
<1>7. StepFits("E01", 3)
  BY <1>1, <1>2, <1>4, RemovesFit, Zenon
<1>8. \A k \in 1 .. 3 : StepFits("E01", k)
  BY <1>5, <1>6, <1>7
<1>9. 3 \in Nat /\ RemovedAt("E01")[1] \in 2 .. 3
  BY <1>1
<1>10. DelayOf("E01", 1) \in 0 .. Longest
  BY <1>3 DEF Longest
<1> QED
  BY <1>1, <1>8, <1>9, <1>10, AllFit, Zenon

\* The steps of E02, one by one.
LEMMA FitsE02 == ScriptFits("E02")
<1>1. Len(Script("E02")) = 2 /\ Len(RemovedAt("E02")) = 1 /\ RemovedAt("E02")[1] = 2
  BY RemovedMeans DEF Script
<1>2. /\ Script("E02")[1] = InjectApi("latency")
      /\ Script("E02")[2] = RemoveApi(1)
  BY DEF Script
<1>3. TypeOf("E02", 1) = "latency" /\ DelayOf("E02", 1) = 0
  BY <1>2 DEF TypeOf, DelayOf, Inject, InjectApi, PostChaos
<1>4. 1 \in FaultsOf("E02")
  BY <1>1, OneFault
<1>5. StepFits("E02", 1)
  BY <1>2, <1>4, InjectsFit, Zenon
<1>6. StepFits("E02", 2)
  BY <1>1, <1>2, <1>4, RemovesFit, Zenon
<1>7. \A k \in 1 .. 2 : StepFits("E02", k)
  BY <1>5, <1>6
<1>8. 2 \in Nat /\ RemovedAt("E02")[1] \in 2 .. 2
  BY <1>1
<1>9. DelayOf("E02", 1) \in 0 .. Longest
  BY <1>3 DEF Longest
<1> QED
  BY <1>1, <1>7, <1>8, <1>9, AllFit, Zenon

\* The steps of E03, one by one.
LEMMA FitsE03 == ScriptFits("E03")
<1>1. Len(Script("E03")) = 2 /\ Len(RemovedAt("E03")) = 1 /\ RemovedAt("E03")[1] = 2
  BY RemovedMeans DEF Script
<1>2. /\ Script("E03")[1] = InjectApi("kill")
      /\ Script("E03")[2] = RemoveApi(1)
  BY DEF Script
<1>3. TypeOf("E03", 1) = "kill" /\ DelayOf("E03", 1) = 0
  BY <1>2 DEF TypeOf, DelayOf, Inject, InjectApi, PostChaos
<1>4. 1 \in FaultsOf("E03")
  BY <1>1, OneFault
<1>5. StepFits("E03", 1)
  BY <1>2, <1>4, InjectsFit, Zenon
<1>6. StepFits("E03", 2)
  BY <1>1, <1>2, <1>4, RemovesFit, Zenon
<1>7. \A k \in 1 .. 2 : StepFits("E03", k)
  BY <1>5, <1>6
<1>8. 2 \in Nat /\ RemovedAt("E03")[1] \in 2 .. 2
  BY <1>1
<1>9. DelayOf("E03", 1) \in 0 .. Longest
  BY <1>3 DEF Longest
<1> QED
  BY <1>1, <1>7, <1>8, <1>9, AllFit, Zenon

\* The steps of E04, one by one.
LEMMA FitsE04 == ScriptFits("E04")
<1>1. Len(Script("E04")) = 3 /\ Len(RemovedAt("E04")) = 1 /\ RemovedAt("E04")[1] = 2
  BY RemovedMeans DEF Script
<1>2. /\ Script("E04")[1] = Inject("queue-starve", 0)
      /\ Script("E04")[2] = Remove(1)
      /\ Script("E04")[3] = List({}, {1}, TRUE)
  BY DEF Script
<1>3. TypeOf("E04", 1) = "queue-starve" /\ DelayOf("E04", 1) = 0
  BY <1>2 DEF TypeOf, DelayOf, Inject, InjectApi, PostChaos
<1>4. /\ 1 \in FaultsOf("E04")
      /\ Same("E04", 3) /\ Gone("E04", 3) /\ FaultsOf("E04") = {1}
  BY <1>1, OneFault
<1>5. StepFits("E04", 1)
  BY <1>2, <1>4, InjectsFit, Zenon
<1>6. StepFits("E04", 2)
  BY <1>1, <1>2, <1>4, RemovesFit, Zenon
<1>7. StepFits("E04", 3)
  <2>1. Script("E04")[3] = List({}, FaultsOf("E04"), TRUE)
    BY <1>2, <1>4, Zenon
  <2> QED
    BY <1>4, <2>1, ListsFit, Zenon
<1>8. \A k \in 1 .. 3 : StepFits("E04", k)
  BY <1>5, <1>6, <1>7
<1>9. 3 \in Nat /\ RemovedAt("E04")[1] \in 2 .. 3
  BY <1>1
<1>10. DelayOf("E04", 1) \in 0 .. Longest
  BY <1>3 DEF Longest
<1> QED
  BY <1>1, <1>8, <1>9, <1>10, AllFit, Zenon

\* The steps of C10, one by one.
LEMMA FitsC10 == ScriptFits("C10")
<1>1. Len(Script("C10")) = 4 /\ Len(RemovedAt("C10")) = 0
  BY RemovedMeans DEF Script
<1>2. /\ Script("C10")[1] = Healthy
      /\ Script("C10")[2] = Create("teams")
      /\ Script("C10")[3] = Create("agents")
      /\ Script("C10")[4] = Create("teams/tasks")
  BY DEF Script
<1>3. /\ Same("C10", 1) /\ Gone("C10", 1)
      /\ Same("C10", 2)
      /\ Same("C10", 3)
      /\ Same("C10", 4)
  BY <1>1, NoFault
<1>4. StepFits("C10", 1)
  BY <1>2, <1>3, HealthyFits, Zenon
<1>5. StepFits("C10", 2)
  BY <1>2, <1>3, CreatesFit, Zenon
<1>6. StepFits("C10", 3)
  BY <1>2, <1>3, CreatesFit, Zenon
<1>7. StepFits("C10", 4)
  BY <1>2, <1>3, CreatesFit, Zenon
<1>8. \A k \in 1 .. 4 : StepFits("C10", k)
  BY <1>4, <1>5, <1>6, <1>7
<1>9. 4 \in Nat
  BY <1>1
<1> QED
  BY <1>1, <1>8, <1>9, AllFit, Zenon

\* The steps of TaskState, one by one.
LEMMA FitsTaskState == ScriptFits("TaskState")
<1>1. Len(Script("TaskState")) = 4 /\ Len(RemovedAt("TaskState")) = 0
  BY RemovedMeans DEF Script
<1>2. /\ Script("TaskState")[1] = Create("teams")
      /\ Script("TaskState")[2] = Create("agents")
      /\ Script("TaskState")[3] = Create("teams/tasks")
      /\ Script("TaskState")[4] = Poll("done", 60, {TRUE, FALSE})
  BY DEF Script
<1>3. /\ Same("TaskState", 1)
      /\ Same("TaskState", 2)
      /\ Same("TaskState", 3)
      /\ Same("TaskState", 4) /\ Gone("TaskState", 4)
  BY <1>1, NoFault
<1>4. StepFits("TaskState", 1)
  BY <1>2, <1>3, CreatesFit, Zenon
<1>5. StepFits("TaskState", 2)
  BY <1>2, <1>3, CreatesFit, Zenon
<1>6. StepFits("TaskState", 3)
  BY <1>2, <1>3, CreatesFit, Zenon
<1>7. StepFits("TaskState", 4)
  <2>1. 60 \in Nat \ {0}
    OBVIOUS
  <2> QED
    BY <1>2, <1>3, <2>1, PollsFit, Zenon
<1>8. \A k \in 1 .. 4 : StepFits("TaskState", k)
  BY <1>4, <1>5, <1>6, <1>7
<1>9. 4 \in Nat
  BY <1>1
<1> QED
  BY <1>1, <1>8, <1>9, AllFit, Zenon

\* The steps of Malformed, one by one.
LEMMA FitsMalformed == ScriptFits("Malformed")
<1>1. Len(Script("Malformed")) = 4 /\ Len(RemovedAt("Malformed")) = 0
  BY RemovedMeans DEF Script
<1>2. /\ Script("Malformed")[1] = Send("teams/tasks", "unparseable", Json, {400, 404})
      /\ Script("Malformed")[2] = Send("agents", "unparseable", Json, Any)
      /\ Script("Malformed")[3] = Send("agents", "unparseable", "text/xml", Any)
      /\ Script("Malformed")[4] = Healthy
  BY DEF Script
<1>3. /\ Same("Malformed", 1) /\ Gone("Malformed", 1)
      /\ Same("Malformed", 2) /\ Gone("Malformed", 2)
      /\ Same("Malformed", 3) /\ Gone("Malformed", 3)
      /\ Same("Malformed", 4) /\ Gone("Malformed", 4)
  BY <1>1, NoFault
<1>4. StepFits("Malformed", 1)
  <2> DEFINE ok == {400, 404}
  <2>1. 400 \in ok
    BY DEF ok
  <2>2. Script("Malformed")[1] = Send("teams/tasks", "unparseable", Json, ok)
    BY <1>2
  <2>3. "teams/tasks" \in {"teams/tasks", "agents"}
    OBVIOUS
  <2>4. Same("Malformed", 1) /\ Gone("Malformed", 1)
    BY <1>3
  <2> HIDE DEF ok
  <2> QED
    BY <2>1, <2>2, <2>3, <2>4, BadBodiesFit, Zenon
<1>5. StepFits("Malformed", 2)
  <2> DEFINE ok == Any
  <2>1. 400 \in ok
    BY DEF ok, Any
  <2>2. Script("Malformed")[2] = Send("agents", "unparseable", Json, ok)
    BY <1>2
  <2>3. "agents" \in {"teams/tasks", "agents"}
    OBVIOUS
  <2>4. Same("Malformed", 2) /\ Gone("Malformed", 2)
    BY <1>3
  <2> HIDE DEF ok
  <2> QED
    BY <2>1, <2>2, <2>3, <2>4, BadBodiesFit, Zenon
<1>6. StepFits("Malformed", 3)
  <2> DEFINE ok == Any
  <2>1. 400 \in ok
    BY DEF ok, Any
  <2>2. Script("Malformed")[3] = Send("agents", "unparseable", "text/xml", ok)
    BY <1>2
  <2>3. "agents" \in {"teams/tasks", "agents"}
    OBVIOUS
  <2>4. Same("Malformed", 3) /\ Gone("Malformed", 3)
    BY <1>3
  <2> HIDE DEF ok
  <2> QED
    BY <2>1, <2>2, <2>3, <2>4, BadBodiesFit, Zenon
<1>7. StepFits("Malformed", 4)
  <2>1. Script("Malformed")[4] = Healthy /\ Same("Malformed", 4) /\ Gone("Malformed", 4)
    BY <1>2, <1>3
  <2> QED
    BY <2>1, HealthyFits, Zenon
<1>8. \A k \in 1 .. 4 : StepFits("Malformed", k)
  BY <1>4, <1>5, <1>6, <1>7
<1>9. 4 \in Nat
  BY <1>1
<1> QED
  BY <1>1, <1>8, <1>9, AllFit, Zenon

\* The steps of TestEmpty, one by one.
LEMMA FitsTestEmpty == ScriptFits("TestEmpty")
<1>1. Len(Script("TestEmpty")) = 4 /\ Len(RemovedAt("TestEmpty")) = 0
  BY RemovedMeans DEF Script
<1>2. /\ Script("TestEmpty")[1] = SendChaos("test-empty", "empty", {400})
      /\ Script("TestEmpty")[2] = SendChaos("test-empty", "object", {400})
      /\ Script("TestEmpty")[3] = SendChaos("test-empty", "unparseable", {400})
      /\ Script("TestEmpty")[4] = Healthy
  BY DEF Script
<1>3. /\ Same("TestEmpty", 1) /\ Gone("TestEmpty", 1)
      /\ Same("TestEmpty", 2) /\ Gone("TestEmpty", 2)
      /\ Same("TestEmpty", 3) /\ Gone("TestEmpty", 3)
      /\ Same("TestEmpty", 4) /\ Gone("TestEmpty", 4)
  BY <1>1, NoFault
<1>4. StepFits("TestEmpty", 1)
  <2> DEFINE ok == {400}
  <2>1. 400 \in ok
    BY DEF ok
  <2>2. /\ Script("TestEmpty")[1] = SendChaos("test-empty", "empty", ok)
        /\ Same("TestEmpty", 1) /\ Gone("TestEmpty", 1)
    BY <1>2, <1>3
  <2> HIDE DEF ok
  <2> QED
    BY <2>1, <2>2, TestEmptyFits, Zenon
<1>5. StepFits("TestEmpty", 2)
  <2> DEFINE ok == {400}
  <2>1. 400 \in ok
    BY DEF ok
  <2>2. /\ Script("TestEmpty")[2] = SendChaos("test-empty", "object", ok)
        /\ Same("TestEmpty", 2) /\ Gone("TestEmpty", 2)
    BY <1>2, <1>3
  <2> HIDE DEF ok
  <2> QED
    BY <2>1, <2>2, TestEmptyFits, Zenon
<1>6. StepFits("TestEmpty", 3)
  <2> DEFINE ok == {400}
  <2>1. 400 \in ok
    BY DEF ok
  <2>2. /\ Script("TestEmpty")[3] = SendChaos("test-empty", "unparseable", ok)
        /\ Same("TestEmpty", 3) /\ Gone("TestEmpty", 3)
    BY <1>2, <1>3
  <2> HIDE DEF ok
  <2> QED
    BY <2>1, <2>2, TestEmptyFits, Zenon
<1>7. StepFits("TestEmpty", 4)
  <2>1. Script("TestEmpty")[4] = Healthy /\ Same("TestEmpty", 4) /\ Gone("TestEmpty", 4)
    BY <1>2, <1>3
  <2> QED
    BY <2>1, HealthyFits, Zenon
<1>8. \A k \in 1 .. 4 : StepFits("TestEmpty", k)
  BY <1>4, <1>5, <1>6, <1>7
<1>9. 4 \in Nat
  BY <1>1
<1> QED
  BY <1>1, <1>8, <1>9, AllFit, Zenon

\* All scripts fit.
LEMMA ScriptsFit == \A t \in TestNames : ScriptFits(t)
BY FitsR01, FitsR02, FitsR03, FitsR04, FitsR05, FitsE01, FitsE02,
   FitsE03, FitsE04, FitsC10, FitsTaskState, FitsMalformed, FitsTestEmpty
   DEF TestNames

-------------------------------------------------------------------------------
(* The invariant of such a test. *)

\* The faults on the stub before step k, if `got` are the ids that the test got.
FaultAt(t, n, got) == [id |-> got[n], type |-> TypeOf(t, n), delay |-> DelayOf(t, n)]
FaultsAt(t, k, got) == {FaultAt(t, n, got) : n \in Standing(t, k)}

\* Those ids were issued since the test began, and the first ones are of its faults.
IdsFit(t, k, got, from, last) ==
  /\ got \in Seq(Nat) /\ \A n \in 1 .. Len(got) : got[n] \in from + 1 .. last
  /\ \A m, n \in 1 .. Len(got) : got[m] = got[n] => m = n
  /\ IF k \in FaultsOf(t) THEN Len(got) = k - 1 ELSE Len(got) >= Len(RemovedAt(t))

IsPending(s, id) == \A x \in s.tasks : x.id = id => x.status = "pending"

StateFits(t, k, got, from, s) ==
  /\ s.faults = FaultsAt(t, k, got) /\ IdsFit(t, k, got, from, s.issued)
  /\ TaskKnown(t, k) /\ Stands(t, k, "queue-starve") => IsPending(s, got[Len(got)])

\* The ids that the test has after a reply, and a reply it is content with.
Got(st, r) == IF st.do = "inject" THEN Append(ids, r.id) ELSE ids
ReplyFits(st, r, left, s) ==
  /\ StateFits(test, pc + 1, Got(st, r), before, s) /\ ~Fatal(st, r)
  /\ st.do \in {"remove", "list", "send"} => ~Unmet(st, r)
  /\ st.do = "poll" => /\ Holds(st, r) <=> ~Starving(test, pc)
                       /\ StateFits(test, pc, ids, before, s)
  /\ st.do = "probe" => since + left \in st.least .. st.most /\ since + left <= Longest

\* The client's one request is in the accept queue or being answered.
Alone ==
  /\ mode # "wait" => inbox = <<>> /\ serving = None
  /\ mode = "wait" =>
       \/ inbox = << [req |-> call, live |-> TRUE] >> /\ serving = None /\ clock = 0
       \/ inbox = <<>> /\ serving # None /\ serving.live /\ clock + serving.left <= Longest

InSetUp ==
  /\ mode \in {"send", "wait"} /\ call = Get("health") /\ (serving # None => serving.reply.status = 200)
  /\ server.faults = {} /\ ids = <<>> /\ tracked = {} /\ since = 0

InScript ==
  /\ tracked \subseteq {ids[n] : n \in Standing(test, pc)} /\ IdsFit(test, pc, ids, before, server.issued)
  /\ IF serving = None THEN StateFits(test, pc, ids, before, server)
     ELSE ReplyFits(Steps[pc], serving.reply, serving.left, server)
  /\ serving = None => since = 0 \/ (InBody /\ Starving(test, pc))
  /\ mode = "pause" => InBody /\ Starving(test, pc)
  /\ InTearDown => mode = "idle"

CleanRun ==
  /\ attempt = 0 /\ mode # "backoff" /\ before \in 0 .. server.issued /\ since \in Nat
  /\ Alone /\ IF pc = 0 THEN InSetUp ELSE InScript

CleanInv == mishaps \in Nat /\ (clean => verdict = "ok" /\ (test # None => CleanRun))

\* What each kind of step does to the faults that stand.
LEMMA StandingMoves ==
  ASSUME NEW t, ScriptFits(t), NEW k \in 1 .. Len(Script(t))
  PROVE  /\ k \in FaultsOf(t) => Standing(t, k + 1) = Standing(t, k) \cup {k} /\ k \notin Standing(t, k)
         /\ \A n \in FaultsOf(t) : RemovedAt(t)[n] = k =>
              n \in Standing(t, k) /\ Standing(t, k + 1) = Standing(t, k) \ {n}
         /\ Same(t, k) => Standing(t, k + 1) = Standing(t, k)
         /\ Gone(t, k) => Standing(t, k) = {}
<1> DEFINE R == RemovedAt(t)
<1>1. k \in Nat /\ FaultsOf(t) = 1 .. Len(R) /\ Len(R) \in Nat
  BY DEF ScriptFits, FaultsOf
<1>2. /\ \A n \in FaultsOf(t) : n \in Nat /\ n <= Len(R) /\ R[n] \in Nat /\ R[n] > Len(R)
      /\ \A m, n \in FaultsOf(t) : R[m] = R[n] => m = n
  BY <1>1 DEF ScriptFits
<1>3. \A j \in Nat : \A n : n \in Standing(t, j) <=> n \in FaultsOf(t) /\ n < j /\ j <= R[n]
  BY DEF Standing
<1> HIDE DEF R
<1>4. ASSUME k \in FaultsOf(t)
      PROVE  Standing(t, k + 1) = Standing(t, k) \cup {k} /\ k \notin Standing(t, k)
  <2>1. \A n \in FaultsOf(t) : k < R[n]
    BY <1>1, <1>2, <1>4
  <2>2. \A n : n \in Standing(t, k + 1) <=> n \in Standing(t, k) \cup {k}
    BY <1>1, <1>2, <1>3, <1>4, <2>1
  <2>3. k \notin Standing(t, k)
    BY <1>1, <1>3
  <2> QED
    BY <2>2, <2>3
<1>5. ASSUME NEW n \in FaultsOf(t), R[n] = k
      PROVE  n \in Standing(t, k) /\ Standing(t, k + 1) = Standing(t, k) \ {n}
  <2>1. \A m \in FaultsOf(t) : m < k /\ (R[m] = k => m = n)
    BY <1>1, <1>2, <1>5
  <2>2. \A m : m \in Standing(t, k + 1) <=> m \in Standing(t, k) \ {n}
    BY <1>1, <1>2, <1>3, <1>5, <2>1
  <2>3. n \in Standing(t, k)
    BY <1>1, <1>2, <1>3, <1>5, <2>1
  <2> QED
    BY <2>2, <2>3
<1>6. ASSUME Same(t, k) PROVE Standing(t, k + 1) = Standing(t, k)
  <2>1. \A n \in FaultsOf(t) : n # k /\ R[n] # k
    BY <1>6 DEF Same, R
  <2>2. \A n : n \in Standing(t, k + 1) <=> n \in Standing(t, k)
    BY <1>1, <1>2, <1>3, <2>1
  <2> QED
    BY <2>2
<1>7. ASSUME Gone(t, k) PROVE Standing(t, k) = {}
  BY <1>1, <1>2, <1>3, <1>7 DEF Gone, R
<1> QED
  BY <1>4, <1>5, <1>6, <1>7 DEF R

\* A test begins and ends without faults.
LEMMA StandingEnds ==
  ASSUME NEW t, ScriptFits(t)
  PROVE  Standing(t, 1) = {} /\ Standing(t, Len(Script(t)) + 1) = {}
<1>1. \A n \in FaultsOf(t) :
         /\ n \in Nat
         /\ n >= 1
         /\ RemovedAt(t)[n] \in Nat
         /\ RemovedAt(t)[n] <= Len(Script(t))
  BY DEF ScriptFits, FaultsOf
<1>2. Len(Script(t)) \in Nat
  BY DEF ScriptFits
<1> QED
  BY <1>1, <1>2 DEF Standing

\* A fault that stands has an id.
LEMMA IdsUsed ==
  ASSUME NEW t, ScriptFits(t), NEW k \in Nat, NEW got, NEW from, NEW last, IdsFit(t, k, got, from, last),
         k >= 1
  PROVE  \A n \in Standing(t, k) : n \in 1 .. Len(got)
<1>1. Len(got) \in Nat
  BY LenProperties DEF IdsFit
<1>2. \A n \in Standing(t, k) :
         /\ n \in Nat
         /\ 1 <= n
         /\ n < k
         /\ n <= Len(RemovedAt(t))
         /\ Len(RemovedAt(t)) \in Nat
  BY DEF Standing, FaultsOf, ScriptFits
<1> QED
  BY <1>1, <1>2 DEF IdsFit

\* The ids stay, and a new one is added.
LEMMA IdsMove ==
  ASSUME NEW t, ScriptFits(t), NEW k \in 1 .. Len(Script(t)), NEW got,
         NEW from \in Nat, NEW last \in Nat, from <= last, IdsFit(t, k, got, from, last)
  PROVE  /\ k \notin FaultsOf(t) => IdsFit(t, k + 1, got, from, last)
         /\ IdsFit(t, k + 1, Append(got, last + 1), from, last + 1)
         /\ Len(Append(got, last + 1)) = Len(got) + 1 /\ Len(got) \in Nat
         /\ Append(got, last + 1)[Len(got) + 1] = last + 1
         /\ \A n \in 1 .. Len(got) : Append(got, last + 1)[n] = got[n]
<1> DEFINE new == Append(got, last + 1)
           L == Len(RemovedAt(t))
<1>1. k \in Nat /\ k >= 1 /\ L \in Nat /\ FaultsOf(t) = 1 .. L
  BY DEF ScriptFits, FaultsOf
<1>2. got \in Seq(Nat) /\ Len(got) \in Nat /\ last + 1 \in Nat
  BY LenProperties DEF IdsFit
<1>3. /\ new \in Seq(Nat) /\ Len(new) = Len(got) + 1 /\ new[Len(got) + 1] = last + 1
      /\ \A n \in 1 .. Len(got) : new[n] = got[n]
  BY <1>2, AppendProperties
<1> HIDE DEF new, L
<1>4. ASSUME k \notin FaultsOf(t) PROVE IdsFit(t, k + 1, got, from, last)
  <2>1. k + 1 \notin FaultsOf(t)
    BY <1>1, <1>4
  <2> QED
    BY <1>4, <2>1 DEF IdsFit
<1>5. \A n \in 1 .. Len(got) : got[n] \in from + 1 .. last
  BY DEF IdsFit
<1>6. \A n \in 1 .. Len(new) :
         /\ new[n] \in from + 1 .. last + 1
         /\ (n # Len(new) => new[n] = got[n] /\ n \in 1 .. Len(got))
  <2> SUFFICES ASSUME NEW n \in 1 .. Len(new)
               PROVE  /\ new[n] \in from + 1 .. last + 1
                      /\ (n # Len(new) => new[n] = got[n] /\ n \in 1 .. Len(got))
    OBVIOUS
  <2>1. Len(got) \in Nat /\ Len(new) = Len(got) + 1 /\ n \in 1 .. Len(got) + 1
    BY <1>2, <1>3
  <2>2. n \in 1 .. Len(got) \/ n = Len(new)
    BY <2>1
  <2>3. n # Len(new) => new[n] = got[n] /\ n \in 1 .. Len(got)
    BY <1>3, <2>2
  <2>4. new[n] \in from + 1 .. last \/ new[n] = last + 1
    BY <1>3, <1>5, <2>1, <2>2
  <2> QED
    BY <2>3, <2>4
<1>7. \A m, n \in 1 .. Len(new) : new[m] = new[n] => m = n
  <2> SUFFICES ASSUME NEW m \in 1 .. Len(new), NEW n \in 1 .. Len(new), new[m] = new[n] PROVE m = n
    OBVIOUS
  <2>1. \A i \in 1 .. Len(got) : got[i] # last + 1
    BY <1>5
  <2>2. \A i, j \in 1 .. Len(got) : got[i] = got[j] => i = j
    BY DEF IdsFit
  <2> QED
    BY <1>2, <1>3, <1>6, <2>1, <2>2
<1>8. IF k + 1 \in FaultsOf(t) THEN Len(new) = k ELSE Len(new) >= L
  <2>1. IF k \in FaultsOf(t) THEN Len(got) = k - 1 ELSE Len(got) >= L
    BY DEF IdsFit, L
  <2> QED
    BY <1>1, <1>2, <1>3, <2>1
<1>9. IdsFit(t, k + 1, new, from, last + 1)
  BY <1>1, <1>3, <1>6, <1>7, <1>8 DEF IdsFit, L
<1> QED
  BY <1>2, <1>3, <1>4, <1>9 DEF new

\* The faults on the stub follow: they stay,
LEMMA FaultsStay ==
  ASSUME NEW t, ScriptFits(t), NEW k \in 1 .. Len(Script(t)), Same(t, k), NEW got
  PROVE  FaultsAt(t, k + 1, got) = FaultsAt(t, k, got)
<1>1. Standing(t, k + 1) = Standing(t, k)
  BY StandingMoves
<1> QED
  BY <1>1 DEF FaultsAt

\* they do not change with the next id,
LEMMA FaultsKeep ==
  ASSUME NEW t, ScriptFits(t), NEW k \in 1 .. Len(Script(t)), NEW got,
         NEW from \in Nat, NEW last \in Nat, from <= last, IdsFit(t, k, got, from, last)
  PROVE  FaultsAt(t, k, Append(got, last + 1)) = FaultsAt(t, k, got)
<1> DEFINE new == Append(got, last + 1)
<1>1. \A n \in Standing(t, k) : n \in 1 .. Len(got)
  BY IdsUsed
<1>2. \A n \in 1 .. Len(got) : new[n] = got[n]
  BY IdsMove
<1> HIDE DEF new
<1>3. \A n \in Standing(t, k) : FaultAt(t, n, new) = FaultAt(t, n, got)
  BY <1>1, <1>2 DEF FaultAt
<1> QED
  BY <1>3 DEF FaultsAt, new

\* there is one more,
LEMMA FaultsGrow ==
  ASSUME NEW t, ScriptFits(t), NEW k \in 1 .. Len(Script(t)), k \in FaultsOf(t), NEW got,
         NEW from \in Nat, NEW last \in Nat, from <= last, IdsFit(t, k, got, from, last)
  PROVE  /\ FaultsAt(t, k + 1, Append(got, last + 1)) =
              FaultsAt(t, k, got) \cup {FaultAt(t, k, Append(got, last + 1))}
         /\ Append(got, last + 1)[k] = last + 1
<1> DEFINE new == Append(got, last + 1)
<1>1. Len(got) \in Nat /\ new[Len(got) + 1] = last + 1
  BY IdsMove
<1>2. FaultsAt(t, k, new) = FaultsAt(t, k, got)
  BY FaultsKeep
<1> HIDE DEF new
<1>3. Standing(t, k + 1) = Standing(t, k) \cup {k}
  BY StandingMoves
<1>4. Len(got) + 1 = k
  BY <1>1 DEF IdsFit
<1>5. FaultsAt(t, k + 1, new) = FaultsAt(t, k, new) \cup {FaultAt(t, k, new)}
  BY <1>3 DEF FaultsAt
<1> QED
  BY <1>1, <1>2, <1>4, <1>5 DEF new

\* or one less.
LEMMA FaultsShrink ==
  ASSUME NEW t, ScriptFits(t), NEW k \in 1 .. Len(Script(t)), NEW got,
         NEW from, NEW last, IdsFit(t, k, got, from, last),
         NEW n \in FaultsOf(t), RemovedAt(t)[n] = k
  PROVE  /\ FaultsAt(t, k + 1, got) = {f \in FaultsAt(t, k, got) : f.id # got[n]}
         /\ \E f \in FaultsAt(t, k, got) : f.id = got[n]
<1>1. \A m \in Standing(t, k) : m \in 1 .. Len(got)
  BY IdsUsed
<1>2. \A m : FaultAt(t, m, got).id = got[m]
  BY DEF FaultAt
<1>3. n \in Standing(t, k) /\ Standing(t, k + 1) = Standing(t, k) \ {n}
  BY StandingMoves
<1>4. \A m \in Standing(t, k) : got[m] = got[n] => m = n
  BY <1>1, <1>3 DEF IdsFit
<1>5. \A m \in Standing(t, k) : m \in Standing(t, k + 1) <=> FaultAt(t, m, got).id # got[n]
  BY <1>2, <1>3, <1>4
<1>6. Standing(t, k + 1) \subseteq Standing(t, k)
  BY <1>3
<1> QED
  BY <1>2, <1>3, <1>5, <1>6 DEF FaultsAt

\* The sum of no delay and of one.
LEMMA SumOfFew ==
  /\ MapThenSumSet(LAMBDA f : f.delay, {}) = 0
  /\ \A x : x.delay \in Nat => MapThenSumSet(LAMBDA f : f.delay, {x}) = x.delay
<1>1. ASSUME NEW S, IsFiniteSet(S), \A f \in S : f.delay \in Nat
      PROVE  \E g : /\ MapThenSumSet(LAMBDA f : f.delay, S) = g[S]
                    /\ \A s \in SUBSET S : g[s] = SumStep(g, s)
  <2> DEFINE iter == CHOOSE g : g = [s \in SUBSET S |-> SumStep(g, s)]
  <2>1. MapThenSumSet(LAMBDA f : f.delay, S) = iter[S]
    BY DEF MapThenSumSet, MapThenFoldSet, SumStep, First
  <2>2. iter = [s \in SUBSET S |-> SumStep(iter, s)]
    BY <1>1, SumsExist
  <2> HIDE DEF iter
  <2>3. \A s \in SUBSET S : iter[s] = SumStep(iter, s)
    BY <2>2
  <2> QED
    BY <2>1, <2>3
<1>2. MapThenSumSet(LAMBDA f : f.delay, {}) = 0
  <2>1. PICK g : /\ MapThenSumSet(LAMBDA f : f.delay, {}) = g[{}]
                 /\ \A s \in SUBSET {} : g[s] = SumStep(g, s)
    BY <1>1, FS_EmptySet
  <2> QED
    BY <2>1 DEF SumStep
<1>3. ASSUME NEW x, x.delay \in Nat PROVE MapThenSumSet(LAMBDA f : f.delay, {x}) = x.delay
  <2>1. PICK g : /\ MapThenSumSet(LAMBDA f : f.delay, {x}) = g[{x}]
                 /\ \A s \in SUBSET {x} : g[s] = SumStep(g, s)
    BY <1>1, <1>3, FS_Singleton
  <2>2. First({x}) = x /\ {x} \ {x} = {}
    BY DEF First
  <2>3. g[{}] = 0 /\ g[{x}] = x.delay + g[{}]
    BY <2>1, <2>2 DEF SumStep
  <2> QED
    BY <1>3, <2>1, <2>3
<1> QED
  BY <1>2, <1>3

\* How long the stub sleeps on a reply to such a test.
LEMMA DelayAt ==
  ASSUME NEW t, ScriptFits(t), NEW k, NEW got, NEW s, s.faults = FaultsAt(t, k, got)
  PROVE  /\ Delay(s) \in 0 .. Longest
         /\ Standing(t, k) = {} => Delay(s) = 0
         /\ Standing(t, k) = {1} /\ TypeOf(t, 1) = "latency" => Delay(s) = DelayOf(t, 1)
<1>1. \A n : /\ FaultAt(t, n, got).type = TypeOf(t, n)
             /\ FaultAt(t, n, got).delay = DelayOf(t, n)
  BY DEF FaultAt
<1>2. \A n \in Standing(t, k) : /\ n \in FaultsOf(t) /\ DelayOf(t, n) \in 0 .. Longest
                                /\ TypeOf(t, n) = "latency" => n = 1
  BY DEF Standing, ScriptFits
<1>3. CASE 1 \in Standing(t, k) /\ TypeOf(t, 1) = "latency"
  <2>1. OfType(s, "latency") = {FaultAt(t, 1, got)}
    BY <1>1, <1>2, <1>3 DEF OfType, FaultsAt
  <2>2. DelayOf(t, 1) \in Nat /\ DelayOf(t, 1) \in 0 .. Longest
    BY <1>2, <1>3 DEF Longest
  <2>3. Delay(s) = DelayOf(t, 1)
    BY <1>1, <2>1, <2>2, SumOfFew DEF Delay
  <2> QED
    BY <1>3, <2>2, <2>3
<1>4. CASE ~(1 \in Standing(t, k) /\ TypeOf(t, 1) = "latency")
  <2>1. OfType(s, "latency") = {}
    BY <1>1, <1>2, <1>4 DEF OfType, FaultsAt
  <2>2. Delay(s) = 0
    BY <2>1, SumOfFew DEF Delay
  <2> QED
    BY <1>4, <2>2 DEF Longest
<1> QED
  BY <1>3, <1>4

-------------------------------------------------------------------------------
(* What the stub replies to each kind of step. *)

\* Before the stub serves step pc.
Ready ==
  /\ test \in Tests /\ pc \in 1 .. Len(Script(test)) /\ StubOK(server)
  /\ before \in 0 .. server.issued /\ StateFits(test, pc, ids, before, server)

\* What it is about, spelled out.
LEMMA ReadyMeans ==
  ASSUME Ready
  PROVE  /\ ScriptFits(test) /\ StepFits(test, pc) /\ pc \in Nat /\ Steps[pc] = Script(test)[pc]
         /\ TaskStepOK(test, pc) /\ server \in State /\ server.issued \in Nat /\ before \in Nat
         /\ before <= server.issued /\ server.faults = FaultsAt(test, pc, ids)
         /\ IdsFit(test, pc, ids, before, server.issued)
<1>1. test \in TestNames
  BY SessionConfig DEF Ready, SessionConfig
<1>2. ScriptFits(test) /\ TaskStepOK(test, pc) /\ Len(Script(test)) \in Nat
  BY <1>1, ScriptsFit, TasksAreCreatedFirst, ScriptsUsed DEF Ready
<1>3. StepFits(test, pc)
  BY <1>2 DEF ScriptFits, Ready
<1>4. server \in State /\ server.issued \in Nat
  BY DEF Ready, StubOK, WellFormed, State
<1> QED
  BY <1>2, <1>3, <1>4 DEF Ready, StateFits, Steps

\* A fault that stands is active on the stub.
LEMMA ActiveAt ==
  ASSUME NEW t, NEW k, NEW got, NEW s, s.faults = FaultsAt(t, k, got), NEW type
  PROVE  OfType(s, type) # {} <=> Stands(t, k, type)
<1>1. \A n : FaultAt(t, n, got).type = TypeOf(t, n)
  BY DEF FaultAt
<1> QED
  BY <1>1 DEF OfType, FaultsAt, Stands

\* What the handlers that store or remove something do to the state.
LEMMA StoredMeans ==
  ASSUME NEW s \in State, NEW q
  PROVE  /\ LET h == AddFault(s, q) IN
              /\ h.status = 201 /\ h.id = s.issued + 1 /\ h.to.issued = s.issued + 1
              /\ h.to.faults = s.faults \cup {[id |-> s.issued + 1, type |-> q.arg, delay |-> q.delay]}
         /\ Acceptable(q) =>
              /\ \A h \in {PostTeam(s, q), PostAgent(s, q), PostTask(s, q)} :
                   /\ h.status = 201 /\ h.id = s.issued + 1 /\ h.to.issued = s.issued + 1
                   /\ h.to.faults = s.faults
              /\ PostTask(s, q).to.tasks = s.tasks \cup {[id |-> s.issued + 1, status |-> "pending"]}
         /\ q.on = "chaos/" /\ (\E f \in s.faults : f.id = q.arg) =>
              LET h == DoDelete(s, q) IN
              /\ h.status = 200 /\ h.to.faults = {f \in s.faults : f.id # q.arg}
              /\ h.to.issued = s.issued /\ h.to.tasks = s.tasks
<1>1. LET h == AddFault(s, q) IN
        /\ h.status = 201 /\ h.id = s.issued + 1 /\ h.to.issued = s.issued + 1
        /\ h.to.faults = s.faults \cup {[id |-> s.issued + 1, type |-> q.arg, delay |-> q.delay]}
  <2> DEFINE f == [id |-> s.issued + 1, type |-> q.arg, delay |-> q.delay]
             to == [s EXCEPT !.issued = s.issued + 1, !.faults = s.faults \cup {f}]
  <2>1. AddFault(s, q) = [to |-> to, status |-> 201, id |-> to.issued, list |-> {}]
    BY DEF AddFault, Created
  <2>2. to.issued = s.issued + 1 /\ to.faults = s.faults \cup {f}
    <3> HIDE DEF f
    <3> QED
      BY DEF State
  <2> HIDE DEF to, f
  <2>3. LET h == AddFault(s, q) IN
          h.status = 201 /\ h.id = s.issued + 1 /\ h.to.issued = s.issued + 1
          /\ h.to.faults = s.faults \cup {f}
    BY <2>1, <2>2
  <2> QED
    BY <2>3 DEF f
<1>2. ASSUME Acceptable(q)
      PROVE  LET h == PostTeam(s, q) IN
             /\ h.status = 201 /\ h.id = s.issued + 1 /\ h.to.issued = s.issued + 1
             /\ h.to.faults = s.faults
  BY <1>2 DEF PostTeam, Created, State
<1>3. ASSUME Acceptable(q)
      PROVE  LET h == PostAgent(s, q) IN
             /\ h.status = 201 /\ h.id = s.issued + 1 /\ h.to.issued = s.issued + 1
             /\ h.to.faults = s.faults
  BY <1>3 DEF PostAgent, Created, State
<1>4. ASSUME Acceptable(q)
      PROVE  LET h == PostTask(s, q) IN
             /\ h.status = 201 /\ h.id = s.issued + 1 /\ h.to.issued = s.issued + 1
             /\ h.to.faults = s.faults
             /\ h.to.tasks = s.tasks \cup {[id |-> s.issued + 1, status |-> "pending"]}
  <2> DEFINE t == [id |-> s.issued + 1, status |-> "pending"]
             to == [s EXCEPT !.issued = s.issued + 1, !.tasks = s.tasks \cup {t}]
  <2>1. PostTask(s, q) = [to |-> to, status |-> 201, id |-> to.issued, list |-> {}]
    BY <1>4 DEF PostTask, Created
  <2>2. to.issued = s.issued + 1 /\ to.tasks = s.tasks \cup {t} /\ to.faults = s.faults
    <3> HIDE DEF t
    <3> QED
      BY DEF State
  <2> HIDE DEF to, t
  <2>3. LET h == PostTask(s, q) IN
          h.status = 201 /\ h.id = s.issued + 1 /\ h.to.issued = s.issued + 1
          /\ h.to.faults = s.faults /\ h.to.tasks = s.tasks \cup {t}
    BY <2>1, <2>2
  <2> QED
    BY <2>3 DEF t
<1>5. ASSUME q.on = "chaos/", \E f \in s.faults : f.id = q.arg
      PROVE  LET h == DoDelete(s, q) IN
             /\ h.status = 200 /\ h.to.faults = {f \in s.faults : f.id # q.arg}
             /\ h.to.issued = s.issued /\ h.to.tasks = s.tasks
  <2> DEFINE rest == {f \in s.faults : f.id # q.arg}
             to == [s EXCEPT !.faults = rest]
  <2>1. DoDelete(s, q) = [to |-> to, status |-> 200, id |-> 0, list |-> {}]
    BY <1>5 DEF DoDelete, Reply
  <2>2. to.faults = rest /\ to.issued = s.issued /\ to.tasks = s.tasks
    <3> HIDE DEF rest
    <3> QED
      BY DEF State
  <2> HIDE DEF to, rest
  <2>3. LET h == DoDelete(s, q) IN
          h.status = 200 /\ h.to.faults = rest /\ h.to.issued = s.issued /\ h.to.tasks = s.tasks
    BY <2>1, <2>2
  <2> QED
    BY <2>3 DEF rest
<1> QED
  BY <1>1, <1>2, <1>3, <1>4, <1>5

\* The step injects a fault.
LEMMA InjectServed ==
  ASSUME Ready, Injects(test, pc, Steps[pc]), NEW h, h = Handle(server, Request(Steps[pc])),
         NEW r, r.status = h.status, r.id = h.id, NEW left
  PROVE  ReplyFits(Steps[pc], r, left, h.to)
<1> DEFINE st == Steps[pc]
           last == server.issued
           new == Append(ids, last + 1)
           f == [id |-> last + 1, type |-> st.req.arg, delay |-> st.req.delay]
<1>1. /\ st.do = "inject" /\ Request(st) = st.req /\ st.req.verb = "POST" /\ st.req.on = "chaos/"
      /\ st.req.body # "empty" /\ st.req.arg \in ChaosTypes /\ st.req.arg # "test-empty"
      /\ pc \in FaultsOf(test)
  BY DEF Injects, Request
<1>2. /\ ScriptFits(test) /\ pc \in 1 .. Len(Script(test)) /\ before \in Nat /\ last \in Nat
      /\ before <= last /\ IdsFit(test, pc, ids, before, last) /\ server \in State
      /\ server.faults = FaultsAt(test, pc, ids) /\ TaskStepOK(test, pc) /\ st = Script(test)[pc]
  BY ReadyMeans DEF Ready
<1> HIDE DEF st
<1>3. h = AddFault(server, st.req)
  BY <1>1 DEF Handle, DoPost, PostFault, st
<1>4. /\ h.status = 201 /\ h.id = last + 1 /\ h.to.issued = last + 1
      /\ h.to.faults = server.faults \cup {f}
  BY <1>2, <1>3, StoredMeans
<1>5. /\ IdsFit(test, pc + 1, new, before, last + 1) /\ new[pc] = last + 1
      /\ FaultsAt(test, pc + 1, new) = FaultsAt(test, pc, ids) \cup {FaultAt(test, pc, new)}
  <2>0. new = Append(ids, last + 1)
    OBVIOUS
  <2> HIDE DEF last, f, new
  <2>1. IdsFit(test, pc + 1, new, before, last + 1)
    BY <1>2, <2>0, IdsMove
  <2>2. /\ FaultsAt(test, pc + 1, Append(ids, last + 1)) =
             FaultsAt(test, pc, ids) \cup {FaultAt(test, pc, Append(ids, last + 1))}
        /\ Append(ids, last + 1)[pc] = last + 1
    <3>1. /\ ScriptFits(test) /\ pc \in 1 .. Len(Script(test)) /\ pc \in FaultsOf(test)
          /\ before \in Nat /\ last \in Nat /\ before <= last /\ IdsFit(test, pc, ids, before, last)
      BY <1>1, <1>2
    <3> QED
      BY <3>1, FaultsGrow
  <2> QED
    BY <2>0, <2>1, <2>2
<1>6. FaultAt(test, pc, new) = f
  BY <1>2, <1>5 DEF FaultAt, TypeOf, DelayOf
<1>7. ~TaskKnown(test, pc + 1)
  BY <1>1, <1>2 DEF TaskStepOK, PostsTask
<1> HIDE DEF f, new, last
<1>8. StateFits(test, pc + 1, new, before, h.to)
  BY <1>2, <1>4, <1>5, <1>6, <1>7 DEF StateFits
<1>9. Got(st, r) = new
  BY <1>1, <1>4 DEF Got, new, last
<1>10. ~Fatal(st, r)
  BY <1>1, <1>4 DEF Fatal
<1>11. ReplyFits(st, r, left, h.to)
  BY <1>1, <1>8, <1>9, <1>10 DEF ReplyFits
<1> QED
  BY <1>11 DEF st

\* The step creates a team, an agent or a task.
LEMMA CreateServed ==
  ASSUME Ready, Creates(test, pc, Steps[pc]), NEW h, h = Handle(server, Request(Steps[pc])),
         NEW r, r.status = h.status, r.id = h.id, NEW left
  PROVE  ReplyFits(Steps[pc], r, left, h.to)
<1> DEFINE st == Steps[pc]
           last == server.issued
           new == Append(ids, last + 1)
<1>1. /\ st.do = "inject" /\ Request(st) = st.req /\ st.req.verb = "POST"
      /\ st.req.on \in {"teams", "agents", "teams/tasks"} /\ Acceptable(st.req) /\ Same(test, pc)
  BY DEF Creates, Request
<1>2. /\ ScriptFits(test) /\ pc \in 1 .. Len(Script(test)) /\ before \in Nat /\ last \in Nat
      /\ before <= last /\ IdsFit(test, pc, ids, before, last) /\ server \in State
      /\ server.faults = FaultsAt(test, pc, ids) /\ TaskStepOK(test, pc) /\ st = Script(test)[pc]
  BY ReadyMeans DEF Ready
<1> HIDE DEF st
<1>3. /\ h.status = 201 /\ h.id = last + 1 /\ h.to.issued = last + 1 /\ h.to.faults = server.faults
      /\ st.req.on = "teams/tasks" =>
           h.to.tasks = server.tasks \cup {[id |-> last + 1, status |-> "pending"]}
  <2>1. /\ h \in {PostTeam(server, st.req), PostAgent(server, st.req), PostTask(server, st.req)}
        /\ st.req.on = "teams/tasks" => h = PostTask(server, st.req)
    <3>1. h = DoPost(server, st.req)
      BY <1>1 DEF Handle, st
    <3>2. st.req.on \in {"teams", "agents", "teams/tasks"}
      BY <1>1
    <3> QED
      BY <3>1, <3>2 DEF DoPost
  <2>2. /\ \A g \in {PostTeam(server, st.req), PostAgent(server, st.req), PostTask(server, st.req)} :
             /\ g.status = 201 /\ g.id = server.issued + 1
             /\ g.to.issued = server.issued + 1 /\ g.to.faults = server.faults
        /\ PostTask(server, st.req).to.tasks =
             server.tasks \cup {[id |-> server.issued + 1, status |-> "pending"]}
    <3>1. server \in State /\ Acceptable(st.req)
      BY <1>1, <1>2
    <3> QED
      BY <3>1, StoredMeans
  <2> HIDE DEF last
  <2>3. /\ h.status = 201 /\ h.id = server.issued + 1
        /\ h.to.issued = server.issued + 1 /\ h.to.faults = server.faults
    BY <2>1, <2>2
  <2>4. st.req.on = "teams/tasks" =>
          h.to.tasks = server.tasks \cup {[id |-> server.issued + 1, status |-> "pending"]}
    BY <2>1, <2>2
  <2> QED
    BY <2>3, <2>4 DEF last
<1>4. /\ IdsFit(test, pc + 1, new, before, last + 1) /\ Len(new) = Len(ids) + 1
      /\ new[Len(ids) + 1] = last + 1
  <2> HIDE DEF last
  <2> QED
    BY <1>2, IdsMove
<1>5. FaultsAt(test, pc + 1, new) = FaultsAt(test, pc, ids)
  <2>0. new = Append(ids, last + 1)
    OBVIOUS
  <2> HIDE DEF last, new
  <2>1. FaultsAt(test, pc, new) = FaultsAt(test, pc, ids)
    BY <1>2, <2>0, FaultsKeep
  <2>2. FaultsAt(test, pc + 1, new) = FaultsAt(test, pc, new)
    BY <1>1, <1>2, FaultsStay
  <2> QED
    BY <2>1, <2>2
<1>6. \A x \in server.tasks : x.id \in 1 .. last
  BY DEF Ready, StubOK, WellFormed
<1>7. ASSUME TaskKnown(test, pc + 1) PROVE IsPending(h.to, last + 1)
  <2>1. st.req.on = "teams/tasks"
    BY <1>1, <1>2, <1>7 DEF TaskStepOK, PostsTask
  <2>2. \A x \in server.tasks : x.id # last + 1
    BY <1>2, <1>6
  <2> QED
    BY <1>3, <2>1, <2>2 DEF IsPending
<1> HIDE DEF new, last
<1>8. new[Len(new)] = last + 1
  BY <1>4
<1>9. StateFits(test, pc + 1, new, before, h.to)
  BY <1>2, <1>3, <1>4, <1>5, <1>7, <1>8 DEF StateFits
<1>10. Got(st, r) = new
  BY <1>1, <1>3 DEF Got, new, last
<1>11. ~Fatal(st, r)
  BY <1>1, <1>3 DEF Fatal
<1>12. ReplyFits(st, r, left, h.to)
  BY <1>1, <1>9, <1>10, <1>11 DEF ReplyFits
<1> QED
  BY <1>12 DEF st

\* The step removes a fault.
LEMMA RemoveServed ==
  ASSUME Ready, Removes(test, pc, Steps[pc]), NEW h, h = Handle(server, Request(Steps[pc])),
         NEW r, r.status = h.status, r.id = h.id, NEW left
  PROVE  ReplyFits(Steps[pc], r, left, h.to)
<1> DEFINE st == Steps[pc]
           id == ids[st.k]
<1>1. /\ st.do = "remove" /\ Request(st) = Delete(id) /\ st.k \in FaultsOf(test)
      /\ RemovedAt(test)[st.k] = pc
  BY DEF Removes, Request
<1>2. /\ ScriptFits(test) /\ pc \in 1 .. Len(Script(test)) /\ before \in Nat /\ server.issued \in Nat
      /\ before <= server.issued /\ IdsFit(test, pc, ids, before, server.issued) /\ server \in State
      /\ server.faults = FaultsAt(test, pc, ids) /\ TaskStepOK(test, pc) /\ st = Script(test)[pc]
  BY ReadyMeans DEF Ready
<1>3. /\ st.k \in Standing(test, pc) /\ Standing(test, pc + 1) = Standing(test, pc) \ {st.k}
      /\ FaultsAt(test, pc + 1, ids) = {f \in FaultsAt(test, pc, ids) : f.id # id}
      /\ \E f \in FaultsAt(test, pc, ids) : f.id = id
  <2>1. st.k \in Standing(test, pc) /\ Standing(test, pc + 1) = Standing(test, pc) \ {st.k}
    BY <1>1, <1>2, StandingMoves
  <2> HIDE DEF st
  <2>2. /\ FaultsAt(test, pc + 1, ids) = {f \in FaultsAt(test, pc, ids) : f.id # id}
        /\ \E f \in FaultsAt(test, pc, ids) : f.id = id
    BY <1>1, <1>2, FaultsShrink
  <2> QED
    BY <2>1, <2>2
<1>4. pc \notin FaultsOf(test)
  BY <1>1, <1>2 DEF ScriptFits, FaultsOf
<1> HIDE DEF st
<1>5. Delete(id).verb = "DELETE" /\ Delete(id).on = "chaos/" /\ Delete(id).arg = id
  BY DEF Delete, Get
<1>6. \E f \in server.faults : f.id = id
  BY <1>2, <1>3
<1>7. h = DoDelete(server, Delete(id))
  BY <1>1, <1>5 DEF Handle, st
<1> HIDE DEF id
<1>8. /\ h.status = 200 /\ h.to.faults = {f \in server.faults : f.id # id}
      /\ h.to.issued = server.issued /\ h.to.tasks = server.tasks
  <2> DEFINE q == Delete(id)
  <2>1. q.on = "chaos/" /\ (\E f \in server.faults : f.id = q.arg)
    BY <1>5, <1>6
  <2>2. server \in State
    BY <1>2
  <2>3. id = q.arg
    BY <1>5
  <2> HIDE DEF q
  <2>4. LET g == DoDelete(server, q) IN
        /\ g.status = 200 /\ g.to.faults = {f \in server.faults : f.id # q.arg}
        /\ g.to.issued = server.issued /\ g.to.tasks = server.tasks
    BY <2>1, <2>2, StoredMeans
  <2> QED
    BY <1>7, <2>3, <2>4 DEF q
<1>9. IdsFit(test, pc + 1, ids, before, server.issued)
  BY <1>2, <1>4, IdsMove
<1>10. TaskKnown(test, pc + 1) /\ Stands(test, pc + 1, "queue-starve") =>
         TaskKnown(test, pc) /\ Stands(test, pc, "queue-starve")
  BY <1>1, <1>2, <1>3 DEF TaskStepOK, Stands
<1>11. StateFits(test, pc + 1, ids, before, h.to)
  BY <1>2, <1>3, <1>8, <1>9, <1>10 DEF StateFits, Ready, IsPending
<1>12. Got(st, r) = ids /\ ~Fatal(st, r) /\ ~Unmet(st, r)
  BY <1>1, <1>8 DEF Got, Fatal, Unmet
<1>13. ReplyFits(st, r, left, h.to)
  BY <1>1, <1>11, <1>12 DEF ReplyFits
<1> QED
  BY <1>13 DEF st

\* What the stub shows to those who ask.
LEMMA GetMeans ==
  ASSUME NEW s, StubOK(s)
  PROVE  /\ LET h == Handle(s, Get("health")) IN
              h.to = s /\ h.status = IF KillActive(s) THEN 503 ELSE 200
         /\ LET h == Handle(s, Get("chaos")) IN h.to = s /\ h.status = 200 /\ h.list = s.faults
         /\ LET h == Handle(s, Get("tasks")) IN
              /\ h.status = 200 /\ h.list = h.to.tasks
              /\ h.to.faults = s.faults /\ h.to.issued = s.issued
              /\ QueueStarveActive(s) => h.to = s
              /\ ~QueueStarveActive(s) =>
                   IdOf(s.tasks) \subseteq IdOf(h.to.tasks) /\ \A t \in h.list : t.status = "completed"
<1>1. \A on : Get(on).verb = "GET" /\ Get(on).on = on
  BY DEF Get
<1>2. \A on : Handle(s, Get(on)) = DoGet(s, Get(on))
  BY <1>1 DEF Handle
<1>3. LET h == DoGet(s, Get("health")) IN
        h.to = s /\ h.status = IF KillActive(s) THEN 503 ELSE 200
  BY <1>1 DEF DoGet, Reply
<1>4. LET h == DoGet(s, Get("chaos")) IN h.to = s /\ h.status = 200 /\ h.list = s.faults
  BY <1>1 DEF DoGet, Reply
<1>5. LET h == DoGet(s, Get("tasks")) IN
        /\ h.status = 200 /\ h.list = h.to.tasks
        /\ h.to.faults = s.faults /\ h.to.issued = s.issued
        /\ QueueStarveActive(s) => h.to = s
        /\ ~QueueStarveActive(s) =>
             IdOf(s.tasks) \subseteq IdOf(h.to.tasks) /\ \A t \in h.list : t.status = "completed"
  <2> DEFINE h == DoGet(s, Get("tasks"))
  <2>1. h.status = 200 /\ h.to = CompleteTasks(s)
    BY <1>1 DEF DoGet, Reply
  <2>2. CompleteTasks(s).faults = s.faults /\ CompleteTasks(s).issued = s.issued
    BY DEF CompleteTasks, StubOK, WellFormed, State
  <2>3. QueueStarveActive(s) => h.to = s
    BY <2>1 DEF CompleteTasks
  <2>4. Kept(s, h) /\ h.list = h.to.tasks
        /\ (~QueueStarveActive(h.to) => \A t \in h.list : t.status = "completed")
    BY <1>1, DoGetKeeps
  <2>5. QueueStarveActive(h.to) <=> QueueStarveActive(s)
    BY <2>1, <2>2 DEF QueueStarveActive, OfType
  <2> QED
    BY <2>1, <2>2, <2>3, <2>4, <2>5 DEF Kept
<1> QED
  BY <1>2, <1>3, <1>4, <1>5

\* The step only looks.
LEMMA LookFits ==
  ASSUME Ready, Same(test, pc), Steps[pc].do # "inject",
         NEW s, s.faults = server.faults, s.issued = server.issued,
         Stands(test, pc, "queue-starve") => s.tasks = server.tasks
  PROVE  StateFits(test, pc, ids, before, s) /\ StateFits(test, pc + 1, ids, before, s)
<1>1. /\ ScriptFits(test) /\ pc \in 1 .. Len(Script(test)) /\ before \in Nat /\ server.issued \in Nat
      /\ before <= server.issued /\ IdsFit(test, pc, ids, before, server.issued)
      /\ server.faults = FaultsAt(test, pc, ids) /\ TaskStepOK(test, pc)
      /\ Steps[pc] = Script(test)[pc] /\ StateFits(test, pc, ids, before, server)
  BY ReadyMeans DEF Ready
<1>2. IdsFit(test, pc + 1, ids, before, server.issued)
  BY <1>1, IdsMove DEF Same
<1>3. FaultsAt(test, pc + 1, ids) = FaultsAt(test, pc, ids)
  BY <1>1, FaultsStay
<1>4. Stands(test, pc + 1, "queue-starve") <=> Stands(test, pc, "queue-starve")
  BY <1>1, StandingMoves DEF Stands
<1>5. TaskKnown(test, pc + 1) => TaskKnown(test, pc)
  BY <1>1 DEF TaskStepOK
<1>6. Stands(test, pc, "queue-starve") /\ TaskKnown(test, pc) => IsPending(s, ids[Len(ids)])
  BY <1>1 DEF StateFits, IsPending
<1> QED
  BY <1>1, <1>2, <1>3, <1>4, <1>5, <1>6 DEF StateFits

\* The step lists the faults.
LEMMA ListServed ==
  ASSUME Ready, Lists(test, pc, Steps[pc]), NEW h, h = Handle(server, Request(Steps[pc])),
         NEW r, r.status = h.status, r.id = h.id, r.list = h.list, NEW left
  PROVE  ReplyFits(Steps[pc], r, left, h.to)
<1> DEFINE st == Steps[pc]
<1>1. /\ st.do = "list" /\ Request(st) = Get("chaos") /\ Same(test, pc)
      /\ \A n \in st.has : n \in Standing(test, pc)
      /\ \A n \in st.lacks : Gone(test, pc)
  BY DEF Lists, Request
<1>2. /\ ScriptFits(test) /\ pc \in 1 .. Len(Script(test)) /\ StubOK(server)
      /\ server.faults = FaultsAt(test, pc, ids)
  BY ReadyMeans DEF Ready
<1> HIDE DEF st
<1>3. h.to = server /\ h.status = 200 /\ h.list = server.faults
  BY <1>1, <1>2, GetMeans DEF st
<1>4. StateFits(test, pc + 1, ids, before, server)
  BY <1>1, LookFits DEF st
<1>5. IdOf(r.list) = {ids[n] : n \in Standing(test, pc)}
  <2>1. r.list = {FaultAt(test, n, ids) : n \in Standing(test, pc)}
    BY <1>2, <1>3 DEF FaultsAt
  <2>2. \A n : FaultAt(test, n, ids).id = ids[n]
    BY DEF FaultAt
  <2> QED
    BY <2>1, <2>2 DEF IdOf
<1>6. st.lacks # {} => Standing(test, pc) = {}
  BY <1>1, <1>2, StandingMoves
<1>7. ~Unmet(st, r)
  BY <1>1, <1>5, <1>6 DEF Unmet
<1>8. Got(st, r) = ids /\ ~Fatal(st, r)
  BY <1>1, <1>3 DEF Got, Fatal
<1>9. ReplyFits(st, r, left, h.to)
  BY <1>1, <1>3, <1>4, <1>7, <1>8 DEF ReplyFits
<1> QED
  BY <1>9 DEF st

\* The step measures how long a reply takes.
LEMMA ProbeServed ==
  ASSUME Ready, Probes(test, pc, Steps[pc]), NEW h, h = Handle(server, Request(Steps[pc])),
         NEW r, r.status = h.status, r.id = h.id, r.list = h.list, NEW left, left = Delay(h.to), since = 0
  PROVE  ReplyFits(Steps[pc], r, left, h.to)
<1> DEFINE st == Steps[pc]
<1>1. /\ st.do = "probe" /\ Request(st) = Get("health") /\ Same(test, pc)
      /\ \/ Gone(test, pc) /\ 0 \in st.least .. st.most
         \/ /\ Standing(test, pc) = {1} /\ TypeOf(test, 1) = "latency"
            /\ DelayOf(test, 1) \in st.least .. st.most
  BY DEF Probes, Request
<1>2. /\ ScriptFits(test) /\ pc \in 1 .. Len(Script(test)) /\ StubOK(server)
      /\ server.faults = FaultsAt(test, pc, ids)
  BY ReadyMeans DEF Ready
<1> HIDE DEF st
<1>3. h.to = server
  BY <1>1, <1>2, GetMeans DEF st
<1>4. StateFits(test, pc + 1, ids, before, server)
  BY <1>1, LookFits DEF st
<1>5. /\ Delay(server) \in 0 .. Longest /\ (Standing(test, pc) = {} => Delay(server) = 0)
      /\ Standing(test, pc) = {1} /\ TypeOf(test, 1) = "latency" => Delay(server) = DelayOf(test, 1)
  BY <1>2, DelayAt
<1>6. Gone(test, pc) => Standing(test, pc) = {}
  BY <1>2, StandingMoves
<1>7. left \in st.least .. st.most
  BY <1>1, <1>3, <1>5, <1>6
<1>8. since + left = left /\ left <= Longest
  BY <1>3, <1>5 DEF Longest
<1>9. Got(st, r) = ids /\ ~Fatal(st, r)
  BY <1>1 DEF Got, Fatal
<1>10. ReplyFits(st, r, left, h.to)
  BY <1>1, <1>3, <1>4, <1>7, <1>8, <1>9 DEF ReplyFits
<1> QED
  BY <1>10 DEF st

\* The step sends something that changes nothing.
LEMMA SendServed ==
  ASSUME Ready, Sends(test, pc, Steps[pc]), NEW h, h = Handle(server, Request(Steps[pc])),
         NEW r, r.status = h.status, r.id = h.id, r.list = h.list, NEW left
  PROVE  ReplyFits(Steps[pc], r, left, h.to)
<1> DEFINE st == Steps[pc]
<1>1. /\ st.do = "send" /\ Request(st) = st.req /\ Same(test, pc) /\ Gone(test, pc)
      /\ \A s : s.faults = {} => Handle(s, st.req).to = s /\ Handle(s, st.req).status \in st.ok
  BY DEF Sends, Request
<1>2. /\ ScriptFits(test) /\ pc \in 1 .. Len(Script(test))
      /\ server.faults = FaultsAt(test, pc, ids)
  BY ReadyMeans DEF Ready
<1> HIDE DEF st
<1>3. server.faults = {}
  BY <1>1, <1>2, StandingMoves DEF FaultsAt
<1>4. h.to = server /\ h.status \in st.ok
  BY <1>1, <1>3 DEF st
<1>5. StateFits(test, pc + 1, ids, before, server)
  BY <1>1, LookFits DEF st
<1>6. Got(st, r) = ids /\ ~Fatal(st, r) /\ ~Unmet(st, r)
  BY <1>1, <1>4 DEF Got, Fatal, Unmet
<1>7. ReplyFits(st, r, left, h.to)
  BY <1>1, <1>4, <1>5, <1>6 DEF ReplyFits
<1> QED
  BY <1>7 DEF st

\* The step polls: it sees at once what it waits for, or is meant not to.
LEMMA PollServed ==
  ASSUME Ready, Polls(test, pc, Steps[pc]), NEW h, h = Handle(server, Request(Steps[pc])),
         NEW r, r.status = h.status, r.id = h.id, r.list = h.list, NEW left,
         TaskKnown(test, pc) => LastTaskExists
  PROVE  ReplyFits(Steps[pc], r, left, h.to)
<1> DEFINE st == Steps[pc]
<1>1. st.do = "poll" /\ Same(test, pc)
      /\ \/ Starving(test, pc)
         \/ st.cond = "listed" /\ Stands(test, pc, TypeOf(test, 1))
         \/ st.cond = "unhealthy" /\ Stands(test, pc, "kill")
         \/ st.cond \in {"healthy", "done"} /\ Gone(test, pc)
  BY DEF Polls
<1>2. /\ ScriptFits(test) /\ pc \in 1 .. Len(Script(test)) /\ StubOK(server) /\ Steps[pc] = Script(test)[pc]
      /\ server.faults = FaultsAt(test, pc, ids) /\ StateFits(test, pc, ids, before, server)
      /\ TaskStepOK(test, pc)
  BY ReadyMeans DEF Ready
<1>3. \A type : OfType(server, type) # {} <=> Stands(test, pc, type)
  BY <1>2, ActiveAt
<1>4. Gone(test, pc) => Standing(test, pc) = {} /\ \A type : ~Stands(test, pc, type)
  BY <1>2, StandingMoves DEF Stands
<1>5. Starving(test, pc) => st.cond = "done" /\ Stands(test, pc, "queue-starve")
  BY <1>2 DEF Starving
<1> HIDE DEF st
<1>6. Got(st, r) = ids
  BY <1>1 DEF Got
<1>7. CASE st.cond = "listed"
  <2>1. h.to = server /\ h.status = 200 /\ h.list = server.faults
    BY <1>1, <1>2, <1>7, GetMeans DEF Request, st
  <2>2. Holds(st, r)
    <3>1. PICK f \in server.faults : f.type = TypeOf(test, 1)
      BY <1>1, <1>3, <1>5, <1>7 DEF OfType
    <3> QED
      BY <1>7, <2>1, <3>1 DEF Holds, TypeOf, Steps
  <2>3. StateFits(test, pc, ids, before, server) /\ StateFits(test, pc + 1, ids, before, server)
    BY <1>1, LookFits DEF st
  <2> QED
    BY <1>1, <1>5, <1>6, <1>7, <2>1, <2>2, <2>3 DEF ReplyFits, Fatal, st
<1>8. CASE st.cond \in {"unhealthy", "healthy"}
  <2>1. h.to = server /\ h.status = IF KillActive(server) THEN 503 ELSE 200
    BY <1>1, <1>2, <1>8, GetMeans DEF Request, st
  <2>2. Holds(st, r)
    <3>1. KillActive(server) <=> Stands(test, pc, "kill")
      BY <1>3 DEF KillActive
    <3>2. CASE st.cond = "unhealthy"
      <4>1. r.status = 503
        BY <1>1, <1>5, <2>1, <3>1, <3>2
      <4> QED
        BY <3>2, <4>1 DEF Holds
    <3>3. CASE st.cond = "healthy"
      <4>1. Gone(test, pc)
        BY <1>1, <1>5, <3>3
      <4>2. r.status = 200
        BY <1>4, <2>1, <3>1, <4>1
      <4> QED
        BY <3>3, <4>2 DEF Holds
    <3> QED
      BY <1>8, <3>2, <3>3
  <2>3. StateFits(test, pc, ids, before, server) /\ StateFits(test, pc + 1, ids, before, server)
    BY <1>1, LookFits DEF st
  <2> QED
    BY <1>1, <1>5, <1>6, <1>8, <2>1, <2>2, <2>3 DEF ReplyFits, Fatal, st
<1>9. CASE st.cond = "done"
  <2>1. /\ h.status = 200 /\ h.list = h.to.tasks
        /\ h.to.faults = server.faults /\ h.to.issued = server.issued
        /\ QueueStarveActive(server) => h.to = server
        /\ ~QueueStarveActive(server) =>
             IdOf(server.tasks) \subseteq IdOf(h.to.tasks) /\ \A t \in h.list : t.status = "completed"
    BY <1>1, <1>2, <1>9, GetMeans DEF Request, st
  <2>2. QueueStarveActive(server) <=> Stands(test, pc, "queue-starve")
    BY <1>3 DEF QueueStarveActive
  <2>3. StateFits(test, pc, ids, before, h.to) /\ StateFits(test, pc + 1, ids, before, h.to)
    BY <1>1, <2>1, <2>2, LookFits DEF st
  <2>4. TaskKnown(test, pc)
    BY <1>1, <1>2, <1>9 DEF TaskStepOK, st
  <2>5. Holds(st, r) <=> ~Starving(test, pc)
    <3>1. CASE Starving(test, pc)
      <4>1. r.list = server.tasks /\ IsPending(server, ids[Len(ids)])
        BY <1>2, <1>5, <2>1, <2>2, <2>4, <3>1 DEF StateFits
      <4> QED
        BY <1>9, <3>1, <4>1 DEF Holds, IsPending
    <3>2. CASE ~Starving(test, pc)
      <4>1. IdOf(server.tasks) \subseteq IdOf(r.list) /\ \A t \in r.list : t.status = "completed"
        BY <1>1, <1>4, <1>9, <2>1, <2>2, <3>2
      <4>2. ids[Len(ids)] \in IdOf(r.list)
        BY <2>4, <4>1 DEF LastTaskExists
      <4> QED
        BY <1>9, <3>2, <4>1, <4>2 DEF Holds, IdOf
    <3> QED
      BY <3>1, <3>2
  <2> QED
    BY <1>1, <1>6, <1>9, <2>1, <2>3, <2>5 DEF ReplyFits, Fatal, st
<1> QED
  BY <1>1, <1>5, <1>7, <1>8, <1>9 DEF st

\* Every step gets a reply that it is content with, and soon enough.
LEMMA StepServed ==
  ASSUME Ready, NEW h, h = Handle(server, Request(Steps[pc])),
         NEW r, r.status = h.status, r.id = h.id, r.list = h.list, NEW left, left = Delay(h.to),
         TaskKnown(test, pc) => LastTaskExists, since = 0 \/ Starving(test, pc)
  PROVE  ReplyFits(Steps[pc], r, left, h.to) /\ left \in 0 .. Longest
<1> DEFINE st == Steps[pc]
<1>1. ScriptFits(test) /\ StepFits(test, pc) /\ st = Script(test)[pc]
  BY ReadyMeans DEF Ready
<1>2. st.do = "probe" => since = 0
  BY <1>1 DEF Starving
<1> HIDE DEF st
<1>3. ReplyFits(st, r, left, h.to)
  <2>1. CASE Injects(test, pc, st)
    BY <2>1, InjectServed DEF st
  <2>2. CASE Creates(test, pc, st)
    BY <2>2, CreateServed DEF st
  <2>3. CASE Removes(test, pc, st)
    BY <2>3, RemoveServed DEF st
  <2>4. CASE Lists(test, pc, st)
    BY <2>4, ListServed DEF st
  <2>5. CASE Probes(test, pc, st)
    <3>1. since = 0
      BY <1>2, <2>5 DEF Probes
    <3> QED
      BY <2>5, <3>1, ProbeServed DEF st
  <2>6. CASE Sends(test, pc, st)
    BY <2>6, SendServed DEF st
  <2>7. CASE Polls(test, pc, st)
    BY <2>7, PollServed DEF st
  <2> QED
    BY <1>1, <2>1, <2>2, <2>3, <2>4, <2>5, <2>6, <2>7 DEF StepFits
<1>4. h.to.faults = FaultsAt(test, pc + 1, Got(st, r))
  BY <1>3 DEF ReplyFits, StateFits
<1>5. left \in 0 .. Longest
  BY <1>1, <1>4, DelayAt
<1> QED
  BY <1>3, <1>5 DEF st

-------------------------------------------------------------------------------
(* The invariant is kept by every step of the session. *)

\* The ids fit as well when more of them are issued.
LEMMA IdsStay ==
  ASSUME NEW t, NEW k, NEW got, NEW from \in Nat, NEW last \in Nat, NEW more \in Nat, last <= more,
         IdsFit(t, k, got, from, last)
  PROVE  IdsFit(t, k, got, from, more)
<1>1. from + 1 .. last \subseteq from + 1 .. more
  OBVIOUS
<1> QED
  BY <1>1 DEF IdsFit

\* The client waits longer than the stub sleeps, the accept queue has room for a
\* request, and None is not what the stub is serving.
RoomAndTime ==
  /\ ReadTimeout > Longest /\ Backlog \in Nat
  /\ \A live, left, reply : None # [live |-> live, left |-> left, reply |-> reply]

\* What the proofs below assume: a test runs that began on an idle stub.
CleanStep == RoomAndTime /\ PollInv /\ CleanInv /\ clean /\ test # None

\* What follows from them at once.
LEMMA CleanMeans ==
  ASSUME CleanStep
  PROVE  /\ CleanRun /\ verdict = "ok" /\ test \in Tests /\ test \in TestNames /\ mishaps \in Nat
         /\ ScriptFits(test) /\ Len(Script(test)) \in Nat /\ pc \in 0 .. Len(Script(test)) + 1
         /\ server.issued \in Nat /\ before \in 0 .. server.issued /\ since \in Nat /\ clock \in Nat
         /\ StubOK(server) /\ attempt = 0 /\ mode \in {"idle", "send", "wait", "pause"} /\ Alone
         /\ InBody <=> pc \in 1 .. Len(Script(test))
         /\ InTearDown <=> pc = Len(Script(test)) + 1
         /\ pc # 0 => InScript
         /\ pc = 0 => InSetUp
         /\ mode = "wait" /\ pc # 0 => InBody
<1>1. CleanRun /\ verdict = "ok" /\ mishaps \in Nat /\ LoopInv /\ test # None
  BY DEF CleanStep, CleanInv, PollInv
<1>2. test \in Tests /\ test \in TestNames /\ Len(Script(test)) \in Nat /\ pc \in 0 .. Len(Script(test)) + 1
  BY <1>1, ScriptsUsed, SessionConfig DEF LoopInv, SessionInv, SessionConfig
<1>3. ScriptFits(test)
  BY <1>2, ScriptsFit
<1>4. InBody <=> pc \in 1 .. Len(Script(test))
  BY <1>1 DEF InBody, Steps
<1>5. InTearDown <=> pc = Len(Script(test)) + 1
  BY <1>1 DEF InTearDown, Steps
<1>6. /\ (pc # 0 => InScript) /\ (pc = 0 => InSetUp) /\ before \in 0 .. server.issued /\ since \in Nat
      /\ attempt = 0 /\ mode # "backoff" /\ Alone
  BY <1>1 DEF CleanRun
<1>7. mode = "wait" /\ pc # 0 => InBody
  BY <1>2, <1>4, <1>5, <1>6 DEF InScript
<1>8. /\ server.issued \in Nat /\ StubOK(server) /\ clock \in Nat
      /\ mode \in {"idle", "send", "wait", "backoff", "pause"}
  BY <1>1, IssuedIsNat DEF LoopInv, StubInv, ClientInv
<1> QED
  BY <1>1, <1>2, <1>3, <1>4, <1>5, <1>6, <1>7, <1>8

\* The invariant is shown of the next state part by part.
LEMMA CleanRunNext ==
  ASSUME CleanStep, UNCHANGED <<clean, before, attempt, test>>, verdict' = "ok", mishaps' \in Nat,
         mode' # "backoff", server.issued <= server'.issued, server'.issued \in Nat, since' \in Nat,
         Alone', IF pc' = 0 THEN InSetUp' ELSE InScript'
  PROVE  CleanInv'
<1>1. before' \in 0 .. server'.issued /\ attempt' = 0
  BY CleanMeans
<1>2. CleanRun'
  BY <1>1 DEF CleanRun
<1> QED
  BY <1>2 DEF CleanInv

\* The stub serves the request.
LEMMA ServeKeepsClean ==
  ASSUME CleanStep, Serve PROVE CleanInv'
<1> USE DEF clientVars, bodyVars, sessionVars
<1> DEFINE q == Head(inbox).req
           h == Handle(server, q)
           r == [status |-> h.status, id |-> h.id, list |-> h.list]
<1>1. /\ serving = None /\ inbox # <<>> /\ inbox' = Tail(inbox) /\ server' = h.to
      /\ serving' = [live |-> Head(inbox).live, left |-> Delay(h.to), reply |-> r]
      /\ UNCHANGED <<call, attempt, mode, clock, pc, ids, tracked, since, verdict, test, mishaps,
                     clean, before>>
  BY DEF Serve
<1>2. /\ inbox = << [req |-> call, live |-> TRUE] >> /\ mode = "wait" /\ clock = 0
  BY <1>1, CleanMeans DEF Alone
<1>3. q = call /\ Head(inbox).live /\ inbox' = <<>>
  BY <1>1, <1>2
<1>4. /\ r.status = h.status /\ r.id = h.id /\ r.list = h.list
      /\ serving'.reply = r /\ serving'.left = Delay(h.to) /\ serving'.live
  BY <1>1, <1>3
<1>5. serving' # None
  BY <1>1 DEF CleanStep, RoomAndTime
<1>6. IsRequest(call) /\ StubOK(server) /\ server.issued \in Nat
  BY IssuedIsNat DEF CleanStep, PollInv, LoopInv, StubInv, ClientInv
<1>7. /\ server.issued <= server'.issued /\ server'.issued \in Nat
  BY <1>1, <1>3, <1>6, HandleKeeps DEF Kept, StubOK, WellFormed, State
<1>8. CASE pc = 0
  <2>1. InSetUp
    BY <1>8, CleanMeans
  <2>2. h.to = server /\ h.status = 200
    <3>1. h = Handle(server, Get("health")) /\ ~KillActive(server)
      BY <1>3, <2>1 DEF InSetUp, KillActive, OfType
    <3> HIDE DEF h
    <3> QED
      BY <1>6, <3>1, GetMeans
  <2>3. Delay(server) = 0
    <3>1. OfType(server, "latency") = {}
      BY <2>1 DEF InSetUp, OfType
    <3> QED
      BY <3>1, SumOfFew DEF Delay
  <2> HIDE DEF h, r
  <2>4. server' = server /\ serving'.left = 0 /\ serving'.reply.status = 200
    BY <1>1, <1>4, <2>2, <2>3
  <2>5. Alone'
    BY <1>1, <1>2, <1>3, <1>4, <1>5, <2>4 DEF Alone, Longest
  <2>6. InSetUp'
    BY <1>1, <2>1, <2>4 DEF InSetUp
  <2> QED
    BY <1>1, <1>2, <1>7, <1>8, <2>5, <2>6, CleanMeans, CleanRunNext
<1>9. CASE pc # 0
  <2>1. InBody /\ InScript /\ pc \in 1 .. Len(Script(test))
    BY <1>2, <1>9, CleanMeans
  <2>2. q = Request(Steps[pc]) /\ (TaskKnown(test, pc) => LastTaskExists)
    BY <1>2, <1>3, <2>1 DEF CleanStep, PollInv, TalkInv
  <2>3. Ready /\ (since = 0 \/ Starving(test, pc))
    BY <1>1, <1>6, <2>1, CleanMeans DEF Ready, InScript
  <2> HIDE DEF h, r
  <2>4. ReplyFits(Steps[pc], r, Delay(h.to), h.to) /\ Delay(h.to) \in 0 .. Longest
    BY <1>4, <2>2, <2>3, StepServed DEF h
  <2>5. Alone'
    BY <1>1, <1>2, <1>3, <1>4, <1>5, <2>4 DEF Alone, Longest
  <2>6. IdsFit(test, pc, ids, before, server'.issued)
    BY <1>6, <1>7, <2>1, CleanMeans, IdsStay DEF InScript
  <2>7. ReplyFits(Steps[pc], serving'.reply, serving'.left, server')
    BY <1>1, <1>4, <2>4
  <2>8. ReplyFits(Steps[pc], serving.reply, serving.left, server)'
    <3>1. UNCHANGED <<test, pc, ids, before, since>> /\ Steps' = Steps
      BY <1>1 DEF Steps
    <3>2. ReplyFits(Steps[pc], serving.reply, serving.left, server)'
            <=> ReplyFits(Steps[pc], serving'.reply, serving'.left, server')
      BY <3>1 DEF ReplyFits, Got, Fatal, Unmet, Holds
    <3> QED
      BY <2>7, <3>2
  <2>9. ~InTearDown'
    BY <1>1, <2>1, CleanMeans DEF InTearDown, InBody, Steps
  <2>10. InScript'
    BY <1>1, <1>2, <1>5, <2>1, <2>6, <2>8, <2>9 DEF InScript
  <2> QED
    BY <1>1, <1>2, <1>7, <1>9, <2>5, <2>10, CleanMeans, CleanRunNext
<1> QED
  BY <1>8, <1>9

\* A test begins without faults and ids.
LEMMA FirstStepFits ==
  ASSUME NEW t \in TestNames, NEW from \in Nat, NEW s, s.faults = {}, s.issued \in Nat
  PROVE  StateFits(t, 1, <<>>, from, s) /\ IdsFit(t, 1, <<>>, from, s.issued)
<1>1. ScriptFits(t)
  BY ScriptsFit
<1>2. s.faults = FaultsAt(t, 1, <<>>)
  BY <1>1, StandingEnds DEF FaultsAt
<1>3. IdsFit(t, 1, <<>>, from, s.issued)
  <2>1. <<>> \in Seq(Nat) /\ Len(<<>>) = 0
    BY EmptySeq
  <2>2. IF 1 \in FaultsOf(t) THEN Len(<<>>) = 1 - 1 ELSE Len(<<>>) >= Len(RemovedAt(t))
    BY <1>1, <2>1 DEF ScriptFits, FaultsOf
  <2> QED
    BY <2>1, <2>2 DEF IdsFit
<1>4. ~TaskKnown(t, 1)
  BY DEF TaskKnown
<1> QED
  BY <1>2, <1>3, <1>4 DEF StateFits

\* What the test tracks are faults that stand.
LEMMA TrackedFits ==
  ASSUME NEW st, ScriptFits(test), pc \in 1 .. Len(Script(test)), st = Script(test)[pc],
         tracked \subseteq {ids[n] : n \in Standing(test, pc)}, NEW from \in Nat, NEW last \in Nat,
         IdsFit(test, pc, ids, from, last), NEW r, StepFits(test, pc)
  PROVE  TrackedAfter(st, r) \subseteq {Got(st, r)[n] : n \in Standing(test, pc + 1)}
<1> DEFINE new == Append(ids, r.id)
<1>1. ids \in Seq(Nat) /\ Len(ids) \in Nat
  BY LenProperties DEF IdsFit
<1>2. new[Len(ids) + 1] = r.id /\ \A n \in 1 .. Len(ids) : new[n] = ids[n]
  <2>1. ids \in Seq(Nat \cup {r.id})
    BY <1>1, SeqMonotonic, Zenon
  <2> QED
    BY <2>1, AppendProperties
<1> HIDE DEF new
<1>3. \A n \in Standing(test, pc) : n \in 1 .. Len(ids)
  BY IdsUsed
<1>4. {ids[n] : n \in Standing(test, pc)} = {new[n] : n \in Standing(test, pc)}
  BY <1>2, <1>3
<1>5. CASE Injects(test, pc, st)
  <2>1. st.do = "inject" /\ pc \in FaultsOf(test)
    BY <1>5 DEF Injects
  <2>2. Standing(test, pc + 1) = Standing(test, pc) \cup {pc}
    BY <2>1, StandingMoves
  <2>3. new[pc] = r.id
    BY <1>1, <1>2, <2>1 DEF IdsFit
  <2>4. TrackedAfter(st, r) \subseteq tracked \cup {r.id}
    BY <2>1 DEF TrackedAfter
  <2>5. Got(st, r) = new
    BY <2>1 DEF Got, new
  <2> QED
    BY <1>4, <2>2, <2>3, <2>4, <2>5
<1>6. CASE Creates(test, pc, st)
  <2>1. st.do = "inject" /\ st.req.on # "chaos/" /\ Same(test, pc)
    BY <1>6 DEF Creates
  <2>2. Standing(test, pc + 1) = Standing(test, pc)
    BY <2>1, StandingMoves
  <2>3. TrackedAfter(st, r) = tracked
    BY <2>1 DEF TrackedAfter
  <2>4. Got(st, r) = new
    BY <2>1 DEF Got, new
  <2> QED
    BY <1>4, <2>2, <2>3, <2>4
<1>7. CASE Removes(test, pc, st)
  <2>1. st.do = "remove" /\ st.k \in FaultsOf(test) /\ RemovedAt(test)[st.k] = pc
    BY <1>7 DEF Removes
  <2>2. Standing(test, pc + 1) = Standing(test, pc) \ {st.k}
    BY <2>1, StandingMoves
  <2>3. TrackedAfter(st, r) = tracked \ {ids[st.k]} /\ Got(st, r) = ids
    BY <2>1 DEF TrackedAfter, Got
  <2> QED
    BY <2>2, <2>3
<1>8. CASE Lists(test, pc, st) \/ Probes(test, pc, st) \/ Sends(test, pc, st) \/ Polls(test, pc, st)
  <2>1. st.do \notin {"inject", "remove"} /\ Same(test, pc)
    BY <1>8 DEF Lists, Probes, Sends, Polls
  <2>2. Standing(test, pc + 1) = Standing(test, pc)
    BY <2>1, StandingMoves
  <2>3. TrackedAfter(st, r) = tracked /\ Got(st, r) = ids
    BY <2>1 DEF TrackedAfter, Got
  <2> QED
    BY <2>2, <2>3
<1> QED
  BY <1>5, <1>6, <1>7, <1>8 DEF StepFits

\* The test is content with the reply.
LEMMA Content ==
  ASSUME NEW st, ScriptFits(test), pc \in 1 .. Len(Script(test)), st = Script(test)[pc],
         StepFits(test, pc), NEW r, NEW s, ReplyFits(st, r, 0, s), since \in Nat
  PROVE  /\ ~Fatal(st, r)
         /\ st.do = "poll" /\ ~Holds(st, r) => Starving(test, pc)
         /\ ~(st.do = "poll" /\ ~Holds(st, r)) => ~Unmet(st, r)
<1>1. /\ ~Fatal(st, r) /\ (st.do \in {"remove", "list", "send"} => ~Unmet(st, r))
      /\ st.do = "poll" => (Holds(st, r) <=> ~Starving(test, pc))
      /\ st.do = "probe" => since + 0 \in st.least .. st.most
  BY DEF ReplyFits
<1>2. st.do = "probe" => ~Unmet(st, r)
  BY <1>1 DEF Unmet
<1>3. st.do = "inject" => ~Unmet(st, r)
  BY DEF Unmet
<1>4. st.do = "poll" /\ ~Starving(test, pc) => ~Unmet(st, r)
  <2> SUFFICES ASSUME st.do = "poll", ~Starving(test, pc) PROVE ~Unmet(st, r)
    OBVIOUS
  <2>1. Polls(test, pc, st)
    BY DEF StepFits, Injects, Creates, Removes, Lists, Probes, Sends
  <2>2. TRUE \in st.expect
    BY <2>1 DEF Polls
  <2> QED
    BY <2>2 DEF Unmet
<1>5. st.do \in {"inject", "remove", "list", "probe", "send", "poll"}
  BY DEF StepFits, Injects, Creates, Removes, Lists, Probes, Sends, Polls
<1> QED
  BY <1>1, <1>2, <1>3, <1>4, <1>5

\* The stub replies.
LEMMA FinishKeepsClean ==
  ASSUME CleanStep, Finish PROVE CleanInv' /\ UNCHANGED test
<1> USE DEF clientVars, bodyVars, sessionVars
<1> DEFINE st == Steps[pc]
           r == serving.reply
<1>1. serving # None /\ serving.left = 0 /\ serving' = None /\ UNCHANGED <<server, inbox>>
  BY DEF Finish
<1>2. mode = "wait" /\ serving.live /\ inbox = <<>>
  BY <1>1, CleanMeans DEF Alone
<1>3. Return(r)
  BY <1>1, <1>2 DEF Finish
<1>4. UNCHANGED <<attempt, mishaps, clean, before>>
  BY <1>3 DEF Return
<1>5. CASE pc = 0
  <2>1. InSetUp
    BY <1>5, CleanMeans
  <2>2. SetUpReturn(r) /\ r.status = 200
    BY <1>1, <1>3, <1>5, <2>1, CleanMeans DEF Return, InSetUp
  <2>3. mode' = "idle" /\ pc' = 1 /\ UNCHANGED <<test, verdict, ids, tracked, since>>
    BY <2>2 DEF SetUpReturn
  <2>4. Alone'
    BY <1>1, <1>2, <2>3 DEF Alone
  <2>5. /\ StateFits(test, 1, <<>>, before, server)
        /\ IdsFit(test, 1, <<>>, before, server.issued)
    BY <2>1, CleanMeans, FirstStepFits DEF InSetUp
  <2>6. InScript'
    BY <1>1, <1>4, <2>1, <2>3, <2>5 DEF InScript, InSetUp
  <2> QED
    BY <1>1, <1>4, <2>3, <2>4, <2>6, CleanMeans, CleanRunNext
<1>6. CASE pc # 0
  <2>1. /\ InBody /\ ~InTearDown /\ InScript /\ pc \in 1 .. Len(Script(test))
        /\ st = Script(test)[pc]
    BY <1>2, <1>6, CleanMeans DEF Steps
  <2>2. BodyReturn(st, r)
    BY <1>3, <1>6, <2>1 DEF Return
  <2>3. /\ ReplyFits(st, r, 0, server) /\ tracked \subseteq {ids[n] : n \in Standing(test, pc)}
        /\ IdsFit(test, pc, ids, before, server.issued)
    BY <1>1, <2>1 DEF InScript
  <2>4. StepFits(test, pc) /\ ScriptFits(test)
    BY <2>1, CleanMeans DEF ScriptFits
  <2> HIDE DEF st, r
  <2>5. /\ ~Fatal(st, r)
        /\ st.do = "poll" /\ ~Holds(st, r) => Starving(test, pc)
        /\ ~(st.do = "poll" /\ ~Holds(st, r)) => ~Unmet(st, r)
    BY <2>1, <2>3, <2>4, CleanMeans, Content
  <2>6. CASE st.do = "poll" /\ ~Holds(st, r)
    <3>1. mode' = "pause" /\ UNCHANGED <<pc, ids, tracked, since, verdict, test>>
      BY <2>2, <2>5, <2>6 DEF BodyReturn
    <3>2. Alone'
      BY <1>1, <1>2, <3>1 DEF Alone
    <3>3. StateFits(test, pc, ids, before, server)
      BY <2>3, <2>6 DEF ReplyFits
    <3>4. InBody' /\ ~InTearDown'
      BY <2>1, <3>1 DEF InBody, InTearDown, Steps
    <3>5. InScript'
      BY <1>1, <1>4, <2>3, <2>5, <2>6, <3>1, <3>3, <3>4 DEF InScript
    <3> QED
      BY <1>1, <1>4, <1>6, <3>1, <3>2, <3>5, CleanMeans, CleanRunNext
  <2>7. CASE ~(st.do = "poll" /\ ~Holds(st, r))
    <3>1. /\ Advance(Unmet(st, r)) /\ ids' = IF st.do = "inject" THEN Append(ids, r.id) ELSE ids
          /\ tracked' = TrackedAfter(st, r) /\ mode' = "idle" /\ UNCHANGED test
      BY <2>2, <2>5, <2>7 DEF BodyReturn
    <3>2. pc' = pc + 1 /\ since' = 0 /\ verdict' = verdict /\ ids' = Got(st, r)
      BY <2>5, <2>7, <3>1 DEF Advance, Got
    <3>3. Alone'
      BY <1>1, <1>2, <3>1 DEF Alone
    <3>4. tracked' \subseteq {ids'[n] : n \in Standing(test, pc + 1)}
      <4>1. before \in Nat /\ server.issued \in Nat
        BY CleanMeans
      <4>2. TrackedAfter(st, r) \subseteq {Got(st, r)[n] : n \in Standing(test, pc + 1)}
        BY <2>1, <2>3, <2>4, <4>1, TrackedFits
      <4> QED
        BY <3>1, <3>2, <4>2
    <3>5. StateFits(test, pc + 1, Got(st, r), before, server)
      BY <2>3 DEF ReplyFits
    <3>6. IdsFit(test, pc + 1, Got(st, r), before, server.issued)
      BY <3>5 DEF StateFits
    <3>7. InScript'
      BY <1>1, <1>4, <3>1, <3>2, <3>4, <3>5, <3>6 DEF InScript
    <3>8. pc' # 0
      BY <2>1, <3>2
    <3> QED
      BY <1>1, <1>4, <3>1, <3>2, <3>3, <3>7, <3>8, CleanMeans, CleanRunNext
  <2> QED
    BY <2>6, <2>7
<1> QED
  BY <1>5, <1>6

\* A test starts, issues a request, gives up polling for what it is not meant
\* to see, or ends.
LEMMA BodyKeepsClean ==
  ASSUME CleanStep, PollGivesUp \/ Issue \/ CleanUp \/ EndTest PROVE CleanInv'
<1> USE DEF stubVars, clientVars, bodyVars, sessionVars, pollVars
<1>1. mode = "idle" /\ inbox = <<>> /\ serving = None
  BY CleanMeans DEF Alone, PollGivesUp, TimeIsUp, Issue, CleanUp, EndTest
<1>2. CASE PollGivesUp
  <2> DEFINE st == Steps[pc]
  <2>1. /\ InBody /\ st.do = "poll" /\ since >= st.upto /\ Advance(FALSE \notin st.expect)
        /\ UNCHANGED <<server, inbox, serving, attempt, mode, ids, tracked, test, mishaps, clean, before>>
    BY <1>2 DEF PollGivesUp, TimeIsUp
  <2>2. InScript /\ pc \in 1 .. Len(Script(test)) /\ st = Script(test)[pc] /\ ScriptFits(test)
    BY <2>1, CleanMeans DEF Steps
  <2>3. StepFits(test, pc)
    BY <2>2 DEF ScriptFits
  <2> HIDE DEF st
  <2>4. Polls(test, pc, st)
    BY <2>1, <2>2, <2>3 DEF StepFits, Injects, Creates, Removes, Lists, Probes, Sends
  <2>5. Starving(test, pc)
    <3>1. since # 0
      BY <2>1, <2>4 DEF Polls
    <3> QED
      BY <1>1, <2>2, <3>1 DEF InScript
  <2>6. FALSE \in st.expect
    <3>1. ~Gone(test, pc)
      BY <2>2, <2>5, StandingMoves DEF Starving, Stands
    <3>2. st.cond = "done"
      BY <2>2, <2>5 DEF Starving
    <3> QED
      BY <2>4, <3>1, <3>2 DEF Polls
  <2>7. pc' = pc + 1 /\ since' = 0 /\ verdict' = verdict
    BY <2>1, <2>6 DEF Advance
  <2>8. Ready
    BY <1>1, <2>2, CleanMeans DEF Ready, InScript
  <2>9. StateFits(test, pc + 1, ids, before, server)
    BY <2>1, <2>4, <2>8, LookFits DEF Polls, st
  <2>10. IdsFit(test, pc + 1, ids, before, server.issued)
    BY <2>9 DEF StateFits
  <2>11. Standing(test, pc + 1) = Standing(test, pc)
    BY <2>2, <2>4, StandingMoves DEF Polls
  <2>12. Alone'
    BY <1>1, <2>1 DEF Alone
  <2>13. InScript'
    BY <1>1, <2>1, <2>2, <2>7, <2>9, <2>10, <2>11 DEF InScript
  <2>14. pc' # 0
    BY <2>2, <2>7
  <2> QED
    BY <1>1, <2>1, <2>7, <2>12, <2>13, <2>14, CleanMeans, CleanRunNext
<1>3. CASE Issue
  <2>1. /\ InBody /\ mode' = "send" /\ attempt' = 0
        /\ UNCHANGED <<server, inbox, serving, pc, ids, tracked, since, verdict, test, mishaps,
                       clean, before>>
    BY <1>3 DEF Issue, StartCall
  <2>2. InScript /\ pc \in 1 .. Len(Script(test)) /\ ~InTearDown
    BY <2>1, CleanMeans
  <2>3. Alone'
    BY <1>1, <2>1 DEF Alone
  <2>4. InBody' /\ ~InTearDown'
    BY <2>1, <2>2 DEF InBody, InTearDown, Steps
  <2>5. InScript'
    BY <1>1, <2>1, <2>2, <2>4 DEF InScript
  <2>6. pc' # 0 /\ UNCHANGED attempt
    BY <2>1, <2>2, CleanMeans
  <2> QED
    BY <2>1, <2>3, <2>5, <2>6, CleanMeans, CleanRunNext
<1>4. ~CleanUp
  <2> SUFFICES ASSUME CleanUp PROVE FALSE
    OBVIOUS
  <2>1. InTearDown /\ tracked # {}
    BY DEF CleanUp
  <2>2. InScript /\ pc = Len(Script(test)) + 1 /\ ScriptFits(test)
    BY <2>1, CleanMeans
  <2>3. Standing(test, pc) = {}
    BY <2>2, StandingEnds
  <2> QED
    BY <2>1, <2>2, <2>3 DEF InScript
<1>5. CASE EndTest
  <2>1. test' = None /\ UNCHANGED <<verdict, mishaps>>
    BY <1>5 DEF EndTest
  <2> QED
    BY <2>1, CleanMeans DEF CleanInv
<1> QED
  BY <1>2, <1>3, <1>4, <1>5

\* The client of such a test never times out.
LEMMA NoTimeOut ==
  ASSUME CleanStep, TimeOut PROVE FALSE
<1>1. ReadTimeout > Longest /\ ReadTimeout \in Nat /\ Backlog \in Nat /\ clock \in Nat
  BY CleanMeans, SessionConfig DEF CleanStep, RoomAndTime, SessionConfig
<1>2. CASE mode = "wait" /\ clock >= ReadTimeout
  <2>1. clock = 0 \/ (serving # None /\ clock + serving.left <= Longest)
    BY <1>2, CleanMeans DEF Alone
  <2>2. serving # None => serving.left \in Nat
    BY DEF CleanStep, PollInv, LoopInv, StubInv, ServingOK
  <2>3. clock <= Longest
    BY <1>1, <2>1, <2>2 DEF Longest
  <2> QED
    BY <1>1, <1>2, <2>3 DEF Longest
<1>3. CASE mode = "send" /\ ~Room
  <2>1. inbox = <<>>
    BY <1>3, CleanMeans DEF Alone
  <2>2. Room
    BY <1>1, <2>1 DEF Room
  <2> QED
    BY <1>3, <2>2
<1> QED
  BY <1>2, <1>3 DEF TimeOut

\* The client connects, does not time out, and resumes after a pause.
LEMMA SocketKeepsClean ==
  ASSUME CleanStep, Connect \/ TimeOut \/ Resume PROVE CleanInv'
<1> USE DEF stubVars, clientVars, bodyVars, sessionVars, pollVars
<1>1. CASE Connect
  <2> DEFINE e == [req |-> call, live |-> TRUE]
  <2>1. /\ mode = "send" /\ inbox' = Append(inbox, e) /\ mode' = "wait" /\ clock' = 0
        /\ UNCHANGED <<server, serving, call, attempt, pc, ids, tracked, since, verdict, test,
                       mishaps, clean, before>>
    BY <1>1 DEF Connect
  <2>2. inbox = <<>> /\ serving = None
    BY <2>1, CleanMeans DEF Alone
  <2>3. inbox' = <<e>>
    BY <2>1, <2>2
  <2>4. Alone'
    BY <2>1, <2>2, <2>3 DEF Alone
  <2>5. CASE pc = 0
    <3>1. InSetUp'
      BY <2>1, <2>2, <2>5, CleanMeans DEF InSetUp
    <3> QED
      BY <2>1, <2>4, <2>5, <3>1, CleanMeans, CleanRunNext
  <2>6. CASE pc # 0
    <3>1. InScript /\ ~InTearDown
      BY <2>1, <2>6, CleanMeans DEF InScript
    <3>2. InBody' = InBody /\ InTearDown' = InTearDown
      BY <2>1 DEF InBody, InTearDown, Steps
    <3>3. InScript'
      BY <2>1, <2>2, <3>1, <3>2 DEF InScript
    <3> QED
      BY <2>1, <2>4, <2>6, <3>3, CleanMeans, CleanRunNext
  <2> QED
    BY <2>5, <2>6
<1>2. ~TimeOut
  BY NoTimeOut
<1>3. CASE Resume
  <2>1. /\ mode = "pause" /\ mode' = "idle"
        /\ UNCHANGED <<server, inbox, serving, attempt, pc, ids, tracked, since, verdict, test,
                       mishaps, clean, before>>
    BY <1>3, CleanMeans DEF Resume
  <2>2. inbox = <<>> /\ serving = None /\ pc # 0 /\ InScript
    BY <2>1, CleanMeans DEF Alone, InSetUp
  <2>3. Alone'
    BY <2>1, <2>2 DEF Alone
  <2>4. InBody' = InBody
    BY <2>1 DEF InBody, Steps
  <2>5. InScript'
    BY <2>1, <2>2, <2>4 DEF InScript
  <2> QED
    BY <2>1, <2>2, <2>3, <2>5, CleanMeans, CleanRunNext
<1> QED
  BY <1>1, <1>2, <1>3

\* Time passes: for the request that the stub sleeps on, or for a poll that is
\* meant to see nothing.
LEMMA TickKeepsClean ==
  ASSUME CleanStep, Tick PROVE CleanInv'
<1> USE DEF stubVars, clientVars, bodyVars, sessionVars, pollVars
<1> DEFINE d == Min(Timers)
           limit == IF Steps[pc].do = "poll" THEN Steps[pc].upto ELSE Cap
<1>1. /\ d \in Nat /\ mode # "idle" /\ (serving # None => d <= serving.left)
  BY TickMeans DEF CleanStep, PollInv
<1>2. /\ serving' = IF serving = None THEN None ELSE [serving EXCEPT !.left = serving.left - d]
      /\ clock' = CASE test = None -> clock
                    [] mode \in {"wait", "send"} -> clock + d
                    [] OTHER -> clock - d
      /\ since' = IF Timed THEN Min({since + d, limit}) ELSE since
      /\ UNCHANGED <<server, inbox, attempt, call, mode, pc, ids, tracked, verdict, test, mishaps,
                     clean, before>>
      /\ 0 \notin Timers
  BY DEF Tick
<1> HIDE DEF d, limit
<1>3. test # None /\ mode \in {"wait", "pause"} /\ (mode = "wait" => serving # None)
  <2>1. mode # "send"
    <3>1. mode = "send" => inbox = <<>> /\ Backlog \in Nat
      BY CleanMeans DEF Alone, CleanStep, RoomAndTime
    <3>2. mode = "send" => Room
      BY <3>1 DEF Room
    <3> QED
      BY <1>2, <3>2 DEF Timers, CleanStep
  <2>2. serving = None /\ inbox # <<>> => 0 \in Timers
    BY DEF Timers
  <2>3. mode = "wait" /\ serving = None => inbox # <<>>
    <3>1. \A x : Len(<<x>>) # Len(<<>>)
      OBVIOUS
    <3>2. \A x : <<x>> # <<>>
      BY <3>1
    <3> QED
      BY <3>2, CleanMeans DEF Alone
  <2> QED
    BY <1>1, <1>2, <2>1, <2>2, <2>3, CleanMeans DEF CleanStep
<1>4. Steps' = Steps /\ InBody' = InBody /\ InTearDown' = InTearDown
  BY <1>2 DEF Steps, InBody, InTearDown
<1>5. serving # None =>
        /\ serving' # None /\ serving'.live = serving.live /\ serving'.reply = serving.reply
        /\ serving'.left = serving.left - d /\ serving.left \in Nat
  <2> SUFFICES ASSUME serving # None
               PROVE  /\ serving' # None /\ serving'.live = serving.live /\ serving'.reply = serving.reply
                      /\ serving'.left = serving.left - d /\ serving.left \in Nat
    OBVIOUS
  <2>1. serving \in [live : BOOLEAN, left : Nat, reply : {serving.reply}]
    BY DEF CleanStep, PollInv, LoopInv, StubInv, ServingOK
  <2>2. serving' = [live |-> serving.live, left |-> serving.left - d, reply |-> serving.reply]
    BY <1>2, <2>1
  <2> QED
    BY <2>1, <2>2 DEF CleanStep, RoomAndTime
<1>6. Alone'
  <2>1. CASE mode = "pause"
    BY <1>2, <2>1, CleanMeans DEF Alone
  <2>2. CASE mode = "wait"
    <3>1. inbox = <<>> /\ serving # None /\ serving.live /\ clock + serving.left <= Longest
      BY <1>3, <2>2, CleanMeans DEF Alone
    <3>2. clock' = clock + d /\ clock \in Nat
      BY <1>2, <1>3, <2>2, CleanMeans
    <3>3. clock' + serving'.left = clock + serving.left
      BY <1>1, <1>5, <3>1, <3>2
    <3> QED
      BY <1>2, <1>5, <2>2, <3>1, <3>3 DEF Alone
  <2> QED
    BY <1>3, <2>1, <2>2
<1>7. CASE pc = 0
  <2>1. InSetUp /\ ~Timed
    BY <1>7, CleanMeans DEF Timed, InBody
  <2>2. InSetUp'
    BY <1>2, <1>5, <2>1 DEF InSetUp
  <2>3. since' \in Nat
    BY <1>2, <2>1, CleanMeans
  <2> QED
    BY <1>2, <1>6, <1>7, <2>2, <2>3, CleanMeans, CleanRunNext
<1>8. CASE pc # 0
  <2> DEFINE st == Steps[pc]
  <2>1. InScript /\ InBody /\ pc \in 1 .. Len(Script(test)) /\ st = Script(test)[pc] /\ ScriptFits(test)
    BY <1>3, <1>8, CleanMeans DEF InScript, Steps
  <2>2. StepFits(test, pc) /\ since \in Nat
    BY <2>1, CleanMeans DEF ScriptFits
  <2>3. limit \in Nat /\ (st.do # "poll" => limit = 5)
    BY <2>2, <2>1 DEF limit, Cap, StepFits, Polls, Injects, Creates, Removes, Lists, Probes, Sends
  <2>4. Min({since + d, limit}) \in Nat /\ (since + d <= limit => Min({since + d, limit}) = since + d)
    <3>1. since + d \in Nat
      BY <1>1, <2>2
    <3>2. \E x \in {since + d, limit} : \A y \in {since + d, limit} : x <= y
      BY <2>3, <3>1
    <3> QED
      BY <2>3, <3>1, <3>2 DEF Min
  <2>5. since' \in Nat
    BY <1>2, <2>2, <2>4
  <2>6. CASE serving = None
    <3>1. mode = "pause" /\ Starving(test, pc) /\ serving' = None
      BY <1>2, <1>3, <2>1, <2>6 DEF InScript
    <3>2. InScript'
      BY <1>2, <1>4, <2>1, <2>6, <3>1 DEF InScript
    <3> QED
      BY <1>2, <1>3, <1>6, <1>8, <2>5, <3>2, CleanMeans, CleanRunNext
  <2>7. CASE serving # None
    <3>1. ReplyFits(st, serving.reply, serving.left, server)
      BY <2>1, <2>7 DEF InScript
    <3>2. ASSUME st.do = "probe" PROVE since' + serving'.left = since + serving.left
      <4>1. since + serving.left <= Longest
        BY <3>1, <3>2 DEF ReplyFits
      <4>2. since + d <= 5
        BY <1>1, <1>5, <2>2, <2>7, <4>1 DEF Longest
      <4>3. Timed
        BY <2>1, <3>2 DEF Timed
      <4>4. since' = since + d
        BY <1>2, <2>3, <2>4, <3>2, <4>2, <4>3
      <4> QED
        BY <1>1, <1>5, <2>2, <2>7, <4>4
    <3>3. ReplyFits(Steps[pc], serving.reply, serving.left, server)'
      <4>1. UNCHANGED <<Steps[pc], serving.reply, server, ids, test, pc, before>>
        BY <1>2, <1>4, <1>5, <2>7
      <4>2. StateFits(test, pc + 1, Got(Steps[pc], serving.reply), before, server)'
        BY <3>1, <4>1 DEF ReplyFits, Got
      <4>3. ~Fatal(Steps[pc], serving.reply)'
        BY <3>1, <4>1 DEF ReplyFits, Fatal
      <4>4. (Steps[pc].do \in {"remove", "list", "send"} => ~Unmet(Steps[pc], serving.reply))'
        BY <3>1, <4>1 DEF ReplyFits, Unmet
      <4>5. (Steps[pc].do = "poll" => /\ Holds(Steps[pc], serving.reply) <=> ~Starving(test, pc)
                                      /\ StateFits(test, pc, ids, before, server))'
        BY <1>4, <3>1, <4>1 DEF ReplyFits, Holds
      <4>6. (Steps[pc].do = "probe" =>
               /\ since + serving.left \in Steps[pc].least .. Steps[pc].most
               /\ since + serving.left <= Longest)'
        BY <3>1, <3>2, <4>1 DEF ReplyFits
      <4> QED
        BY <4>2, <4>3, <4>4, <4>5, <4>6 DEF ReplyFits
    <3>4. mode = "wait"
      BY <2>7, CleanMeans DEF Alone
    <3>5. InScript'
      BY <1>2, <1>4, <1>5, <2>1, <2>7, <3>3, <3>4 DEF InScript
    <3> QED
      BY <1>2, <1>3, <1>6, <1>8, <2>5, <3>5, CleanMeans, CleanRunNext
  <2> QED
    BY <2>6, <2>7
<1> QED
  BY <1>7, <1>8

\* The faults on the stub are those of the test.
LEMMA OwnFaults ==
  ASSUME CleanStep, NEW f \in server.faults
  PROVE  ~(f.id <= before)
<1>1. pc # 0 /\ InScript /\ ScriptFits(test) /\ pc \in Nat /\ before \in Nat /\ server.issued \in Nat
  BY CleanMeans DEF InSetUp
<1>2. ASSUME NEW k \in Nat, k >= 1, NEW got, StateFits(test, k, got, before, server)
      PROVE  ~(f.id <= before)
  <2>1. IdsFit(test, k, got, before, server.issued) /\ server.faults = FaultsAt(test, k, got)
    BY <1>2 DEF StateFits
  <2>2. PICK n \in Standing(test, k) : f = FaultAt(test, n, got)
    BY <2>1 DEF FaultsAt
  <2>3. n \in 1 .. Len(got)
    BY <1>1, <1>2, <2>1, <2>2, IdsUsed
  <2>4. f.id = got[n] /\ got[n] \in before + 1 .. server.issued
    BY <2>1, <2>2, <2>3 DEF FaultAt, IdsFit
  <2> QED
    BY <1>1, <2>4
<1>3. CASE serving = None
  <2>1. StateFits(test, pc, ids, before, server)
    BY <1>1, <1>3 DEF InScript
  <2> QED
    BY <1>1, <1>2, <2>1
<1>4. CASE serving # None
  <2>1. StateFits(test, pc + 1, Got(Steps[pc], serving.reply), before, server)
    BY <1>1, <1>4 DEF InScript, ReplyFits
  <2> QED
    BY <1>1, <1>2, <2>1
<1> QED
  BY <1>3, <1>4

\* A test process is killed; nobody deletes a fault of the test by hand.
LEMMA MishapKeepsClean ==
  ASSUME CleanStep, KillTest \/ \E f \in server.faults : DeleteByHand(f.id) PROVE CleanInv'
<1>1. CASE KillTest
  BY <1>1, CleanMeans DEF KillTest, CleanInv
<1>2. ASSUME NEW f \in server.faults, DeleteByHand(f.id) PROVE FALSE
  BY <1>2, OwnFaults DEF DeleteByHand, CleanStep
<1> QED
  BY <1>1, <1>2

\* A test starts.
LEMMA StartKeepsClean ==
  ASSUME LoopInv, mishaps \in Nat, NEW t \in Tests, StartTest(t) PROVE CleanInv'
<1> USE DEF stubVars
<1>1. /\ mode' = "send" /\ call' = Get("health") /\ attempt' = 0 /\ pc' = 0 /\ ids' = <<>>
      /\ tracked' = {} /\ since' = 0 /\ verdict' = "ok" /\ clean' = Quiet /\ before' = server.issued
      /\ UNCHANGED <<server, inbox, serving, mishaps>>
  BY DEF StartTest, StartCall
<1>2. server.issued \in Nat
  BY IssuedIsNat DEF LoopInv
<1> SUFFICES ASSUME Quiet PROVE CleanRun'
  BY <1>1 DEF CleanInv
<1>3. Alone' /\ InSetUp'
  BY <1>1 DEF Quiet, Alone, InSetUp
<1> QED
  BY <1>1, <1>2, <1>3 DEF CleanRun

\* Between two tests.
LEMMA BetweenKeepsClean ==
  ASSUME LoopInv, CleanInv, test = None,
         \/ Progress \/ KillTest \/ \E f \in server.faults : DeleteByHand(f.id)
  PROVE  CleanInv'
<1> USE DEF stubVars, clientVars, bodyVars, sessionVars, pollVars
<1>1. mode = "idle" /\ (serving # None => ~serving.live)
  BY DEF LoopInv, SessionInv, LiveInv
<1>2. ASSUME Progress PROVE UNCHANGED <<verdict, test, mishaps, clean>>
  BY <1>1, <1>2 DEF Progress, PollGivesUp, TimeIsUp, Issue, CleanUp, EndTest, InBody, InTearDown, Connect,
     TimeOut, Resume, Serve, Finish, Tick
<1>3. ~KillTest
  BY DEF KillTest
<1>4. ASSUME NEW f \in server.faults, DeleteByHand(f.id)
      PROVE  UNCHANGED <<verdict, test, clean>> /\ mishaps' = mishaps + 1
  BY <1>4 DEF DeleteByHand
<1> QED
  BY <1>2, <1>3, <1>4 DEF CleanInv

-------------------------------------------------------------------------------
(* Such a test passes and leaves nothing behind. *)

\* Every step keeps the invariant.
LEMMA StepKeepsClean ==
  ASSUME RoomAndTime PROVE PollInv /\ CleanInv /\ [Next]_vars => CleanInv'
<1> SUFFICES ASSUME PollInv, CleanInv, [Next]_vars PROVE CleanInv'
  OBVIOUS
<1> USE DEF stubVars, clientVars, bodyVars, sessionVars, pollVars
<1>1. LoopInv /\ mishaps \in Nat
  BY DEF PollInv, CleanInv
<1>2. CASE UNCHANGED vars
  <2>1. UNCHANGED <<server, inbox, serving, call, attempt, mode, clock, test, pc, ids, tracked,
                    since, verdict, mishaps, clean, before>>
    BY <1>2 DEF vars
  <2>2. InBody' = InBody /\ InTearDown' = InTearDown /\ Steps' = Steps
    BY <2>1 DEF InBody, InTearDown, Steps
  <2>3. ReplyFits(Steps[pc], serving.reply, serving.left, server)'
          <=> ReplyFits(Steps[pc], serving.reply, serving.left, server)
    BY <2>1, <2>2 DEF ReplyFits, Got, Fatal, Unmet, Holds
  <2>4. Alone' = Alone /\ InSetUp' = InSetUp /\ InScript' = InScript
    BY <2>1, <2>2, <2>3 DEF Alone, InSetUp, InScript
  <2>5. CleanRun' = CleanRun
    BY <2>1, <2>4 DEF CleanRun
  <2> QED
    BY <2>1, <2>5 DEF CleanInv
<1>3. CASE \E t \in Tests : StartTest(t)
  BY <1>1, <1>3, StartKeepsClean
<1>4. CASE Progress \/ KillTest \/ \E f \in server.faults : DeleteByHand(f.id)
  <2>1. CASE clean /\ test # None
    <3>1. CleanStep
      BY <2>1 DEF CleanStep
    <3> QED
      BY <1>4, <3>1, BodyKeepsClean, SocketKeepsClean, ServeKeepsClean, FinishKeepsClean,
         TickKeepsClean, MishapKeepsClean DEF Progress
  <2>2. CASE test = None
    BY <1>1, <1>4, <2>2, BetweenKeepsClean
  <2>3. CASE ~clean /\ test # None
    <3>1. clean' = clean /\ mishaps' \in Nat
      <4>1. Progress => UNCHANGED <<clean, mishaps>>
        BY DEF Progress, PollGivesUp, Issue, CleanUp, EndTest, Connect, TimeOut, AttemptFails,
           Resume, Serve, Finish, Return, Tick, StartCall
      <4>2. KillTest => clean' = clean /\ mishaps' = mishaps + 1
        BY DEF KillTest
      <4>3. (\E f \in server.faults : DeleteByHand(f.id)) => clean' = clean /\ mishaps' = mishaps + 1
        BY DEF DeleteByHand
      <4> QED
        BY <1>1, <1>4, <4>1, <4>2, <4>3
    <3> QED
      BY <2>3, <3>1 DEF CleanInv
  <2> QED
    BY <2>1, <2>2, <2>3
<1> QED
  BY <1>2, <1>3, <1>4 DEF Next

\* It holds throughout, together with the earlier ones.
LEMMA CleanInvHolds ==
  ASSUME RoomAndTime PROVE Spec => [](PollInv /\ CleanInv)
<1>1. Init => PollInv /\ CleanInv
  BY InitPollInv DEF Init, CleanInv
<1>2. PollInv /\ CleanInv /\ [Next]_vars => (PollInv /\ CleanInv)'
  BY StepKeepsPoll, StepKeepsClean
<1> QED
  BY <1>1, <1>2, PTL DEF Spec

\* A test that begins on an idle stub without faults runs and passes, whatever
\* earlier tests left behind and whatever becomes of later ones, provided that
\* its client waits longer than the stub may sleep.
THEOREM CleanTestsSucceed ==
  ASSUME RoomAndTime PROVE Spec => []CleanTestsPass
<1>1. CleanInv => CleanTestsPass
  BY DEF CleanInv, CleanTestsPass
<1> QED
  BY <1>1, CleanInvHolds, PTL

\* Only its own end, or a kill, ends such a test.
LEMMA LeavesNothing ==
  ASSUME CleanStep, [Next]_vars, test' = None, mishaps' = mishaps PROVE Quiet'
<1> USE DEF stubVars, clientVars, bodyVars, sessionVars, pollVars
<1>1. test' # test /\ mishaps \in Nat
  BY CleanMeans DEF CleanStep
<1>2. ~TimeOut
  BY NoTimeOut
<1>3. EndTest
  <2>1. ~ \E t \in Tests : StartTest(t)
    BY DEF StartTest, CleanStep
  <2>2. ~Finish
    BY <1>1, FinishKeepsClean
  <2>3. ~KillTest
    BY <1>1 DEF KillTest
  <2> QED
    BY <1>1, <1>2, <2>1, <2>2, <2>3 DEF Next, Progress, vars, PollGivesUp, Issue, CleanUp, Connect, Resume,
       Serve, Tick, DeleteByHand, StartCall
<1>4. mode = "idle" /\ InTearDown /\ UNCHANGED <<server, inbox, serving>>
  BY <1>3 DEF EndTest
<1>5. InScript /\ pc = Len(Script(test)) + 1 /\ ScriptFits(test) /\ inbox = <<>> /\ serving = None
  BY <1>4, CleanMeans DEF Alone
<1>6. server.faults = FaultsAt(test, pc, ids)
  BY <1>5 DEF InScript, StateFits
<1>7. server.faults = {}
  BY <1>5, <1>6, StandingEnds DEF FaultsAt
<1> QED
  BY <1>4, <1>5, <1>7 DEF Quiet

\* It leaves no fault and no request behind, unless it is killed.
THEOREM CleanTestsLeaveNothing ==
  ASSUME RoomAndTime PROVE Spec => CleanTestsStayClean
<1>1. PollInv /\ CleanInv /\ [Next]_vars =>
        [clean /\ test # None /\ test' = None /\ mishaps' = mishaps => Quiet']_vars
  BY LeavesNothing DEF CleanStep
<1> QED
  BY <1>1, CleanInvHolds, PTL DEF Spec, CleanTestsStayClean

-------------------------------------------------------------------------------
(* The smoke test of the stub.                                             *)

\* In any state of the stub, reachable or not.
LEMMA SmokeTestPasses ==
  ASSUME NEW s, NEW i \in 1 .. 5
  PROVE  /\ Handle(s, SmokeTest[i].req).status = SmokeTest[i].expect
         /\ SmokeTest[i].expect >= 400 => Handle(s, SmokeTest[i].req).to = s
<1>1. CASE i = 1
  BY <1>1 DEF SmokeTest, Ask, PostChaos, ChaosTypes, Handle, DoPost, PostFault, Reply
<1>2. CASE i = 2
  BY <1>2 DEF SmokeTest, Ask, PostChaos, ChaosTypes, Handle, DoPost, PostFault, Reply
<1>3. CASE i = 3
  BY <1>3 DEF SmokeTest, Ask, PostChaos, ChaosTypes, Handle, DoPost, PostFault, Reply
<1>4. CASE i = 4
  BY <1>4 DEF SmokeTest, Ask, PostChaos, ChaosTypes, Handle, DoPost, PostFault, Reply, AddFault, Created
<1>5. CASE i = 5
  BY <1>5 DEF SmokeTest, Ask, PostChaos, ChaosTypes, Handle, DoPost, PostFault, Reply
<1> QED
  BY <1>1, <1>2, <1>3, <1>4, <1>5

\* The requests of scripts/test-mock-agamemnon.py get the statuses it expects
\* whatever tests ran, were killed or left behind before it.
THEOREM SmokeTestIsHarmless == Spec => []DiagnosticsAreHarmless
<1>1. DOMAIN SmokeTest = 1 .. 5
  BY DEF SmokeTest
<1>2. DiagnosticsAreHarmless
  BY <1>1, SmokeTestPasses DEF DiagnosticsAreHarmless
<1> QED
  BY <1>2, PTL
===============================================================================
