------------------------------- MODULE Delivery -------------------------------
(***************************************************************************)
(* From a pull request to an image: the merge queue, whose verdicts are    *)
(* those of the workflows that the queued commit itself brings along, held *)
(* to the policy of scripts/test-merge-queue-policy.py by one of their own *)
(* jobs, and the images that are published from main.                      *)
(*                                                                         *)
(* A behaviour is about one target, a validator of _required.yml or a      *)
(* required context of another workflow.  A pull request may edit the      *)
(* workflows around the target, and may contain the flaw that the target   *)
(* is there to find, or one of two halves, which are a flaw only when put  *)
(* together, or the change that lets the two halves go together.           *)
(***************************************************************************)
EXTENDS WorkflowRuns

CONSTANTS PR, Tags, Branches, MaxPushes, MaxReleases, MaxEntriesToBuild, MaxEntriesToMerge,
  Forks,        \* the pull requests that come from a fork
  Validators,   \* the validators of _required.yml and
  Contexts,     \* the contexts of other workflows that behaviours are about
  Editor,       \* the pull request that may edit the workflows
  Edits,        \* bound: the edits that are looked at
  Flaws         \* bound: the flaws of the pull requests, as functions on PR

ASSUME DeliveryConstants ==
  /\ Editor \in PR /\ Forks \subseteq PR /\ "main" \in Branches /\ "none" \in Edits
  /\ MaxPushes \in Nat /\ MaxReleases \in Nat

VARIABLES content, head, main, queue, container, runs, registry, attested, released

Targets == Validators \cup Contexts
HeadEvent(p) == IF p \in Forks THEN "fork" ELSE "pull_request"

EmitterOf(context) ==
  LET j == CHOOSE j \in Jobs : j.context = context IN <<context, j.wf, j.id>>

\* The job of a workflow that does the work its contexts are about.
SuiteOf(wf) ==
  CASE wf = BuildTest -> "build-test" [] wf = Coverage -> "coverage"
    [] wf = Static -> "clang-tidy" [] wf = Container -> "docker"
    [] wf = Integration -> "integration"

\* The job that finds the flaw.
FlawOf(target) == IF target \in Validators THEN target ELSE SuiteOf(EmitterOf(target)[2])

\* The fixtures that a validator is the target of, with what is expected of them.
Expected(target) ==
  IF target = Secrets THEN RequiredFixtures @@ GitleaksFixtures ELSE RequiredFixtures

IsFanIn(context) == EmitterOf(context)[2] # Integration

EditsOf(target) ==
  Edits \cap
    IF target \in Validators THEN DOMAIN Expected(target) \cup RequiredEdits \cup InnocentEdits
    ELSE {"none"} \cup SuiteEdits
         \cup (IF IsFanIn(target) THEN FanInEdits ELSE IntegrationEdits)
         \cup (IF target = "package" THEN PublishEdits ELSE {})

Edited(edit, target) ==
  CASE edit \in WorkflowEdits ->
         LET f == EmitterOf(target) IN WorkflowEdit(Repository, edit, f, SuiteOf(f[2]))
    [] edit \in RequiredEdits -> RequiredEdit(Repository, edit, target)
    [] edit \in InnocentEdits -> InnocentEdit(Repository, edit, target)
    [] OTHER -> Fixture(Repository, edit, target)

\* Bound: only one pull request edits the workflows, at most with a whole flaw
\* besides.
Content(target, edit, flaws) ==
  [p \in PR |-> [target |-> target, edit |-> IF p = Editor THEN edit ELSE "none",
                 flaw |-> flaws[p]]]
Contents ==
  UNION {{c \in {Content(t, e, f) : e \in EditsOf(t), f \in Flaws} :
            c[Editor].edit # "none" => c[Editor].flaw \in {"none", "whole"}} : t \in Targets}

\* The edit and the flaws of a commit with these changes.
EditIn(changes) ==
  IF \E c \in changes : c.edit # "none" THEN (CHOOSE c \in changes : c.edit # "none").edit
  ELSE "none"
IsFlawed(changes) ==
  LET flaws == {c.flaw : c \in changes} IN
    "whole" \in flaws \/ ({"left", "right"} \subseteq flaws /\ "fix" \notin flaws)

\* Functions, so that each configuration is looked at once only.
Conclusions ==
  [target \in Targets |-> [edit \in EditsOf(target) |-> [flawed \in BOOLEAN |->
     [event \in Events |->
        Conclusion(Edited(edit, target), IF flawed THEN {FlawOf(target)} ELSE {}, event)]]]]

Accepted ==
  [target \in Targets |-> [edit \in EditsOf(target) |-> Accepts(Edited(edit, target))]]

Violations ==
  [target \in Validators |-> [edit \in EditsOf(target) \cap DOMAIN Expected(target) |->
     RequiredGraphViolations(Edited(edit, target))]]

ChecksSay(changes, event) ==
  LET target == (CHOOSE c \in changes : TRUE).target IN
    Conclusions[target][EditIn(changes)][IsFlawed(changes)][event]

Queue == INSTANCE MergeQueue WITH Conclusion <- ChecksSay
Publishing == INSTANCE ImagePublishing

queueVars == <<content, head, main, queue>>
publishVars == <<container, runs, registry, attested, released>>
vars == <<content, head, main, queue, container, runs, registry, attested, released>>

-------------------------------------------------------------------------------

\* The publish job runs on the events that the commit's own workflow says; the
\* token of a run for a fork may not push.
Publishes(event, commit) ==
  event \in Range(Edited(EditIn(Queue!Tree(commit)), content[Editor].target).publishes)

Publish(event, commit) ==
  IF Publishes(event, commit) THEN Publishing!StartPublish(commit) ELSE UNCHANGED publishVars

\* Bound: the other container jobs are looked at where releases are.
Init ==
  /\ Queue!QueueInit /\ Publishing!PublishInit
  /\ MaxReleases = 0 => container = Publishing!ContainerJob

CheckHead(p) == Queue!CheckHead(p) /\ Publish(HeadEvent(p), Append(main, p))
Enqueue(p) == Queue!Enqueue(p) /\ UNCHANGED publishVars
CheckGroup(i) == Queue!CheckGroup(i) /\ Publish("merge_group", queue[i].on)
Merge(n) == Queue!Merge(n) /\ Publish("push", queue[n].on)
Fail(i) == Queue!Fail(i) /\ UNCHANGED publishVars
TimeOut(i) == Queue!TimeOut(i) /\ UNCHANGED publishVars

\* Bound: these wait for the queue to be empty; neither reads what the other writes.
Quiet == queue = <<>>

\* The commits that a tag may be put on: those that main ever was, and those of
\* the branches of pull requests, as they were when nothing was merged.
Commits == {SubSeq(main, 1, n) : n \in 0..Len(main)} \cup {<<p>> : p \in PR}

Tag(tag, commit) ==
  /\ Quiet /\ Publishing!StartRelease(Publishing!Ref("tags", tag), commit)
  /\ UNCHANGED queueVars
Dispatch(branch, commit) ==
  /\ Quiet /\ (branch = "main" => commit = main)
  /\ Publishing!StartRelease(Publishing!Ref("heads", branch), commit)
  /\ UNCHANGED queueVars
RunStep == Quiet /\ Publishing!RunNext /\ UNCHANGED queueVars

Next ==
  \/ \E p \in PR : CheckHead(p) \/ Enqueue(p)
  \/ \E i \in DOMAIN queue : CheckGroup(i) \/ Merge(i) \/ Fail(i) \/ TimeOut(i)
  \/ \E commit \in Commits :
       (\E tag \in Tags : Tag(tag, commit)) \/ (\E branch \in Branches : Dispatch(branch, commit))
  \/ RunStep

\* The queue acts by itself on its first entry; nobody has to queue, tag or
\* answer anything.
Fairness ==
  /\ WF_vars(queue # <<>> /\ TimeOut(1)) /\ WF_vars(queue # <<>> /\ Fail(1))
  /\ WF_vars(\E i \in DOMAIN queue : Merge(i))

Spec == Init /\ [][Next]_vars /\ Fairness

-------------------------------------------------------------------------------

TypeOK ==
  /\ Queue!QueueTypeOK
  /\ container \in Publishing!ContainerJobs
  /\ runs \in Seq([flow : {"publish", "release"}, ref : Publishing!Refs, commit : Seq(PR),
                   done : SUBSET {"validated", "binary", "scanned", "pushed", "latest",
                                  "provenance", "sbom", "attested", "released"},
                   sbom : Publishing!Images \cup {Publishing!None}, alive : BOOLEAN])
  /\ registry \in [Publishing!Names -> Publishing!Images \cup {Publishing!None}]
  /\ \A a \in attested : a.subject \in Publishing!Images
  /\ \A r \in released : r.tag \in Publishing!Names

\* The edits that the script cannot tell from the workflows as they are, and
\* after which a commit with the flaw passes: it looks at the steps of the
\* validators only, of these at one, and of a fan-in at the words it consists
\* of, of that for the coverage at nothing.  Where several required contexts
\* follow one suite, the others still fail.  Unedited as well pass the flaws
\* that the command of schema-validation should find, and those of the
\* validators that the ruleset does not require.
Unguarded(target) ==
  IF target \in Contexts
  THEN {"hollowSuite"} \cup (CASE target = "package" -> {"fanInReports"}
                              [] target = "All Coverage Checks" -> FanInEdits
                              [] OTHER -> {})
  ELSE CASE target = "schema-validation" -> InnocentEdits \cup {"hollow", "jobCoe", "lastStep"}
         [] target = "lockfile-integrity" -> InnocentEdits \cup {"lastStep"}
         [] target = "security-dependency-scan" -> {"lastStep"}
         [] ContextOf(target) \notin EXPECTED_CONTEXTS -> InnocentEdits
         [] OTHER -> {}

\* The edits that the script rejects and that keep it from being run, or from
\* being heard: it is a step of the job schema-validation itself.
Unenforced(target) ==
  IF target = "schema-validation" THEN {"hollow", "jobCoe", "lastStep"} ELSE {}

\* What the checks say of the target, with the edit or without: the script
\* rejects each of its fixtures for the reason that it expects
\* (test_required_workflow_rejects_fail_open_topologies and the tests after it),
\* accepts the innocent edits, and keeps what it rejects red for each event
\* but for the edits of its own job.  A commit with the flaw passes the checks
\* of the merge group after the unguarded edits, and after no other.
PolicyIsSound ==
  LET target == content[Editor].target IN
    \A edit \in {"none", content[Editor].edit} :
      LET says == Conclusions[target][edit] IN
        /\ target \in Validators /\ edit \in DOMAIN Expected(target)
             => Expected(target)[edit] \in Violations[target][edit]
        /\ edit \in InnocentEdits => Accepted[target][edit]
        /\ ~Accepted[target][edit] /\ edit \notin Unenforced(target)
             => \A flawed \in BOOLEAN, event \in Events : says[flawed][event] # "green"
        /\ says[TRUE]["merge_group"] = "green" <=> edit \in Unguarded(target)

\* No flaw that a required check is there to find is ever on main, whether it
\* came as a whole or in halves that were fine each on its own, whichever stale
\* verdict let them in: but for the unguarded edits.
FlawsStayOut ==
  \A n \in DOMAIN main :
    LET changes == Queue!Tree(SubSeq(main, 1, n)) IN
      IsFlawed(changes) => EditIn(changes) \in Unguarded(content[Editor].target)

\* The merge group never accepts what a run for a pull request would refuse of
\* the same commit (docs/ci/merge-queue.md); the converse does not hold.
QueueIsNoLaxer ==
  \A i \in DOMAIN queue : \A event \in Events :
    LET changes == Queue!Tree(queue[i].on) IN
      ChecksSay(changes, "merge_group") = "green" => ChecksSay(changes, event) = "green"

\* What an attached SBOM lists is the image it is attached to, or that of a run
\* for another ref of the same name.
SbomIsOfANamesake == Publishing!SbomIsOfANamesake

\* No GitHub release appears before its image has both of its attestations.
ReleaseIsAttested == Publishing!ReleaseIsAttested

\* Every entry is merged or leaves the queue, even if the checks of the one
\* before it never answer.
EveryEntryLeaves == \A p \in PR : Queue!Queued(p) ~> ~Queue!Queued(p)

-------------------------------------------------------------------------------
(* What the repository says of itself.                                     *)

\* CHANGELOG.md (13): the attested SBOM is that of the pushed digest.
SbomDescribesItsSubject == Publishing!SbomDescribesItsSubject
===============================================================================
