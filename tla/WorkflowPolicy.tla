---------------------------- MODULE WorkflowPolicy ----------------------------
(***************************************************************************)
(* The CI configuration of the repository as data, the checks that         *)
(* scripts/test-merge-queue-policy.py makes of it, and what GitHub makes   *)
(* of the same data when it runs the workflows on a commit.                *)
(*                                                                         *)
(* A configuration is a set of jobs and the triggers of their workflows.   *)
(* A shell command is a sequence of words, where a word stands for a part  *)
(* of the text that no edit breaks up; a step is named after its job where *)
(* the script requires it.  What the script looks for in the docs, in the  *)
(* justfile, in the pre-commit configuration and among the permissions is  *)
(* left out, and so is the word Skip, which it refuses in a fan-in.        *)
(***************************************************************************)
EXTENDS Naturals, FiniteSets, Sequences, SequencesExt

Required == "_required.yml"
BuildTest == "build-test.yml"
Coverage == "code-coverage.yml"
Static == "static-analysis.yml"
Container == "container.yml"
Integration == "integration-tests.yml"
Release == "release.yml"

EXPECTED_CONTEXTS ==
  {"All Build/Test Checks", "All Coverage Checks", "All Static Analysis Checks",
   "build", "deps/version-sync", "install", "integration-tests", "lint", "package",
   "release", "schema-validation", "security/dependency-scan",
   "security/secrets-scan", "test", "typecheck", "unit-tests"}

EXPECTED_QUEUE_RULE ==
  [check_response_timeout_minutes |-> 60, grouping_strategy |-> "ALLGREEN",
   max_entries_to_build |-> 10, max_entries_to_merge |-> 5, merge_method |-> "SQUASH",
   min_entries_to_merge |-> 1, min_entries_to_merge_wait_minutes |-> 5]

EXPECTED_REQUIRED_WORKFLOWS ==
  {Required, BuildTest, Coverage, Container, Integration, Static}

EXPECTED_MERGE_GROUP_WORKFLOWS ==
  EXPECTED_REQUIRED_WORKFLOWS \cup {"codeql.yml", "lock-check.yml", "sanitizers.yml"}

EXPECTED_FAN_IN_EMITTERS ==
  {<<"build", BuildTest, "build">>, <<"unit-tests", BuildTest, "unit-tests">>,
   <<"lint", Static, "lint">>, <<"package", Container, "package">>}

EXPECTED_REQUIRED_JOB_IDS ==
  {"deps-version-sync", "forbid-suppressions", "install", "lockfile-integrity",
   "release", "schema-validation", "security-dependency-scan",
   "security-secrets-scan", "typecheck", "uv-lock-check"}

Secrets == "security-secrets-scan"
ConfiguredScan == <<"podman run", "gitleaks detect", "--config", "--report-path">>
DefaultScan == <<"podman run", "gitleaks detect", "--report-path">>

\* The jobs whose command runs in the image that an earlier step builds, and
\* of them those that run it by scripts/run_ci_local.sh.
InContainer == EXPECTED_REQUIRED_JOB_IDS \ {"install", "lockfile-integrity", "release"}
Script(v) == <<"run_ci_local.sh", v>>

\* What run_ci_local.sh runs for schema-validation ends in `||:`.
NeverFails == {Script("schema-validation")}

\* The commands a validator's step must run; the step is named after its job.
EXPECTED_REQUIRED_VALIDATORS ==
  [v \in EXPECTED_REQUIRED_JOB_IDS |->
     CASE v = Secrets -> <<ConfiguredScan, DefaultScan>>
       [] v = "install" -> << <<"cmake", "--install">> >>
       [] v = "lockfile-integrity" -> << <<"conan lock create", "-s compiler">> >>
       [] v = "release" -> << <<"generate-changelog.sh", "PREV_TAG">> >>
       [] OTHER -> <<Script(v)>>]

\* The only step condition that _required.yml may have.
ALLOWED_REQUIRED_STEP_CONDITIONS == {<<Secrets, "Upload Gitleaks SARIF", "not merge_group">>}

\* An event stands for its filter too: "pull_request" and "push" those of the
\* branch main, "push tags" those of the tags v*.*.*.
EXPECTED_REQUIRED_TRIGGERS == {"pull_request", "push", "merge_group"}

-------------------------------------------------------------------------------
(* The configuration in the repository. *)

Line(words) == [words |-> words, more |-> FALSE]
Continued(words) == [words |-> words, more |-> TRUE]   \* ends in a backslash
Step(name, run) == [name |-> name, if |-> "", coe |-> FALSE, run |-> run]
Checkout == Step("actions/checkout", <<>>)
BuildImage == Step("Build CI image (podman)", <<Line(<<"podman build">>)>>)
PolicyStep == Step("Validate merge queue policy and fan-ins", <<Line(<<"policy">>)>>)
VerifyLockfile == Step("Verify lockfile is up-to-date", <<Line(<<"git diff">>)>>)
SmokeTest == Step("Smoke-test installed CLI", <<Line(<<"bin/Charybdis">>)>>)

\* The step ends early, and well, in a run that has no token for the audit.
ConanAudit == Step("Run Conan audit", <<Line(<<"conan audit scan">>)>>)

\* The only step that has a condition.
UploadSarif == [Step("Upload Gitleaks SARIF", <<>>) EXCEPT !.if = "not merge_group"]

ConfiguredLines ==
  <<Continued(<<"podman run">>), Continued(<<"gitleaks detect", "--config">>),
    Line(<<"--report-path">>)>>
DefaultLines ==
  <<Continued(<<"podman run">>), Continued(<<"gitleaks detect">>), Line(<<"--report-path">>)>>
Choice(then, else) ==
  <<Line(<<"if">>)>> \o then \o <<Line(<<"else">>)>> \o else \o <<Line(<<"fi">>)>>

ValidatorRun(v) ==
  IF v = Secrets THEN Choice(ConfiguredLines, DefaultLines)
  ELSE <<Line(EXPECTED_REQUIRED_VALIDATORS[v][1])>>

\* A job's name is the context it reports; without one it is the job id.
ContextOf(id) ==
  CASE id = "deps-version-sync" -> "deps/version-sync"
    [] id = "security-dependency-scan" -> "security/dependency-scan"
    [] id = Secrets -> "security/secrets-scan"
    [] OTHER -> id

Job(wf, id, context, steps) ==
  [wf |-> wf, id |-> id, context |-> context, needs |-> {}, if |-> "", coe |-> FALSE,
   steps |-> steps, reads |-> FALSE, judges |-> {}]

\* Steps that prepare the tools and that no check is about are left out.
Before(v) == IF v \in InContainer THEN <<BuildImage>> ELSE <<Step("Prepare", <<>>)>>
After(v) ==
  CASE v = "schema-validation" -> <<PolicyStep>>
    [] v = "security-dependency-scan" -> <<ConanAudit>>
    [] v = Secrets -> <<UploadSarif>>
    [] v = "lockfile-integrity" -> <<VerifyLockfile>>
    [] v = "install" -> <<SmokeTest>>
    [] OTHER -> <<>>

Validator(v) ==
  Job(Required, v, ContextOf(v),
      <<Checkout>> \o Before(v) \o <<Step(v, ValidatorRun(v))>> \o After(v))

Suite(wf, id, context) == Job(wf, id, context, <<Checkout, Step(id, <<Line(<<id>>)>>)>>)

\* A job whose text reads the results of the jobs it needs, and that fails
\* unless they succeeded: what the text mentions and what the job does are two
\* things.
FanIn(wf, id, context, needs) ==
  [Job(wf, id, context, <<>>) EXCEPT
     !.needs = needs, !.if = "always()", !.reads = TRUE, !.judges = needs]

LintNeeds == {"clang-format", "clang-tidy", "action-pins", "markdown-lint"}

Jobs ==
  {Validator(v) : v \in EXPECTED_REQUIRED_JOB_IDS}
  \cup {Suite(BuildTest, "build-test", "matrix"), Suite(Coverage, "coverage", "Coverage"),
        Suite(Container, "docker", "Docker Build"),
        Suite(Integration, "integration", "integration-tests")}
  \cup {Suite(Static, id, id) : id \in LintNeeds}
  \cup {FanIn(BuildTest, id, id, {"build-test"}) : id \in {"build", "unit-tests", "test"}}
  \cup {FanIn(BuildTest, "check-all", "All Build/Test Checks", {"build-test"}),
        FanIn(Coverage, "check-all", "All Coverage Checks", {"coverage"}),
        FanIn(Static, "check-all", "All Static Analysis Checks", LintNeeds),
        FanIn(Static, "lint", "lint", LintNeeds),
        FanIn(Container, "package", "package", {"docker"})}

Workflows == EXPECTED_MERGE_GROUP_WORKFLOWS \cup {Release, "extra.yml"}

Repository ==
  [jobs |-> Jobs,
   on |-> [w \in Workflows |->
             CASE w = Release -> {"push tags", "workflow_dispatch"}
               [] w = "extra.yml" -> {}
               [] OTHER -> EXPECTED_REQUIRED_TRIGGERS],
   displayed |-> <<"Required Checks">>,   \* the workflows of that name
   chained |-> FALSE,   \* _required.yml mentions workflow_run
   group |-> {"event", "sha"}, cancels |-> FALSE,   \* concurrency of _required.yml
   publishes |-> <<"push">>,   \* what the publish job of container.yml runs on:
                               \* the alternatives of its condition, in order
   contexts |-> EXPECTED_CONTEXTS, rule |-> EXPECTED_QUEUE_RULE]

-------------------------------------------------------------------------------
(* How the script reads a run block. *)

IsSkipped(line) == line.words = <<>> \/ line.words[1] = "#"

\* Comment and blank lines are skipped, even within a continued command; a
\* command that is still open at the end is dropped.
LogicalShellCommands(run) ==
  LET join(acc, line) ==
        LET command == acc.open \o line.words IN
          IF line.more THEN [acc EXCEPT !.open = command]
          ELSE [done |-> Append(acc.done, command), open |-> <<>>]
  IN  FoldLeft(join, [done |-> <<>>, open |-> <<>>],
               SelectSeq(run, LAMBDA line : ~IsSkipped(line))).done

HasAllExecutableShellCommands(run, expected) ==
  Range(expected) \subseteq Range(LogicalShellCommands(run))

HasBoundGitleaksBranches(run, expected) ==
  LogicalShellCommands(run) = << <<"if">>, expected[1], <<"else">>, expected[2], <<"fi">> >>

-------------------------------------------------------------------------------
(* What the script requires of _required.yml. *)

JobIds(cfg) == {j.id : j \in {k \in cfg.jobs : k.wf = Required}}
Has(j, name) == \E st \in Range(j.steps) : st.name = name

\* A check that the job runs its command in some step, its own or a decoy.
ValidatorHoldsSomewhere(j) ==
  \E st \in Range(j.steps) :
    HasAllExecutableShellCommands(st.run, EXPECTED_REQUIRED_VALIDATORS[j.id])

ValidatorHolds(j) ==
  LET named == SelectSeq(j.steps, LAMBDA st : st.name = j.id)
      expected == EXPECTED_REQUIRED_VALIDATORS[j.id]
  IN  /\ Len(named) = 1
      /\ HasAllExecutableShellCommands(named[1].run, expected)
      /\ j.id = Secrets => HasBoundGitleaksBranches(named[1].run, expected)

\* An allowlist of conditions for whichever step has them.
ConditionAllowedAnywhere(j, st) ==
  st.if = "" \/ \E allowed \in ALLOWED_REQUIRED_STEP_CONDITIONS : allowed[3] = st.if

ConditionAllowed(j, st) ==
  st.if = "" \/ <<j.id, st.name, st.if>> \in ALLOWED_REQUIRED_STEP_CONDITIONS

\* A check that looks at the validator's own step only.
JobViolationsLax(j) ==
  {w \in {"needs", "if", "continue-on-error", "command"} :
     CASE w = "needs" -> j.needs # {}
       [] w = "if" -> j.if # ""
       [] w = "continue-on-error" -> j.coe
       [] w = "command" -> ~ValidatorHolds(j)}

JobViolations(j) ==
  {w \in {"needs", "if", "continue-on-error", "checkout", "step continue-on-error",
          "step condition", "command"} :
     CASE w = "needs" -> j.needs # {}
       [] w = "if" -> j.if # ""
       [] w = "continue-on-error" -> j.coe
       [] w = "checkout" -> ~Has(j, "actions/checkout")
       [] w = "step continue-on-error" -> \E st \in Range(j.steps) : st.coe
       [] w = "step condition" -> \E st \in Range(j.steps) : ~ConditionAllowed(j, st)
       [] w = "command" -> ~ValidatorHolds(j)}

RequiredGraphViolations(cfg) ==
  {w \in {"triggers", "workflow_run", "concurrency", "missing validators", "hollow jobs",
          "duplicate entry"} :
     CASE w = "triggers" -> cfg.on[Required] # EXPECTED_REQUIRED_TRIGGERS
       [] w = "workflow_run" -> cfg.chained
       [] w = "concurrency" -> ~({"event", "sha"} \subseteq cfg.group) \/ cfg.cancels
       [] w = "missing validators" -> ~(EXPECTED_REQUIRED_JOB_IDS \subseteq JobIds(cfg))
       [] w = "hollow jobs" -> ~(JobIds(cfg) \subseteq EXPECTED_REQUIRED_JOB_IDS)
       [] w = "duplicate entry" -> Len(cfg.displayed) # 1}
  \cup UNION {JobViolations(j) : j \in {k \in cfg.jobs :
                k.wf = Required /\ k.id \in EXPECTED_REQUIRED_JOB_IDS}}

-------------------------------------------------------------------------------
(* What it requires of the workflows as a whole. *)

Emitters(cfg, context) == {j \in cfg.jobs : j.context = context}
SoleEmitter(cfg, context, wf, id) ==
  {<<j.wf, j.id>> : j \in Emitters(cfg, context)} = {<<wf, id>>}
Carriers(cfg) == {j.wf : j \in {k \in cfg.jobs : k.context \in cfg.contexts}}
InQueue(cfg, wf) == "merge_group" \in cfg.on[wf]
TheJob(cfg, wf, id) == CHOOSE j \in cfg.jobs : j.wf = wf /\ j.id = id

PolicyPinsContextsAndRule(cfg) ==
  cfg.contexts = EXPECTED_CONTEXTS /\ cfg.rule = EXPECTED_QUEUE_RULE

RequiredCarriersRunEverywhere(cfg) ==
  /\ \A w \in Carriers(cfg) : EXPECTED_REQUIRED_TRIGGERS \subseteq cfg.on[w]
  /\ Carriers(cfg) = EXPECTED_REQUIRED_WORKFLOWS
  /\ \A c \in cfg.contexts : Cardinality(Emitters(cfg, c)) = 1
  /\ SoleEmitter(cfg, "test", BuildTest, "test")

ExpectedWorkflowsHandleMergeGroups(cfg) ==
  {w \in DOMAIN cfg.on : InQueue(cfg, w)} = EXPECTED_MERGE_GROUP_WORKFLOWS

\* Only the workflows of the two expected sets are looked at.
NoExpectedWorkflowIsPullRequestOnly(cfg) ==
  \A w \in EXPECTED_MERGE_GROUP_WORKFLOWS \cup EXPECTED_REQUIRED_WORKFLOWS :
    "pull_request" \in cfg.on[w] => InQueue(cfg, w)

IntegrationContextWaitsForTheSuite(cfg) ==
  /\ SoleEmitter(cfg, "integration-tests", Integration, "integration")
  /\ InQueue(cfg, Integration)
  /\ TheJob(cfg, Integration, "integration").if = ""

\* The script finds the words "needs." and "result" in the section (and for
\* test the two lines that use them), not what the job does with the result.
ResultBacked(cfg, wf, id, needs) ==
  LET j == TheJob(cfg, wf, id) IN j.needs = needs /\ j.if = "always()" /\ j.reads

TestContextHasOneProducer(cfg) ==
  /\ SoleEmitter(cfg, "test", BuildTest, "test")
  /\ cfg.on[BuildTest] = EXPECTED_REQUIRED_TRIGGERS
  /\ ResultBacked(cfg, BuildTest, "test", {"build-test"})

FanInsFollowUpstream(cfg) ==
  \A f \in EXPECTED_FAN_IN_EMITTERS :
    /\ SoleEmitter(cfg, f[1], f[2], f[3]) /\ InQueue(cfg, f[2])
    /\ LET j == TheJob(cfg, f[2], f[3]) IN j.needs # {} /\ j.if = "always()" /\ j.reads

AggregatesNeedEverything(cfg) ==
  /\ ResultBacked(cfg, Static, "lint", LintNeeds)
  /\ ResultBacked(cfg, Container, "package", {"docker"})

\* The script finds the condition's text in the section, so one that goes on
\* with another alternative passes.
PublishesOnMain(cfg) == cfg.publishes # <<>> /\ cfg.publishes[1] = "push"

ReleaseIsTagAndManualOnly(cfg) == cfg.on[Release] = {"push tags", "workflow_dispatch"}

RequiredEmitsNoFanIn(cfg) ==
  \A j \in cfg.jobs : j.wf = Required => j.context \notin {f[1] : f \in EXPECTED_FAN_IN_EMITTERS}

IsWired(cfg) ==
  \E j \in cfg.jobs : j.wf = Required /\ j.id = "schema-validation" /\ Has(j, PolicyStep.name)

\* The script's verdict.
Accepts(cfg) ==
  /\ PolicyPinsContextsAndRule(cfg) /\ RequiredCarriersRunEverywhere(cfg)
  /\ ExpectedWorkflowsHandleMergeGroups(cfg) /\ NoExpectedWorkflowIsPullRequestOnly(cfg)
  /\ IntegrationContextWaitsForTheSuite(cfg) /\ TestContextHasOneProducer(cfg)
  /\ RequiredGraphViolations(cfg) = {}
  /\ FanInsFollowUpstream(cfg) /\ AggregatesNeedEverything(cfg)
  /\ PublishesOnMain(cfg) /\ ReleaseIsTagAndManualOnly(cfg)
  /\ RequiredEmitsNoFanIn(cfg) /\ IsWired(cfg)
===============================================================================
