---------------------------- MODULE PolicyFixtures ----------------------------
(***************************************************************************)
(* Edits of the workflows: the fail-open topologies that                   *)
(* scripts/test-merge-queue-policy.py builds from _required.yml to see     *)
(* that its own checks reject them, the ways around the checks of the      *)
(* other workflows that its remaining tests are there for, and some edits  *)
(* that it has no reason to reject.                                        *)
(***************************************************************************)
EXTENDS WorkflowPolicy

WithJob(cfg, wf, id, F(_)) ==
  [cfg EXCEPT !.jobs = {IF j.wf = wf /\ j.id = id THEN F(j) ELSE j : j \in @}]
WithStep(cfg, id, name, G(_)) ==
  WithJob(cfg, Required, id,
          LAMBDA j : [j EXCEPT !.steps =
            [i \in DOMAIN @ |-> IF @[i].name = name THEN G(@[i]) ELSE @[i]]])

RemoveJob(cfg, id) == [cfg EXCEPT !.jobs = {j \in @ : ~(j.wf = Required /\ j.id = id)}]
AddJob(cfg, j) == [cfg EXCEPT !.jobs = @ \cup {j}]
ReplaceSteps(cfg, wf, id, steps) == WithJob(cfg, wf, id, LAMBDA j : [j EXCEPT !.steps = steps])
SetRun(cfg, id, run) == WithStep(cfg, id, id, LAMBDA st : [st EXCEPT !.run = run])

Pass == <<Line(<<"echo", "pass">>)>>
Suppressed(lines) == [lines EXCEPT ![Len(lines)].words = Append(@, "|| true")]
Echoed == [DefaultLines EXCEPT ![2].words = <<"echo">> \o @]
Commented(line) == [line EXCEPT !.words = <<"#">> \o @]

\* The fixtures that any validator v can be the target of, each with the
\* violation that the script expects of it.
RequiredFixtures ==
  [missing |-> "missing validators", proxy |-> "hollow jobs", hollow |-> "command",
   gated |-> "step condition", jobCoe |-> "continue-on-error",
   stepCoe |-> "step continue-on-error", gatedSetup |-> "step condition",
   echoed |-> "command", commented |-> "command", elsewhere |-> "command",
   bareNeeds |-> "needs", passThrough |-> "if", skipped |-> "if",
   duplicate |-> "duplicate entry"]

\* Those of the secrets scan.
GitleaksFixtures ==
  [hollowDefault |-> "command", movedDefault |-> "command",
   configuredTrue |-> "command", defaultTrue |-> "command"]

Fixture(cfg, name, v) ==
  CASE name = "missing" -> RemoveJob(cfg, v)
    [] name = "proxy" -> AddJob(cfg, Job(Required, "hollow-proxy", "hollow-proxy", <<Step("", Pass)>>))
    [] name = "hollow" -> ReplaceSteps(cfg, Required, v, <<Checkout, Step("", Pass)>>)
    [] name = "gated" -> WithStep(cfg, v, v, LAMBDA st : [st EXCEPT !.if = "pull_request"])
    [] name = "jobCoe" -> WithJob(cfg, Required, v, LAMBDA j : [j EXCEPT !.coe = TRUE])
    [] name = "stepCoe" -> WithStep(cfg, v, v, LAMBDA st : [st EXCEPT !.coe = TRUE])
    [] name = "gatedSetup" ->
         WithStep(cfg, v, Before(v)[1].name, LAMBDA st : [st EXCEPT !.if = "pull_request"])
    [] name = "echoed" -> SetRun(cfg, v, <<Line(<<"echo">> \o EXPECTED_REQUIRED_VALIDATORS[v][1])>>)
    [] name = "commented" -> SetRun(cfg, v, <<Commented(ValidatorRun(v)[1])>> \o Pass)
    [] name = "elsewhere" ->
         ReplaceSteps(cfg, Required, v, <<Checkout>> \o Before(v)
           \o <<Step(v, Pass), Step("decoy", ValidatorRun(v))>> \o After(v))
    [] name = "bareNeeds" -> WithJob(cfg, Required, v, LAMBDA j : [j EXCEPT !.needs = {"upstream"}])
    [] name = "passThrough" -> WithJob(cfg, Required, v,
         LAMBDA j : [j EXCEPT !.needs = {"upstream"}, !.if = "always()"])
    [] name = "skipped" -> WithJob(cfg, Required, v,
         LAMBDA j : [j EXCEPT !.needs = {"upstream"}, !.if = "upstream succeeded"])
    [] name = "duplicate" -> [cfg EXCEPT !.displayed = Append(@, "Required Checks")]
    [] name = "hollowDefault" -> SetRun(cfg, Secrets, Choice(ConfiguredLines, Echoed))
    [] name = "movedDefault" ->
         SetRun(cfg, Secrets, Choice(ConfiguredLines \o DefaultLines, <<Line(<<"echo", "hollow">>)>>))
    [] name = "configuredTrue" ->
         SetRun(cfg, Secrets, Choice(Suppressed(ConfiguredLines), DefaultLines))
    [] name = "defaultTrue" ->
         SetRun(cfg, Secrets, Choice(ConfiguredLines, Suppressed(DefaultLines)))

-------------------------------------------------------------------------------
(* What the other tests of the script guard against, and what they miss.   *)

\* Other edits of a validator: the condition that only the upload of the secrets
\* scan may have, the job without its last step, and of the whole workflow.
RequiredEdits == {"ungrouped", "lastStep", "mayCancel", "chained"}
RequiredEdit(cfg, name, v) ==
  CASE name = "ungrouped" -> WithStep(cfg, v, v, LAMBDA st : [st EXCEPT !.if = "not merge_group"])
    [] name = "lastStep" -> WithJob(cfg, Required, v, LAMBDA j : [j EXCEPT !.steps = Front(@)])
    [] name = "mayCancel" -> [cfg EXCEPT !.group = @ \ {"sha"}, !.cancels = TRUE]
    [] name = "chained" -> [cfg EXCEPT !.chained = TRUE, !.on[Required] = @ \cup {"workflow_run"}]

\* Edits of the job that emits context f[1] and of the job, suite, that does
\* what the context is about.
SuiteEdits == {"noMergeGroup", "secondEmitter", "twoWorkflows", "hollowSuite"}
FanInEdits == {"fanInSkips", "fanInApproves", "fanInReports", "fanInNeedsNothing"}
IntegrationEdits == {"conditionalSuite"}
PublishEdits == {"groupPublishes", "headPublishes"}
WorkflowEdits == SuiteEdits \cup FanInEdits \cup IntegrationEdits \cup PublishEdits

WorkflowEdit(cfg, name, f, suite) ==
  LET copied == AddJob(cfg, Job("extra.yml", "copy", f[1], <<Step("", Pass)>>))
      emitter(F(_)) == WithJob(cfg, f[2], f[3], F)
  IN  CASE name = "noMergeGroup" -> [cfg EXCEPT !.on[f[2]] = @ \ {"merge_group"}]
        [] name = "secondEmitter" -> copied
        [] name = "twoWorkflows" -> [copied EXCEPT !.on["extra.yml"] = EXPECTED_REQUIRED_TRIGGERS]
        [] name = "hollowSuite" -> ReplaceSteps(cfg, f[2], suite, <<Step("", Pass)>>)
        [] name = "fanInSkips" -> emitter(LAMBDA j : [j EXCEPT !.if = ""])
        [] name = "fanInApproves" -> emitter(LAMBDA j : [j EXCEPT !.reads = FALSE, !.judges = {}])
        [] name = "fanInReports" -> emitter(LAMBDA j : [j EXCEPT !.judges = {}])
        [] name = "fanInNeedsNothing" ->
             emitter(LAMBDA j : [j EXCEPT !.needs = {}, !.reads = FALSE, !.judges = {}])
        [] name = "conditionalSuite" -> emitter(LAMBDA j : [j EXCEPT !.if = "pull_request"])
        [] name = "groupPublishes" -> [cfg EXCEPT !.publishes = Append(@, "merge_group")]
        [] name = "headPublishes" -> [cfg EXCEPT !.publishes = Append(@, "pull_request")]

\* Edits of a validator that keep every promise: another step, a command that
\* goes on in the next line, a comment in a run block, another workflow.
InnocentEdits == {"none", "moreSteps", "split", "comment", "moreWorkflows"}
Split(line) == <<Continued(<<line.words[1]>>), [line EXCEPT !.words = Tail(@)]>>
InnocentEdit(cfg, name, v) ==
  CASE name = "none" -> cfg
    [] name = "moreSteps" ->
         WithJob(cfg, Required, v, LAMBDA j : [j EXCEPT !.steps = Append(@, Step("report", Pass))])
    [] name = "split" -> WithStep(cfg, v, v, LAMBDA st : [st EXCEPT !.run =
         LET long == SelectInSeq(@, LAMBDA line : Len(line.words) > 1)
         IN  SubSeq(@, 1, long - 1) \o Split(@[long]) \o SubSeq(@, long + 1, Len(@))])
    [] name = "comment" ->
         WithStep(cfg, v, v, LAMBDA st : [st EXCEPT !.run = <<Commented(Line(<<>>))>> \o @])
    [] name = "moreWorkflows" -> AddJob(cfg, Job("extra.yml", "docs", "docs", <<Step("", Pass)>>))
===============================================================================
