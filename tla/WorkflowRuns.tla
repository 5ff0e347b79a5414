----------------------------- MODULE WorkflowRuns -----------------------------
(***************************************************************************)
(* What GitHub Actions makes of a configuration when it runs it on a       *)
(* commit: which check contexts the commit gets, and with which results.   *)
(* The commit is described by its flaws, each named after the job that     *)
(* exists to find it.  Nothing of this is code of the repository, but the  *)
(* commands that the jobs run.                                             *)
(***************************************************************************)
EXTENDS PolicyFixtures

\* "fork" is the event pull_request for a branch of a fork, whose runs get
\* no secrets and a token that may not write.
Events == {"pull_request", "fork", "merge_group"}
NameOf(event) == IF event = "fork" THEN "pull_request" ELSE event

\* A condition that is the name of an event holds for that event only.
Holds(condition, event) ==
  \/ condition \in {"", "always()", NameOf(event)}
  \/ condition = "not merge_group" /\ event # "merge_group"

\* The commands that a run block executes: there is no .gitleaks.toml, so a
\* choice between two scans takes its second branch.
Executed(run) ==
  LET commands == LogicalShellCommands(run)
      else == SelectInSeq(commands, LAMBDA c : c = <<"else">>)
  IN  Range(SubSeq(commands, else + 1, Len(commands)))

\* The command that finds a flaw.  For the dependency scan it is a vulnerable
\* dependency of the C++ code, and for the lockfile that it is out of date.
Detector(flaw) ==
  CASE flaw = Secrets -> DefaultScan
    [] flaw = "security-dependency-scan" -> ConanAudit.run[1].words
    [] flaw = "lockfile-integrity" -> VerifyLockfile.run[1].words
    [] flaw \in EXPECTED_REQUIRED_JOB_IDS \ {Secrets, "security-dependency-scan",
                                             "lockfile-integrity"}
         -> EXPECTED_REQUIRED_VALIDATORS[flaw][1]
    [] OTHER -> <<flaw>>

\* The secret that the audit needs is set in the repository.
HasToken(event) == event # "fork"

\* A command that finds the flaw fails, unless its failure is suppressed; the
\* policy script is run on the commit's own configuration.
Fails(cfg, flaws, event, command) ==
  \/ /\ \E flaw \in flaws : command = Detector(flaw)
     /\ command \notin NeverFails
     /\ command = ConanAudit.run[1].words => HasToken(event)
  \/ command = PolicyStep.run[1].words /\ ~Accepts(cfg)

\* The image that an earlier step builds must be there.
InImage(command) == command[1] \in {"run_ci_local.sh", "podman run"}
HasImage(j, event) ==
  \E st \in Range(j.steps) : st.name = BuildImage.name /\ Holds(st.if, event)

StepFails(cfg, flaws, event, j, st) ==
  /\ Holds(st.if, event) /\ ~st.coe
  /\ \E c \in Executed(st.run) :
       Fails(cfg, flaws, event, c) \/ (InImage(c) /\ ~HasImage(j, event))

\* The result of a job by itself, and of one that needs others.  A job that
\* may fail is taken to report success, the worst that GitHub could make of it.
OwnResult(cfg, flaws, event, j) ==
  IF ~Holds(j.if, event) THEN "skipped"
  ELSE IF ~j.coe /\ \E st \in Range(j.steps) : StepFails(cfg, flaws, event, j, st)
  THEN "failure" ELSE "success"

Result(cfg, flaws, event, j) ==
  LET upstream(ids) == {OwnResult(cfg, flaws, event, k) :
                          k \in {k \in cfg.jobs : k.wf = j.wf /\ k.id \in ids}}
  IN  CASE j.if = "" /\ ~(upstream(j.needs) \subseteq {"success"}) -> "skipped"
        [] ~(upstream(j.judges) \subseteq {"success"}) -> "failure"
        [] OTHER -> OwnResult(cfg, flaws, event, j)

\* A workflow with a job that needs an unknown one is not run at all; a run
\* that the run of another commit may cancel is not counted on.
IsRun(cfg, wf, event) ==
  /\ NameOf(event) \in cfg.on[wf]
  /\ wf = Required => "sha" \in cfg.group \/ ~cfg.cancels
  /\ \A j \in cfg.jobs : j.wf = wf => \A n \in j.needs : \E k \in cfg.jobs : k.wf = wf /\ k.id = n

\* The results that a context gets: none, or several when jobs share it.
Reports(cfg, flaws, event, context) ==
  {Result(cfg, flaws, event, j) :
     j \in {k \in Emitters(cfg, context) : IsRun(cfg, k.wf, event)}}

\* The ruleset in force requires the contexts of the policy; a skipped job
\* satisfies it, and of several results the last one counts.
Conclusion(cfg, flaws, event) ==
  LET reports == [c \in EXPECTED_CONTEXTS |-> Reports(cfg, flaws, event, c)] IN
  CASE \E c \in EXPECTED_CONTEXTS : reports[c] = {} -> "missing"
    [] \A c \in EXPECTED_CONTEXTS : reports[c] \cap {"success", "skipped"} # {} -> "green"
    [] OTHER -> "red"
===============================================================================
