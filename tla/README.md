# A TLA+ model of ProjectCharybdis

Charybdis injects faults into a mesh through Agamemnon's `/v1/chaos/*` API and
checks that the mesh recovers. Its own logic is small and concentrated in the
HTTP client (retries, a circuit breaker), the subject filter, the audit log and
the fixtures of the chaos tests, with a mock server that plays Agamemnon. What
makes it hard is what happens around a request: replies that are lost after the
request was served, requests served after the client gave up, a server that is
killed in the middle of a call, and cleanup that must not depend on any of it.

The larger half of the repository's own logic guards how changes get in: the
required workflows, a policy script that holds them to what a merge queue needs,
the queue itself, and the workflows that publish images and releases. What makes
that half hard is that a verdict is about a commit that may be outdated when it
is used, and that a pull request brings along the workflows that judge it.

## The parts of the system

| Part | State it keeps | Operations | Talks to |
|------|----------------|------------|----------|
| `HttpTestClient::run_with_retry` (`src/http_test_client.cpp`) | the attempt of the current request | `get`, `post`, `post_raw`, `del`, backoff sleep | breaker (calls), server (HTTP) |
| `HttpTestClient::CircuitBreaker` (same file) | mode, failure count, success count, time of opening | `allow_call`, `record_success`, `record_failure` | called by the retry loop |
| Subject filter (`subject_filter.hpp`, gate in `post`/`post_raw`) | none; reads the environment at each check | `require_subject_allowed`, `enforce_queue_starve_subject` | throws to the caller |
| `safe_inject_queue_starve` (`safe_chaos.hpp`) | none | guard, `post`, log | filter, client, audit log |
| `ChaosAuditLog` (`chaos_audit.hpp`) | an append-only file or stderr | `log_inject`, `log_remove`, `log_filter_reject` | written by fixtures and the wrapper |
| `ChaosResilienceTest`, `ChaosApiTest` | `injected_ids_`, local fault ids | `SetUp`, `inject`, `remove`, `TearDown` | client, audit log |
| Mock Agamemnon (`scripts/mock-agamemnon.py`) | faults, teams, agents, tasks | `do_GET`, `do_POST`, `do_DELETE`, one request at a time | answers the client |
| `wait_until`, `chaos_recovery_timeout` (`test_helpers.hpp`) | none | polling with a deadline | the client, through a predicate |
| Integration tests (`test_chaos_resilience.cpp`, `test_chaos_api.cpp`, `test_protocol_correctness.cpp`, `test_malformed_messages.cpp`) | local ids and task ids | R01-R05, E01-E04, C10, task state, malformed bodies, test-empty | client, poll, stub |
| Mock smoke test (`scripts/test-mock-agamemnon.py`) | none | `main` | the stub |
| Required workflows (`.github/workflows/*.yml`) | job results | jobs, needs, conditions, fan-ins, run by GitHub | report contexts to the merge queue |
| Policy script (`scripts/test-merge-queue-policy.py`) | none | its tests of the workflows, its fail-open fixtures | run by a required job on the very commit |
| Merge queue (`configs/github/merge-queue-policy.json`) | main, entries, reports | queue, test, merge, fail, time out | workflows (verdicts), publishing (pushes to main) |
| Container and release workflows, attestation contract (`scripts/test-container-attestation.py`) | registry names, attestations, releases | push, attest, SBOM, release | run on main, on tags, by hand |
| Local CI runner (`scripts/run_ci_local.sh`) | none | one tool per command | run by the required jobs |
| Build system | none | | none of the above |

What each must get right:

- **breaker**: no more lost calls than its threshold without a silence; one
  probe at a time; it must not stay open for good; its counters must mean what
  its mode says.
- **retry loop**: every request returns; a restart of the server within the
  advertised window is not seen by the caller; the breaker is told of each call
  exactly once.
- **filter**: nothing unfiltered is sent, whichever function a test calls and
  however it spells the path; a refusal comes before the network; the log says
  what happened.
- **fixtures with server**: a test leaves no fault behind, or at least none
  without a lost message to explain it; a deleted fault stays deleted; the log
  has every injection it could know of; a test ends.
- **integration tests**: a test that starts clean passes, whatever its own faults
  do to its calls, and leaves nothing; a poll gives up only for a reason.
- **stub**: its answers do not depend on the faults that are active, and a refusal
  leaves no trace.
- **policy and queue**: no flaw that a required check finds reaches main; no
  edit of the workflows makes a check pass for nothing; the queue accepts nothing
  that a pull request would be refused for; no entry blocks the queue for good.
- **publishing**: images and releases come from main; what is attested to an image
  is about that image; a release comes after its attestations.

Not all of this holds: see "What the code does against its documentation".

The hard behaviours, each at its line, are the `hazards` of `PROJECT.json`.

## The modules

| Module | Models | Notes |
|--------|--------|-------|
| `CallBudget` | what a breaker promises | abstract: a budget of calls that may be lost, and a silence once it is exhausted |
| `CircuitBreaker` | the breaker with one caller | implements `CallBudget` (`KeepsToBudget`) |
| `RetryClient` | `run_with_retry`, clock, server that is killed, restarted, slowed down | contains the breaker as `Breaker == INSTANCE CircuitBreaker` and implements its specification (`UsesBreaker`) |
| `SafeInject` | wrapper, `post`, `post_raw`, filter, the log's `emit` | finite: TLC's run is exhaustive |
| `ChaosSession` | both fixtures, retrying client, lossy network, fault registry, audit log | the composition of client, server and tests |
| `MockAgamemnon` | the stub as a function of its state and a request: faults, teams, agents, tasks, and the delay of a reply | pure operators; also the requests of the smoke test |
| `ResilienceTests` | thirteen integration tests as scripts, `wait_until`, the client with its timeouts, the stub with its accept queue, in real time | extends `MockAgamemnon`; processes may be killed |
| `WorkflowPolicy` | the workflows as data and the policy script's checks of them | pure operators |
| `PolicyFixtures` | the script's fail-open fixtures, edits that its other tests are there for, edits that it cannot see, and innocent ones | pure operators |
| `WorkflowRuns` | what GitHub makes of a configuration and a commit, by the event | external but for the commands, pure operators |
| `MergeQueue` | the queue of the pinned rule, for any checks (`Conclusion` is a constant operator) | external |
| `ImagePublishing` | the publish job of `container.yml`, `release.yml`, the attestation contract | runs are grouped by the full ref, images named by its name |
| `Delivery` | the composition: queue, workflows that come with the commit, publishing | `INSTANCE MergeQueue WITH Conclusion <- ChecksSay` and `INSTANCE ImagePublishing` |
| `MC*` | the instances TLC checks | |
| `*_proofs` | theorems about the module they extend | |

How state and actions correspond to the code, beyond the names:

- **Clock.** `steady_clock` is only compared with `opened_at_ + open_duration_ms`,
  so the breaker keeps one variable `sinceOpened` that stops at `OpenDuration`.
  In `RetryClient` all timers advance in `Tick`; a unit is 200 ms,
  and sleeps are truncated to whole units, downwards, which only
  shortens the shortest sleep. The jitter is any whole number of units in its range.
- **One caller.** `HttpTestClient` is documented as not thread-safe, and each
  thread of the tests builds its own client, so at most one call is on the wire.
- **Calls and attempts.** `StartCall` is a call of `get`, `post` or `del`; `Send`,
  `Retry` and `GiveUp` are the loop; the fixtures use the default, disabled
  breaker, so `ChaosSession` has none. Backoff sleeps only delay and are left out.
- **Network.** An attempt reaches the server's queue or not; a queued attempt may
  be served at any later time, in any order; its reply is heard only by the
  attempt that still waits for it. The real server serves in order; any order
  contains that one, and no reported violation needs another.
- **Fault types.** Only a kill fault changes `/v1/health`; latency is what makes
  replies late. The other requests of R01-R05 (tasks, lists, health polls) do not
  touch the faults and appear as the nondeterministic end of the body: `LeaveBody`
  after the removals, or `Abort` where R04 and R05 have fatal assertions.
- **Tests.** One at a time: the test presets give ctest no job count, and the
  project's recipes add none. A test that `SetUp` skips has nothing to tear down.
- **Paths, subjects and replies.** A path is the one the gates compare with, another
  spelling of it, which the stub reads alike (`Served`), or another resource's. A
  subject is known by its relation to the prefix, a reply by the shape of its body;
  these are the distinctions the code makes. Subjects that are not UTF-8 are left out.
- **Real time.** `ResilienceTests` has units of 500 ms, the sleep of `wait_until`.
  Computation takes no time and `Tick` jumps to the next timer, so only sleeps,
  latencies and timeouts make time pass. The stub handles one request at a time
  and sleeps before it replies, so a latency fault holds up everything behind it.
  A request whose client hung up is served all the same. The accept queue holds
  `Backlog` connections; past that, connecting waits until its own timeout.
- **Scripts.** A test is a sequence of steps: a request whose status is asserted, an
  injection that keeps the id, a removal, a poll with its condition and deadline,
  a request whose duration is asserted. Which steps assert fatally, and that
  `TearDown` runs whatever happened, is as in the sources.
- **Configurations.** A workflow is its jobs with steps, needs, condition and
  `continue-on-error`, and the events it is triggered by. Of a fan-in, the results that
  its text mentions (`reads`) and those it fails on (`judges`) are two things: the
  script looks at the first, GitHub runs the second. A run block is a sequence of
  lines, joined into logical commands as the script does; the command that finds a
  defect is named after its job, because all that matters is whether it is executed
  and whether its failure counts. That of the schema validation never fails
  (`NeverFails`), as in `run_ci_local.sh`. An expected fixture is checked for the very
  violation the script expects; the script builds its fixtures around
  `schema-validation`, the model around every validator.
- **Events.** A run for a pull request of a fork is one of `pull_request` without
  secrets, so the Conan audit passes there (`HasToken`), and with a token that may not
  write, so it publishes nothing whatever its workflow says.
- **Refs.** `github.ref` tells tags from branches, `github.ref_name` does not. Runs of
  `release.yml` cancel each other by the first and name their images by the second,
  and so do `Cancelled` and `PushRef`. A tag may be put on any commit that main ever
  was or that a pull request's branch was; a manual run starts from any branch.
- **Commits.** A commit of the queue is the sequence of pull requests on main up to
  it. A flaw comes as a whole, or in two halves that are a flaw only together
  unless a third change lets them go together: the case a queue exists for.
- **History variables.** `clean`, `before`, `calm`, `took`, `lost` (ResilienceTests)
  are never read by an action either; neither are `disturbances`, `denied` (RetryClient), `created`,
  `unreported`, `undeleted`, `confirmed` (ChaosSession) and the name of the plan
  in a fault.

## What the runs check

| Run | Question and bounds |
|-----|---------------------|
| `breaker` | All orders of outcomes and delays with 4 failures to open, 3 successes to close, a window of 10. Each counter takes several values on either side of its threshold. |
| `retry` | `kChaosResilientPolicy` (400 ms, x2, cap 2 s, 3 retries) with a restart window of 1 s = 5 units. The shortest sleeps add up to 1+2+4 = 7 units. Kills may come in the middle of a call, between calls, or repeatedly; the server may also turn slow for good. The breaker opens after 5 failures: no request of 4 attempts opens it alone, so the first one shows the retries by themselves, and the next one has it open between two attempts; two successes close it. |
| `session` | Two tests, two stacked faults, one retry, two queued requests, four fault ids. Two tests are needed for one to meet what the other left behind; two faults for a stacked test; with one retry every call may be lost, duplicated or late; four ids cover four creations, after which an injection stays unserved. |
| `session_policy` | One test, two retries, room in the queue for all three attempts: how many faults one `inject()` makes, and that the test ends. |
| `safe_inject` | Every entry point, spelling of the path, environment, subject and reply shape: no bound. |
| `resilience` | Two of the thirteen tests in any order, with one mishap: a test process is killed, or somebody deletes a fault. Read timeout 10 s = 20 units, connection timeout 5 s = 10, an accept queue of 5, jittered backoffs. The stub starts with nothing or with what killed sessions leave: a kill, a queue-starve, a stack of R05's two faults, or 1, 4 or 20 latency faults: one and four slow the stub down below and above what the tests expect of it, twenty delay a reply past the read timeout, so every injection is retried and adds another. The backoffs take one unit, but the last, which is short or long. Two tests are needed for one to leave what the next meets; one mishap makes the first of them dirty, and more only add faults that `Leftovers` already has. About 560 000 states, a minute of TLC. |
| `delivery` | All ten validators, all nine other required contexts, and every edit there is, the fixtures of the script included: these data are finite, and the run looks at all of them, one edit at a time. Pull requests 1, 2 and 3, of which 1 is the editor and 3 comes from a fork. Each kind of flaw comes at most once: a whole one, or two halves and a change that lets them go together, in every pull request that may bring it but for the left half and the fix, which no fork brings. Two entries are built and two merged at once, so a group can be merged, an entry can fail or time out in front of another, and one must wait. About 563 000 states, two minutes of TLC. |
| `publishing` | One run of the publish job, started by main or by a pull request whose own workflow says so (`headPublishes`), and two releases, with one tag and the branches `main`, `v1` (of the tag's name) and `latest` (of the moving name), for each container job that meets the attestation contract: enough for two runs to race for one name, from one ref, from two refs of one name, and for `latest`. About 678 000 states, a minute of TLC. |

`CHECK_DEADLOCK FALSE` in the session runs and in `resilience`: a session ends
after `MaxTests` tests, and then nothing is left to do. In the runs of
`MCDelivery`, everything may be merged or refused and published, or a run may have
failed. There, tags, manual runs and the steps of publishing runs wait until the queue
is empty (`Quiet`): they read nothing that the queue writes but main, and write
nothing that it reads, so any other order has the same states in the end.

Fairness. `RetryClient`: the client's thread keeps running and its socket
timeouts end every call (`WF` on `Client`), time passes (`WF` on `Tick`), and the
supervisor restarts a killed server (`WF` on `Restart`; the tests that need it
are labelled `REQUIRES_RESTART_SUPERVISOR`). Nobody is obliged to make a slow
server fast: `RequestsReturn` holds without it, and `BreakerHeals` assumes that the
server stays up in the end and that requests keep coming. `ChaosSession`: the
test process runs (`WF` on `TestStep` and `ClientStep`); the server and the
network owe nothing. `ResilienceTests`: time passes, the stub, a local process,
serves, and the test goes on (`WF` on `Progress`); starting a test and mishaps are
not owed. `Delivery`: the queue service acts on its first entry, by merging,
removing it on a failure, or removing it when the rule's 60 minutes are over; that
a check ever answers, or that anybody queues anything, is not assumed.

### What the code does against its documentation

Four runs are expected to find a violation.

- `session_cleanup`: tests are said to clean up after themselves. An injection
  whose reply is lost is retried, and the first fault is never deleted. What does
  hold is `NoSilentLeak`: a lost reply is the only way to leave a fault behind.
- `safe_inject_paths`: no queue-starve POST is said to bypass the gate. The gates
  compare the path as it is spelt; the stub drops a query and the slashes at the end,
  so such a spelling is not filtered and injects the fault. What does hold is
  `GatedPathIsFiltered`.
- `safe_inject_logging`: a failed injection is said to be logged with status 0,
  and logging never to break a test. `emit()` throws on the null body.
- `sbom_namesake`: the attested SBOM is said to be bound to the pushed digest. A branch
  and a tag of one name have two concurrency groups and one image name, so the SBOM
  may list the image of the other run. What does hold is `SbomIsOfANamesake`.

Differences that the models show without a run of their own; where a property says
what holds instead, it is named:

- The audit log is said to record every injection (`chaos_audit.hpp:22`), and the
  `inject()` of `ChaosResilienceTest` does not log: `LoggedUnlessLost` is about the
  helpers that do.
- Refused subjects are said to be recorded (`README.md:75`), but `post()` and `post_raw()`
  have no log, and with the filter disabled the wrapper does not record the refusal by
  `post()` of an empty subject either: `LogTellsTheCall` says what is recorded.
- Queue and pull request are said to be identical (`test-merge-queue-policy.py:582`).
  The Conan audit passes where its secret is missing, in runs for forks, and scans in the
  merge group (`_required.yml:115`). `QueueIsNoLaxer`: never the other way round.
- The policy test is said to be required (`docs/ci/merge-queue.md:56`). It is a step of a
  job of the very workflow that it judges, so a pull request that hollows that job out,
  as the script's own fixture does, is not judged: `Unenforced` in `PolicyIsSound`.
- Silent suppressions are said to be forbidden (`run_ci_local.sh:153`). The command of
  `schema-validation` ends in `||:` (line 134), which the two checks for `|| true` do not
  match, so no defect that it finds fails the required check: `Unguarded`.
- Only the push to main is said to publish (`docs/ci/merge-queue.md:46`). The script looks
  for the text of the publish job's condition, which a condition that goes on with `||`
  still contains; such an edit (`PublishEdits`) is accepted, and publishes from the queue.
- Releases are said to be cut from main (`CONTRIBUTING.md:355`). Nothing in `release.yml`
  asks whether the tagged commit is one of main, and `Tag` does not either.
- `CHARYBDIS_SUBJECT_FILTER_DISABLED=1` is said to disable the gate entirely, but a
  queue-starve request without a subject is still refused (`EnforceSubject` looks at
  the subject before the flag); the third case of `LogTellsTheCall` is this
  refusal, which the wrapper does not record.
- `README.md:185` says that `latest` is the most recent build from `main`.
  `release.yml` pushes `latest` for whatever commit is tagged, and the publish job of
  `container.yml` has no concurrency group, so an older run may push last. In
  `ImagePublishing` both are steps, and no property claims an order.
- `release.yml` names the image of a manual run after `github.ref_name`, the branch,
  and not after the tag that is given as its input.
- `test/CMakeLists.txt` filters for `R04_QueueStarve_ConsumerStalls`; the test is
  called `R04QueueStarveConsumerStalls`.
- The policy script's parity test says that no workflow is pull-request-only
  (`scripts/test-merge-queue-policy.py:588`), and looks at its expected sets only.
- `forbid-suppressions`, `lockfile-integrity` and `uv-lock-check` are validators the
  policy pins, but none of them is a required context: their failures do not keep
  a pull request out.

What gets past the policy script, all of it found by `delivery` and listed in
`Unguarded` and `Unenforced`:

| Target | Edits after which a commit with the flaw is green in the queue |
|--------|----------------------------------------------------------------|
| any other required context | the suite it is about does nothing (`hollowSuite`): only `_required.yml` has its commands looked at |
| `package` | its fan-in reads the result and does not fail on it (`fanInReports`); elsewhere another context of the same suite fails |
| `All Coverage Checks` | every edit of its fan-in: the script does not look at it, and nothing else reports on coverage |
| `schema-validation` | none is needed, as its command never fails; and the script does not refuse the hollow job, the job that may fail, or the job without its last step, since that step is the script |
| `security-dependency-scan`, `lockfile-integrity` | the job without its last step, which does the work (`lastStep`): the script looks at the first |
| the three that are not required | none is needed |

Edits that are not in the model, and that the script does not look at either: step
conditions in workflows other than `_required.yml`; a fan-in that judges some of its
needs only; an `exit 0` before a command; two edits at a time; edits of the script itself.

## What is proved

Checked by TLAPS for every value of the constants, from the named assumptions
`BreakerConfig`, `PolicyIsSane`, `SessionConstants`, `DeliveryConstants` and
`SessionConfig`. They give types, and little else: the session's tests are tests
there are, and what killed sessions left on the stub is finite and well-formed.
`SafeInject` and `MergeQueue` need none.

- **`CircuitBreaker_proofs`**: `TypeCorrect`, `CountersAgree`, `SingleProbe`,
  `RefinesCallBudget`. The inductive invariant is the conjunction of the three
  invariants: alone, `OneProbeAtATime` is not inductive (that the window is over
  while half-open needs the range of `sinceOpened`, and what a failure does
  needs the modes to agree with the counters).
  The refinement maps a closed circuit to what is left of its threshold, an open
  one to an empty budget, and a half-open one to one unit as soon as a probe
  succeeded; each action of the breaker is one of `CallBudget`.
- **`RetryClient_proofs`**: `ClientUsesBreaker` (the retry loop is the one caller
  that the breaker's theorems assume), hence `BreakerStaysConsistent`, the breaker's
  theorems for every client, by `INSTANCE CircuitBreaker_proofs`; and
  `OneRestartIsRiddenOut`: if the shortest
  sleeps of the policy add up to more than the restart takes, a request that meets
  a single outage gets its reply. `Shortest` is that sum; for `kChaosResilientPolicy`
  it is 0, 200, 600, 1400 ms. The invariant `SleptThrough` says that a request that met
  nothing is still at its first attempt, and one that met an outage has slept,
  since the outage began, at least `Shortest` of its attempt; so the last attempt
  cannot find the server down. `TypeCorrect` bounds the attempts by
  `max(1, max_retries + 1)` and each sleep by one and a half times the cap.
  The delays are defined by recursion, one multiplication per attempt as in the
  code; that such a function exists and stays in its range is `RecursionExists`
  and `StaysIn`. Both are inductions, done without an induction rule: a set of
  natural numbers has a least element (`Least`, from the library's theorem on
  well-founded relations), so there is no least counterexample.
- **`ChaosSession_proofs`**: `LeaksAreExplained`, `DeletesAreFinal`,
  `LogMissesOnlyLostReplies`, `TypeCorrect`, for any number of tests, faults,
  retries and queued requests. The invariant adds three facts the properties need:
  the call under way fits the part of the test that runs (`CallFits`, so a late
  reply is never taken for another call's), the body's variables are empty outside
  the body and an api test holds nothing while it injects (`HoldsAsPlanned`, so
  leaving the body forgets nothing), and every id comes from the server
  (`KnownIds`, so a fresh id was never deleted).
  `DuplicatesAreBounded`, for any number of retries, has an invariant of its own. The
  property counts two sets at once, the faults a call created and its requests
  that are still queued; `Spent` is their sum. By itself it is not inductive, since
  nothing in it says that an attempt is left to pay for the next request.
  `WithinAttempts` does: the call under way has spent at most the attempts it made.
  `Send` spends one, `ServeInject` turns a request into a fault, and a call that
  starts has a number nobody used before (`FromCalls`).
- **`SafeInject_proofs`**: `TypeCorrect`, `GatedPathStaysFiltered`, `RefusalsComeFirst`,
  `RecordsAreTrue`. What the properties lack is where a call is: `InStep` says
  that a call beyond a gate has passed it, that nothing is recorded before it comes
  back, and that a wrapper's call has an allowed subject. The case with an argument
  of its own is `GuardThenGate`: what the wrapper's guard passed can be refused by
  the gate of `post()` only if the filter is disabled and the subject is missing.
- **`MergeQueue_proofs`**: lemmas for the queue's half of `Delivery`, for any pull
  requests, contents, limits and checks. That main passed the checks of the merge group
  (`MainIsValidated`) speaks of main only; what makes it inductive is that the
  queue is one line of commits from main (`OneLine`) and that a green report is
  about the entry's commit as it is now (`GreenIsTrue`). Leaving the queue shifts
  the commits behind, which is why they must be reported anew (`LeaveKeepsInv`);
  merging a group makes each of its commits a state of main (`MergeKeepsInv`). As all
  this is GitHub's doing and no code of the repository, none of it is listed as a
  theorem.
- **`ImagePublishing_proofs`**: lemmas for the publishing half. The invariant says that
  of the releases of a ref only the last goes on (`LastReleaseOnly`, the concurrency
  group), so that until the SBOM is made the name that a run pushed refers to its own
  image or to that of a run outside its group that pushes the same name (`NameIsItsOwn`,
  `SbomIsItsOwn`); and that the steps a run has done left their attestations
  (`AttestedWhenDone`).
- **`Delivery_proofs`**: a step of the composition is a step of the queue, with its
  checks, or of publishing, so the invariants of the two hold together
  (`DeliveryInvariance`), with the types (`TypeCorrect`), whatever an edited workflow
  publishes. From them follow `SbomsAreOfNamesakes` and `ReleasesAreAttested`.
  `FlawsNeverReachMain` needs to know what the checks say, and is about
  `Spec /\ PolicyIsSound`. `PolicyIsSound` is about single verdicts: a commit
  with the flaw is green in the merge group after the unguarded edits and after no other.
  TLC evaluates it for every target and every edit in `delivery`; the
  theorem does the rest: no order of queueing, rebuilding, ejecting and merging gets a
  flaw past those verdicts, in halves or behind a stale one.
- **`ResilienceTests_proofs`**: `TypeCorrect`, `RecoveryChecksAreFair`,
  `SmokeTestIsHarmless`, for any timeouts, backoffs, left-overs and mishaps, and
  `CleanTestsSucceed`, `CleanTestsLeaveNothing`, for any that leave room and time.
  `LoopInv` goes with the types: at most one queued request is still heard, and
  only while the client waits (`LiveInv`). `GivesUpForAReason` compares `calm`, how
  long the stub has been as the check wants it, with what the last call took. Two
  facts make it inductive: stub and test talk about the same request, and the task
  that is polled for exists (`TalkInv`); and `calm` is at most what the last call took
  and the sleep after it, unless a call was lost or the reply under way holds
  (`CalmInv`).
  `SmokeTestIsHarmless` is about the stub's functions alone, in every well-formed
  state. That the latency faults have a sum (`SumIsNat`) is shown by induction on
  their number, as in `RetryClient_proofs`.
  `CleanTestsSucceed` and `CleanTestsLeaveNothing` are about a test that begins on
  an idle stub without faults. They assume `RoomAndTime`: the read timeout is longer
  than the latest reply of a clean run (`Longest`: 2 s, from the latency faults of the
  scripts; the test client waits 10 s), the accept queue has a capacity
  that is a number, and `None` is not a record the stub could be serving. The invariant
  `CleanInv` says what such a test finds before each of its steps. Its parts:
  - each of the thirteen scripts is gone through once (`FitsR01` to `FitsTestEmpty`): what
    stands on the stub before step `k` is a function of the script alone, the faults
    injected and not yet removed (`Standing`); each step's request gets, in that state,
    a reply the step is content with (`StepFits`);
  - the stub's faults are those, under the ids the test was given, and none of
    them was there before it (`FaultsAt`, `IdsFit`), and the task it
    polls for is on the stub (`StateFits`);
  - the client's one request is alone in the queue or being answered (`Alone`), and the reply
    under way, computed by the stub before it sleeps, is the one the step
    wants (`ReplyFits`). It comes in time (`NoTimeOut`), so nothing is sent twice, which
    is why the stub's ids and the test's agree.

  Each action then keeps it (`ServeKeepsClean`, `FinishKeepsClean`, ...); killing
  the test leaves its verdict as it is, and the only faults on the stub are its own, which
  nobody else deletes (`OwnFaults`). TLC checked `CleanInv`
  on the run `resilience` before it was proved; the run's constants satisfy
  `RoomAndTime`.

Only model-checked:

- liveness (`RequestsReturn`, `BreakerHeals`, `TestsEnd`, `EveryEntryLeaves`), which
  is out of the prover's reach;
- `PolicyIsSound` and `QueueIsNoLaxer`, facts about this repository's workflows and the
  edits of the model: finitely many, and TLC looks at them.

## What is not modelled

- The program that prints the version, fuzzing and the protocol tests whose
  requests keep no state, parsing of the base URL, environment and strings in
  `test_helpers.hpp`, build scripts, the container engine of the local CI runner: no
  state, or pure input and output.
- Timestamps, the layout of records, and several processes that append to one audit
  log: each record is one write to a stream opened for appending, and whether two
  processes' writes mix is up to the C++ library and the kernel.
- A `delay_ms` that is not a number makes the stub's `_send` raise from then on; no
  test sends one.
- JSON bodies that are not objects, and subjects that are not UTF-8.
- What the tools inside a CI job do: a flaw is what they find. A job that may fail
  (`continue-on-error`) is taken to report success, the worst that GitHub could make of
  it. The secret of the Conan audit is taken to be set in the repository and the audit's
  subcommand to be there; where they are not, the audit passes for everybody.
- GitHub itself beyond what the workflows rely on: the ruleset in force is taken to be
  the one the policy pins. Reviews are not modelled: the docs ask for a human review of
  workflow changes, which no code of the repository enforces.
- The policy script's checks of texts in docs, in the justfile and in the pre-commit
  configuration, of permissions, and of the word Skip, which it refuses in a fan-in; the
  attestation script's checks of pinned action versions. That script looks neither at
  the order of the steps nor at the SBOM step's `image:`, and is run by pre-commit
  and `just ci` only; `ImagePublishing` takes both as they are in `release.yml`.
- The assets of a release and the check of a tag's name, which are single steps.
