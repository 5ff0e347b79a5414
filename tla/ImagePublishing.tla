--------------------------- MODULE ImagePublishing ----------------------------
(***************************************************************************)
(* How images and releases leave the repository: the publish job of        *)
(* .github/workflows/container.yml, which runs on what is pushed to main,  *)
(* and .github/workflows/release.yml, which runs on a tag or by hand.      *)
(* What the steps of the release's container job do depends on the inputs  *)
(* they are given; scripts/test-container-attestation.py holds these to a  *)
(* contract.  Nothing makes a run go on: one whose next step failed is one *)
(* that takes no further step.                                             *)
(***************************************************************************)
EXTENDS Naturals, Sequences, FiniteSets, SequencesExt

CONSTANTS
  Tags,        \* the names of the tags that may be released
  Branches,    \* the names of the branches that a manual run may start from
  MaxPushes,   \* bound: runs of container.yml that publish
  MaxReleases  \* bound: runs of release.yml

VARIABLES
  container,  \* the inputs of the steps of the job build-container
  runs,       \* the runs of both workflows, in the order of their starts
  registry,   \* the image that each name in the registry refers to
  attested,   \* the attestations that are attached to images of the registry
  released    \* the GitHub releases, each with the run that published it

publishVars == <<container, runs, registry, attested, released>>

\* An image is named after the run that built it, as builds are not
\* reproducible; None is no image at all.
None == 0
Images == 1..(MaxPushes + MaxReleases)

\* github.ref says which kind of ref it is, github.ref_name does not: a tag and
\* a branch may share their name.
Ref(kind, name) == [kind |-> kind, name |-> name]
Refs == {Ref("tags", t) : t \in Tags} \cup {Ref("heads", b) : b \in Branches}
Names == {ref.name : ref \in Refs} \cup {"main", "latest"}

-------------------------------------------------------------------------------
(* The container job of release.yml. *)

DIGEST_EXPR == "steps.push.outputs.digest"

ContainerJob ==
  [permissions |-> {"id-token", "attestations"}, pushId |-> "push",
   provenanceDigest |-> DIGEST_EXPR, provenancePushed |-> TRUE, sbomFormat |-> "spdx-json",
   sbomFile |-> "sbom.spdx.json", attestDigest |-> DIGEST_EXPR,
   attestFile |-> "sbom.spdx.json", attestPushed |-> TRUE]

\* The job with at most one of its inputs different.
ContainerJobs ==
  {ContainerJob}
  \cup {[ContainerJob EXCEPT !.permissions = @ \ {p}] : p \in ContainerJob.permissions}
  \cup {[ContainerJob EXCEPT !.pushId = "build"], [ContainerJob EXCEPT !.sbomFormat = "table"],
        [ContainerJob EXCEPT !.provenanceDigest = "steps.scan.outputs.digest"],
        [ContainerJob EXCEPT !.attestDigest = "steps.scan.outputs.digest"],
        [ContainerJob EXCEPT !.attestFile = "old.spdx.json"],
        [ContainerJob EXCEPT !.sbomFile = "new.spdx.json"],
        [ContainerJob EXCEPT !.sbomFile = "new.spdx.json", !.attestFile = "new.spdx.json"],
        [ContainerJob EXCEPT !.provenancePushed = FALSE],
        [ContainerJob EXCEPT !.attestPushed = FALSE]}

HasIdTokenAndAttestationsWrite(job) == {"id-token", "attestations"} \subseteq job.permissions
PushStepIsIdPush(job) == job.pushId = "push"
ProvenanceAttestsPushedDigest(job) == job.provenanceDigest = DIGEST_EXPR /\ job.provenancePushed
SbomStepGeneratesSpdx(job) == job.sbomFormat = "spdx-json"
SbomAttestationBindsDigestAndFile(job) ==
  job.attestDigest = DIGEST_EXPR /\ job.attestFile = job.sbomFile /\ job.attestPushed

MeetsContract(job) ==
  /\ HasIdTokenAndAttestationsWrite(job) /\ PushStepIsIdPush(job)
  /\ ProvenanceAttestsPushedDigest(job) /\ SbomStepGeneratesSpdx(job)
  /\ SbomAttestationBindsDigestAndFile(job)

-------------------------------------------------------------------------------
(* The jobs of the two workflows; a flow's steps are named after what they *)
(* leave behind.                                                           *)

Steps(job) ==
  CASE job = "validate" -> <<"validated">>
    [] job = "build-release-binary" -> <<"binary">>
    [] job = "build-container" -> <<"scanned", "pushed", "latest", "provenance", "sbom", "attested">>
    [] job = "publish-release" -> <<"released">>
    [] job = "publish" -> <<"latest">>

\* The release published beside the image rather than after it.
NeedsBinaryOnly(job) ==
  CASE job = "build-release-binary" -> {"validate"}
    [] job \in {"build-container", "publish-release"} -> {"build-release-binary"}
    [] OTHER -> {}

Needs(job) ==
  CASE job = "build-release-binary" -> {"validate"}
    [] job = "build-container" -> {"build-release-binary"}
    [] job = "publish-release" -> {"build-release-binary", "build-container"}
    [] OTHER -> {}

JobsOf(flow) ==
  IF flow = "release"
  THEN {"validate", "build-release-binary", "build-container", "publish-release"}
  ELSE {"publish"}

\* The steps that a run can do next: the first one left in a job whose needs are done.
Ready(run) ==
  {step \in UNION {Range(Steps(job)) : job \in JobsOf(run.flow)} \ run.done :
     \E job \in JobsOf(run.flow) :
       /\ \A n \in Needs(job) : Range(Steps(n)) \subseteq run.done
       /\ \E i \in DOMAIN Steps(job) :
            Steps(job)[i] = step /\ \A h \in 1..(i - 1) : Steps(job)[h] \in run.done}

NewRun(flow, ref, commit) ==
  [flow |-> flow, ref |-> ref, commit |-> commit, done |-> {}, sbom |-> None, alive |-> TRUE]

RunsOf(flow) == Cardinality({k \in DOMAIN runs : runs[k].flow = flow})

\* Without the concurrency group.
CancelledNone(ref) == runs

\* concurrency: a run of release.yml cancels the one in progress for github.ref.
Cancelled(ref) ==
  [k \in DOMAIN runs |->
     IF runs[k].flow = "release" /\ runs[k].ref = ref THEN [runs[k] EXCEPT !.alive = FALSE]
     ELSE runs[k]]

-------------------------------------------------------------------------------

PublishInit ==
  /\ container \in {job \in ContainerJobs : MeetsContract(job)}
  /\ runs = <<>> /\ registry = [name \in Names |-> None]
  /\ attested = {} /\ released = {}

\* The publish job of container.yml on the commit, which does not read its ref;
\* past the bound, it is not followed.
StartPublish(commit) ==
  /\ runs' = IF RunsOf("publish") < MaxPushes THEN Append(runs, NewRun("publish", Ref("heads", "main"), commit))
             ELSE runs
  /\ UNCHANGED <<container, registry, attested, released>>

\* A tag, new or moved, on whichever commit, or a manual run on a branch.
StartRelease(ref, commit) ==
  /\ RunsOf("release") < MaxReleases
  /\ runs' = Append(Cancelled(ref), NewRun("release", ref, commit))
  /\ UNCHANGED <<container, registry, attested, released>>

Advance(k, step) ==
  /\ runs[k].alive /\ step \in Ready(runs[k])
  /\ runs' = [runs EXCEPT ![k].done = @ \cup {step},
                          ![k].sbom = IF step = "sbom" THEN registry[runs[k].ref.name] ELSE @]

\* Validation, the binary and the scan leave nothing that is looked at later.
Check(k) ==
  /\ \E step \in {"validated", "binary", "scanned"} : Advance(k, step)
  /\ UNCHANGED <<container, registry, attested, released>>

\* One manifest, tagged with github.ref_name and, after that, as latest.
PushRef(k) ==
  /\ Advance(k, "pushed")
  /\ registry' = [registry EXCEPT ![runs[k].ref.name] = k]
  /\ UNCHANGED <<container, attested, released>>

PushLatest(k) ==
  /\ Advance(k, "latest")
  /\ registry' = [registry EXCEPT !["latest"] = k]
  /\ UNCHANGED <<container, attested, released>>

\* The digest that an expression yields; only the push step has a manifest.
Digest(k, expr) == IF expr = DIGEST_EXPR /\ container.pushId = "push" THEN k ELSE None
MayAttest == HasIdTokenAndAttestationsWrite(container)

Attest(k, kind, digest, about, isPushed) ==
  /\ MayAttest /\ Digest(k, digest) # None
  /\ attested' = IF isPushed THEN attested \cup {[kind |-> kind, subject |-> k, about |-> about]}
                 ELSE attested

AttestProvenance(k) ==
  /\ Advance(k, "provenance")
  /\ Attest(k, "provenance", container.provenanceDigest, k, container.provenancePushed)
  /\ UNCHANGED <<container, registry, released>>

\* The SBOM is of the image that github.ref_name refers to by now.
GenerateSbom(k) ==
  /\ Advance(k, "sbom")
  /\ UNCHANGED <<container, registry, attested, released>>

\* A file that no step wrote describes no image of this run.
AttestSbom(k) ==
  /\ Advance(k, "attested")
  /\ Attest(k, "sbom", container.attestDigest,
            IF container.attestFile = container.sbomFile THEN runs[k].sbom ELSE None,
            container.attestPushed)
  /\ UNCHANGED <<container, registry, released>>

PublishRelease(k) ==
  /\ Advance(k, "released")
  /\ released' = released \cup {[tag |-> runs[k].ref.name, run |-> k]}
  /\ UNCHANGED <<container, registry, attested>>

RunNext ==
  \E k \in DOMAIN runs :
    \/ Check(k) \/ PushRef(k) \/ PushLatest(k) \/ AttestProvenance(k)
    \/ GenerateSbom(k) \/ AttestSbom(k) \/ PublishRelease(k)

-------------------------------------------------------------------------------

\* Runs of release.yml for one ref, of which the later cancels the earlier.
SameGroup(j, k) ==
  runs[j].flow = "release" /\ runs[k].flow = "release" /\ runs[j].ref = runs[k].ref

\* The names that the image of a run gets.
NamesOf(run) == {"latest"} \cup (IF run.flow = "release" THEN {run.ref.name} ELSE {})

\* Two runs that may go on side by side and that give one name to their images.
MayMoveName(j, k) == ~SameGroup(j, k) /\ runs[k].ref.name \in NamesOf(runs[j])

\* The step that generates an SBOM looks the image up by a name, while the
\* attestation is bound to a digest (release.yml 217-229).  What an attached
\* SBOM lists is the image it is attached to, or that of a run for another ref
\* of the same name: no run for the same ref, cancelled, late or given up half
\* way, moves the name in between.
SbomIsOfANamesake ==
  \A a \in attested :
    \/ a.about = a.subject
    \/ a.about \in DOMAIN runs /\ MayMoveName(a.about, a.subject)

\* What CHANGELOG.md (13-16) says of the attestations: they are bound to the
\* digest that was pushed.
SbomDescribesItsSubject == \A a \in attested : a.about = a.subject

\* A GitHub release appears after its image was pushed and an attestation of
\* either kind was attached to it.
ReleaseIsAttested ==
  \A r \in released : \A kind \in {"provenance", "sbom"} :
    \E a \in attested : a.kind = kind /\ a.subject = r.run
===============================================================================
