---------------------------- MODULE Delivery_proofs ----------------------------
(***************************************************************************)
(* The proofs about the queue and about publishing, carried over to their  *)
(* composition, and what follows from both for any pull requests, targets, *)
(* edits and limits.  Where the contents of the workflows matter, the      *)
(* theorem is about the sessions in which PolicyIsSound holds.             *)
(***************************************************************************)
EXTENDS Delivery, SequenceTheorems, TLAPS

Proved == INSTANCE MergeQueue_proofs WITH Conclusion <- ChecksSay
Shipped == INSTANCE ImagePublishing_proofs

\* The initial states are the queue's.
LEMMA InitOfTheQueue == Init => Proved!QueueInit
BY DEF Init, Queue!QueueInit, Proved!QueueInit

\* Each step is one of the queue's, or leaves the queue alone.
LEMMA StepOfTheQueue == [Next]_vars => [Proved!QueueNext]_(Proved!queueVars)
<1> SUFFICES ASSUME [Next]_vars PROVE [Proved!QueueNext]_(Proved!queueVars)
  OBVIOUS
<1> USE DEF Proved!QueueNext, Proved!queueVars
<1>1. ASSUME NEW p \in PR, CheckHead(p) PROVE Proved!CheckHead(p)
  BY <1>1 DEF CheckHead, Queue!CheckHead, Proved!CheckHead, Queue!Tree, Proved!Tree,
              Queue!Merged, Proved!Merged, Queue!Queued, Proved!Queued
<1>2. ASSUME NEW p \in PR, Enqueue(p) PROVE Proved!Enqueue(p)
  BY <1>2 DEF Enqueue, Queue!Enqueue, Proved!Enqueue, Queue!Tip, Proved!Tip,
              Queue!Merged, Proved!Merged, Queue!Queued, Proved!Queued
<1>3. ASSUME NEW i \in DOMAIN queue, CheckGroup(i) PROVE Proved!CheckGroup(i)
  BY <1>3 DEF CheckGroup, Queue!CheckGroup, Proved!CheckGroup, Queue!Tree, Proved!Tree
<1>4. ASSUME NEW i \in DOMAIN queue, Merge(i) PROVE Proved!Merge(i)
  BY <1>4 DEF Merge, Queue!Merge, Proved!Merge
<1>5. ASSUME NEW i \in DOMAIN queue, Fail(i) PROVE Proved!Fail(i)
  BY <1>5 DEF Fail, Queue!Fail, Proved!Fail, Queue!Rebuilt, Proved!Rebuilt,
              Queue!Without, Proved!Without
<1>6. ASSUME NEW i \in DOMAIN queue, TimeOut(i) PROVE Proved!TimeOut(i)
  BY <1>6 DEF TimeOut, Queue!TimeOut, Proved!TimeOut, Queue!Rebuilt, Proved!Rebuilt,
              Queue!Without, Proved!Without
<1>7. ASSUME \/ \E commit \in Commits, tag \in Tags : Tag(tag, commit)
             \/ \E commit \in Commits, branch \in Branches : Dispatch(branch, commit)
             \/ RunStep \/ UNCHANGED vars
      PROVE  UNCHANGED Proved!queueVars
  BY <1>7 DEF Tag, Dispatch, RunStep, vars, queueVars
<1> QED
  BY <1>1, <1>2, <1>3, <1>4, <1>5, <1>6, <1>7 DEF Next

-------------------------------------------------------------------------------
(* What is published: every run is started for a commit of pull requests.  *)

Ships == Shipped!PublishInv(Seq(PR))

\* The bounds of what is published are those of the instance.
LEMMA ShippedBounds == Shipped!Bounds
BY DeliveryConstants DEF DeliveryConstants, Shipped!Bounds

\* What the model's instance of the module calls a name, the proofs' does too.
LEMMA SameNames ==
  /\ Publishing!Refs = Shipped!Refs /\ Publishing!Names = Shipped!Names
  /\ Publishing!None = Shipped!None
  /\ \A kind, name : Publishing!Ref(kind, name) = Shipped!Ref(kind, name)
  /\ Publishing!Images = Shipped!Images /\ Publishing!ContainerJobs = Shipped!ContainerJobs
  /\ \A job : Publishing!MeetsContract(job) <=> Shipped!MeetsContract(job)
  /\ \A flow, ref, commit :
       Publishing!NewRun(flow, ref, commit) = Shipped!NewRun(flow, ref, commit)
  /\ \A flow : Publishing!RunsOf(flow) = Shipped!RunsOf(flow)
  /\ \A ref : Publishing!Cancelled(ref) = Shipped!Cancelled(ref)
  /\ \A run : Publishing!Ready(run) = Shipped!Ready(run)
<1>1. Publishing!None = Shipped!None
  BY DEF Publishing!None, Shipped!None
<1>2. Publishing!Refs = Shipped!Refs /\ Publishing!Images = Shipped!Images
  BY DEF Publishing!Refs, Shipped!Refs, Publishing!Ref, Shipped!Ref,
         Publishing!Images, Shipped!Images
<1>9. /\ Publishing!Names = Shipped!Names
      /\ \A kind, name : Publishing!Ref(kind, name) = Shipped!Ref(kind, name)
  BY <1>2 DEF Publishing!Names, Shipped!Names, Publishing!Ref, Shipped!Ref
<1>3. Publishing!ContainerJobs = Shipped!ContainerJobs
  <2>1. Publishing!ContainerJob = Shipped!ContainerJob
    BY DEF Publishing!ContainerJob, Shipped!ContainerJob, Publishing!DIGEST_EXPR, Shipped!DIGEST_EXPR
  <2> QED
    BY <2>1 DEF Publishing!ContainerJobs, Shipped!ContainerJobs
<1>4. \A job : Publishing!MeetsContract(job) <=> Shipped!MeetsContract(job)
  BY DEF Publishing!MeetsContract, Shipped!MeetsContract,
         Publishing!HasIdTokenAndAttestationsWrite, Shipped!HasIdTokenAndAttestationsWrite,
         Publishing!PushStepIsIdPush, Shipped!PushStepIsIdPush,
         Publishing!ProvenanceAttestsPushedDigest, Shipped!ProvenanceAttestsPushedDigest,
         Publishing!SbomStepGeneratesSpdx, Shipped!SbomStepGeneratesSpdx,
         Publishing!SbomAttestationBindsDigestAndFile, Shipped!SbomAttestationBindsDigestAndFile,
         Publishing!DIGEST_EXPR, Shipped!DIGEST_EXPR
<1>5. \A flow, ref, commit :
        Publishing!NewRun(flow, ref, commit) = Shipped!NewRun(flow, ref, commit)
  BY <1>1 DEF Publishing!NewRun, Shipped!NewRun
<1>6. \A flow : Publishing!RunsOf(flow) = Shipped!RunsOf(flow)
  <2>1. \A S : Publishing!Cardinality(S) = Shipped!Cardinality(S)
    BY DEF Publishing!Cardinality, Shipped!Cardinality
  <2> QED
    BY <2>1 DEF Publishing!RunsOf, Shipped!RunsOf
<1>7. \A ref : Publishing!Cancelled(ref) = Shipped!Cancelled(ref)
  BY DEF Publishing!Cancelled, Shipped!Cancelled
<1>8. \A run : Publishing!Ready(run) = Shipped!Ready(run)
  <2>1. \A job : Publishing!Steps(job) = Shipped!Steps(job)
    BY DEF Publishing!Steps, Shipped!Steps
  <2>2. \A job : Publishing!Needs(job) = Shipped!Needs(job)
    BY DEF Publishing!Needs, Shipped!Needs
  <2>3. \A flow : Publishing!JobsOf(flow) = Shipped!JobsOf(flow)
    BY DEF Publishing!JobsOf, Shipped!JobsOf
  <2>4. \A s : Publishing!Range(s) = Shipped!Range(s)
    BY DEF Publishing!Range, Shipped!Range
  <2> QED
    BY <2>1, <2>2, <2>3, <2>4 DEF Publishing!Ready, Shipped!Ready
<1> QED
  BY <1>1, <1>2, <1>3, <1>4, <1>5, <1>6, <1>7, <1>8, <1>9

\* At the start nothing is published.
LEMMA InitShips == Init => Ships
<1>1. Publishing!PublishInit => Shipped!PublishInit
  BY SameNames DEF Publishing!PublishInit, Shipped!PublishInit
<1> QED
  BY <1>1, ShippedBounds, Shipped!InitPublishInv DEF Init, Ships

\* A push starts a run, or none.
LEMMA PublishKeepsShips ==
  ASSUME Ships, NEW event, NEW commit \in Seq(PR), Publish(event, commit)
  PROVE  Ships'
<1>1. Publishing!StartPublish(commit) \/ UNCHANGED publishVars
  BY DEF Publish
<1>2. CASE Publishing!StartPublish(commit)
  <2>1. Shipped!StartPublish(commit)
    BY <1>2, SameNames DEF Publishing!StartPublish, Shipped!StartPublish
  <2> QED
    BY <2>1, ShippedBounds, Shipped!StartPublishKeepsInv DEF Ships
<1>3. CASE UNCHANGED publishVars
  BY <1>3, Shipped!NothingDoneKeepsInv DEF publishVars, Shipped!publishVars, Ships
<1> QED
  BY <1>1, <1>2, <1>3

\* The steps of the runs are the same in both instances.
LEMMA SameSteps == Publishing!RunNext => Shipped!RunNext
<1> USE SameNames
<1>1. ASSUME NEW k, NEW step, Publishing!Advance(k, step)
      PROVE  Shipped!Advance(k, step)
  BY <1>1 DEF Publishing!Advance, Shipped!Advance
<1>2. ASSUME NEW k, NEW kind, NEW digest, NEW about, NEW isPushed,
             Publishing!Attest(k, kind, digest, about, isPushed)
      PROVE  Shipped!Attest(k, kind, digest, about, isPushed)
  BY <1>2 DEF Publishing!Attest, Shipped!Attest, Publishing!Digest, Shipped!Digest,
              Publishing!MayAttest, Shipped!MayAttest, Publishing!DIGEST_EXPR, Shipped!DIGEST_EXPR,
              Publishing!HasIdTokenAndAttestationsWrite, Shipped!HasIdTokenAndAttestationsWrite
<1>3. SUFFICES ASSUME NEW k \in DOMAIN runs,
                      \/ Publishing!Check(k) \/ Publishing!PushRef(k) \/ Publishing!PushLatest(k)
                      \/ Publishing!AttestProvenance(k) \/ Publishing!GenerateSbom(k)
                      \/ Publishing!AttestSbom(k) \/ Publishing!PublishRelease(k)
               PROVE  \/ Shipped!Check(k) \/ Shipped!PushRef(k) \/ Shipped!PushLatest(k)
                      \/ Shipped!AttestProvenance(k) \/ Shipped!GenerateSbom(k)
                      \/ Shipped!AttestSbom(k) \/ Shipped!PublishRelease(k)
  BY DEF Publishing!RunNext, Shipped!RunNext
<1>4. CASE Publishing!Check(k)
  BY <1>1, <1>4 DEF Publishing!Check, Shipped!Check
<1>5. CASE Publishing!PushRef(k) \/ Publishing!PushLatest(k)
  BY <1>1, <1>5 DEF Publishing!PushRef, Shipped!PushRef, Publishing!PushLatest, Shipped!PushLatest
<1>6. CASE Publishing!AttestProvenance(k)
  BY <1>1, <1>2, <1>6 DEF Publishing!AttestProvenance, Shipped!AttestProvenance
<1>7. CASE Publishing!GenerateSbom(k) \/ Publishing!PublishRelease(k)
  BY <1>1, <1>7 DEF Publishing!GenerateSbom, Shipped!GenerateSbom,
                    Publishing!PublishRelease, Shipped!PublishRelease
<1>8. CASE Publishing!AttestSbom(k)
  BY <1>1, <1>2, <1>8 DEF Publishing!AttestSbom, Shipped!AttestSbom
<1> QED
  BY <1>3, <1>4, <1>5, <1>6, <1>7, <1>8

\* The commits that are checked, merged or released are sequences of pull requests.
LEMMA CommitsAreOfPullRequests ==
  ASSUME Proved!QueueInv
  PROVE  /\ main \in Seq(PR) /\ \A p \in PR : Append(main, p) \in Seq(PR)
         /\ \A i \in DOMAIN queue : queue[i].on \in Seq(PR)
         /\ Commits \subseteq Seq(PR)
<1>1. main \in Seq(PR) /\ queue \in Seq(Proved!Entry)
  BY DEF Proved!QueueInv, Proved!QueueTypeOK
<1>2. \A i \in DOMAIN queue : queue[i] \in Proved!Entry
  BY <1>1
<1>3. \A i \in DOMAIN queue : queue[i].on \in Seq(PR)
  BY <1>2 DEF Proved!Entry
<1>4. \A n \in 0..Len(main) : SubSeq(main, 1, n) \in Seq(PR)
  BY <1>1
<1>5. \A p \in PR : Append(main, p) \in Seq(PR) /\ <<p>> \in Seq(PR)
  BY <1>1
<1>6. Commits \subseteq Seq(PR)
  BY <1>4, <1>5 DEF Commits
<1> QED
  BY <1>1, <1>3, <1>5, <1>6

\* Whatever the queue does meanwhile.
LEMMA StepShips == Ships /\ Proved!QueueInv /\ [Next]_vars => Ships'
<1> SUFFICES ASSUME Ships, Proved!QueueInv, [Next]_vars PROVE Ships'
  OBVIOUS
<1> USE ShippedBounds
<1>1. /\ main \in Seq(PR) /\ \A p \in PR : Append(main, p) \in Seq(PR)
      /\ \A i \in DOMAIN queue : queue[i].on \in Seq(PR)
      /\ Commits \subseteq Seq(PR)
  BY CommitsAreOfPullRequests
<1>2. ASSUME NEW p \in PR, CheckHead(p) PROVE Ships'
  BY <1>1, <1>2, PublishKeepsShips DEF CheckHead
<1>3. ASSUME NEW i \in DOMAIN queue, CheckGroup(i) \/ Merge(i) PROVE Ships'
  BY <1>1, <1>3, PublishKeepsShips DEF CheckGroup, Merge
<1>4. ASSUME NEW ref \in Publishing!Refs, NEW commit \in Seq(PR),
             Publishing!StartRelease(ref, commit)
      PROVE  Ships'
  <2>1. Shipped!StartRelease(ref, commit) /\ ref \in Shipped!Refs
    BY <1>4, SameNames DEF Publishing!StartRelease, Shipped!StartRelease
  <2> QED
    BY <2>1, Shipped!StartReleaseKeepsInv DEF Ships
<1>5. ASSUME NEW commit \in Commits, NEW tag \in Tags, Tag(tag, commit) PROVE Ships'
  <2>1. Publishing!Ref("tags", tag) \in Publishing!Refs
    BY DEF Publishing!Refs
  <2> QED
    BY <2>1, <1>1, <1>4, <1>5 DEF Tag
<1>6. ASSUME NEW commit \in Commits, NEW branch \in Branches, Dispatch(branch, commit)
      PROVE  Ships'
  <2>1. Publishing!Ref("heads", branch) \in Publishing!Refs
    BY DEF Publishing!Refs
  <2> QED
    BY <2>1, <1>1, <1>4, <1>6 DEF Dispatch
<1>7. CASE RunStep
  BY <1>7, SameSteps, Shipped!RunNextKeepsInv DEF RunStep, Ships
<1>8. CASE UNCHANGED publishVars
  BY <1>8, Shipped!NothingDoneKeepsInv DEF publishVars, Shipped!publishVars, Ships
<1> QED
  BY <1>2, <1>3, <1>5, <1>6, <1>7, <1>8
     DEF Next, Enqueue, Fail, TimeOut, vars, publishVars

\* The queue and what is published, together.
LEMMA DeliveryInvariance == Spec => [](Proved!QueueInv /\ Ships)
<1>1. Spec => []Proved!QueueInv
  BY InitOfTheQueue, StepOfTheQueue, Proved!QueueInvariance, PTL DEF Spec, Proved!QueueSpec
<1> QED
  BY <1>1, InitShips, StepShips, PTL DEF Spec

\* The variables of the queue and of what is published keep their types, for
\* any pull requests, tags, edits and limits.
THEOREM TypeCorrect == Spec => []TypeOK
<1>1. Proved!QueueInv /\ Ships => TypeOK
  <2> SUFFICES ASSUME Proved!QueueInv, Ships PROVE TypeOK
    OBVIOUS
  <2>1. Queue!QueueTypeOK
    BY DEF Proved!QueueInv, Proved!QueueTypeOK, Queue!QueueTypeOK,
           Proved!Entry, Queue!Entry, Proved!Heads, Queue!Heads
  <2>2. Shipped!PublishTypeOK(Seq(PR))
    BY DEF Ships, Shipped!PublishInv
  <2> QED
    BY <2>1, <2>2, SameNames
       DEF TypeOK, Shipped!PublishTypeOK, Shipped!Runs, Shipped!StepNames
<1> QED
  BY <1>1, DeliveryInvariance, PTL

\* The SBOM that is attached to an image is of that image, or of one of another
\* ref of the same name, however many releases are started, cancelled by others
\* for the same ref, or given up half way.
THEOREM SbomsAreOfNamesakes == Spec => []SbomIsOfANamesake
<1>1. Ships => SbomIsOfANamesake
  BY DEF Ships, Shipped!PublishInv, SbomIsOfANamesake,
         Publishing!SbomIsOfANamesake, Shipped!SbomIsOfANamesake,
         Publishing!MayMoveName, Shipped!MayMoveName, Publishing!SameGroup, Shipped!SameGroup,
         Publishing!NamesOf, Shipped!NamesOf
<1> QED
  BY <1>1, DeliveryInvariance, PTL

\* No GitHub release appears before its image has both of its attestations.
THEOREM ReleasesAreAttested == Spec => []ReleaseIsAttested
<1>1. Ships => ReleaseIsAttested
  BY DEF Ships, Shipped!PublishInv, ReleaseIsAttested,
         Publishing!ReleaseIsAttested, Shipped!ReleaseIsAttested
<1> QED
  BY <1>1, DeliveryInvariance, PTL

-------------------------------------------------------------------------------
(* What the policy script and the checks are good for.  The facts of the   *)
(* data are in PolicyIsSound, which TLC evaluates for each target and      *)
(* edit; what follows from them in any history is proved.                  *)

Edit == content[Editor].edit
Target == content[Editor].target

\* All pull requests are about one target, and one of them may edit it.
LEMMA ContentMeans ==
  ASSUME content \in Contents
  PROVE  \A p \in PR : content[p].target = Target /\ (p # Editor => content[p].edit = "none")
<1>1. PICK t \in Targets : \E e \in EditsOf(t), f \in Flaws : content = Content(t, e, f)
  BY DEF Contents
<1> QED
  BY <1>1, DeliveryConstants DEF Content, Target, DeliveryConstants

\* The edit of a commit is that of the one pull request that may edit, if the
\* commit has it; the checks answer for the target.
LEMMA ChecksSayOf ==
  ASSUME content \in Contents, NEW S \in SUBSET PR, S # {}, NEW event
  PROVE  LET changes == {content[p] : p \in S} IN
           /\ EditIn(changes) = IF Editor \in S THEN Edit ELSE "none"
           /\ ChecksSay(changes, event)
                = Conclusions[Target][EditIn(changes)][IsFlawed(changes)][event]
<1> DEFINE changes == {content[p] : p \in S}
<1>1. \A c \in changes : c.target = Target
  BY ContentMeans
<1>2. changes # {}
  OBVIOUS
<1>3. EditIn(changes) = IF Editor \in S THEN Edit ELSE "none"
  <2>1. \A c \in changes : c.edit # "none" => Editor \in S /\ c.edit = Edit
    BY ContentMeans DEF Edit
  <2>2. Editor \in S => \E c \in changes : c.edit = Edit
    BY DEF Edit
  <2> HIDE DEF changes
  <2>3. CASE \E c \in changes : c.edit # "none"
    BY <2>1, <2>3 DEF EditIn
  <2>4. CASE ~\E c \in changes : c.edit # "none"
    BY <2>2, <2>4 DEF EditIn
  <2> QED
    BY <2>3, <2>4
<1>4. (CHOOSE c \in changes : TRUE).target = Target
  BY <1>1, <1>2
<1> QED
  BY <1>3, <1>4 DEF ChecksSay

\* The same of the commits in the queue and on main.
LEMMA ChecksSayOfCommit ==
  ASSUME content \in Contents, NEW commit \in Seq(PR), commit # <<>>, NEW event
  PROVE  /\ EditIn(Proved!Tree(commit))
              = IF \E i \in DOMAIN commit : commit[i] = Editor THEN Edit ELSE "none"
         /\ ChecksSay(Proved!Tree(commit), event)
              = Conclusions[Target][EditIn(Proved!Tree(commit))][IsFlawed(Proved!Tree(commit))][event]
<1> DEFINE S == {commit[i] : i \in DOMAIN commit}
<1>1. S \in SUBSET PR /\ S # {} /\ Proved!Tree(commit) = {content[p] : p \in S}
  <2>1. \A i \in DOMAIN commit : commit[i] \in PR
    OBVIOUS
  <2>2. 1 \in DOMAIN commit
    OBVIOUS
  <2>3. Proved!Tree(commit) = {content[p] : p \in S}
    BY DEF Proved!Tree
  <2> QED
    BY <2>1, <2>2, <2>3
<1>2. Editor \in S <=> \E i \in DOMAIN commit : commit[i] = Editor
  OBVIOUS
<1> HIDE DEF S
<1> QED
  BY <1>1, <1>2, ChecksSayOf

\* What the contents are is never changed, so the hypothesis is about the start.
LEMMA PolicyStaysSound == PolicyIsSound /\ [Next]_vars => PolicyIsSound'
<1> SUFFICES ASSUME PolicyIsSound, [Next]_vars PROVE PolicyIsSound'
  OBVIOUS
<1>1. [Proved!QueueNext]_(Proved!queueVars)
  BY StepOfTheQueue
<1>2. UNCHANGED content
  BY <1>1 DEF Proved!QueueNext, Proved!queueVars, Proved!CheckHead, Proved!Enqueue,
              Proved!CheckGroup, Proved!Merge, Proved!Fail, Proved!TimeOut
<1> QED
  BY <1>2 DEF PolicyIsSound

\* A flaw is on main, as a whole or put together, only with an edit that the
\* script and the checks do not guard against, whatever was queued, merged,
\* thrown out and built anew before.
THEOREM FlawsNeverReachMain == Spec /\ PolicyIsSound => []FlawsStayOut
<1>1. Proved!QueueInv /\ PolicyIsSound => FlawsStayOut
  <2> SUFFICES ASSUME Proved!QueueInv, PolicyIsSound, NEW n \in DOMAIN main,
                      IsFlawed(Queue!Tree(SubSeq(main, 1, n)))
               PROVE  EditIn(Queue!Tree(SubSeq(main, 1, n))) \in Unguarded(Target)
    BY DEF FlawsStayOut, Target
  <2> DEFINE commit == SubSeq(main, 1, n)
             edit == EditIn(Proved!Tree(commit))
             says == Conclusions[Target][edit]
  <2>1. content \in Contents /\ main \in Seq(PR) /\ n \in 1..Len(main) /\ DOMAIN main = 1..Len(main)
    BY DEF Proved!QueueInv, Proved!QueueTypeOK
  <2>2. /\ commit \in Seq(PR) /\ DOMAIN commit = 1..n /\ commit # <<>>
        /\ \A i \in 1..n : commit[i] = main[i]
    BY <2>1
  <2>3. IsFlawed(Proved!Tree(commit)) = TRUE
    BY DEF IsFlawed, Proved!Tree, Queue!Tree
  <2>4. edit = EditIn(Queue!Tree(SubSeq(main, 1, n)))
    BY DEF Proved!Tree, Queue!Tree
  <2> HIDE DEF commit
  <2>5. Proved!Tree(commit) = {content[main[i]] : i \in 1..n}
    BY <2>2 DEF Proved!Tree
  <2>6. ChecksSay(Proved!Tree(commit), "merge_group") = "green"
    BY <2>5 DEF Proved!QueueInv, Proved!MainIsValidated
  <2>7. /\ edit \in {"none", Edit}
        /\ ChecksSay(Proved!Tree(commit), "merge_group")
             = says[IsFlawed(Proved!Tree(commit))]["merge_group"]
    BY <2>1, <2>2, ChecksSayOfCommit
  <2>8. says[TRUE]["merge_group"] = "green"
    BY <2>3, <2>6, <2>7
  <2> HIDE DEF edit
  <2>9. Conclusions[Target][edit][TRUE]["merge_group"] = "green" <=> edit \in Unguarded(Target)
    BY <2>7 DEF PolicyIsSound, Edit, Target
  <2> QED
    BY <2>4, <2>8, <2>9
<1>2. Spec /\ PolicyIsSound => []PolicyIsSound
  BY PolicyStaysSound, PTL DEF Spec
<1> QED
  BY <1>1, <1>2, DeliveryInvariance, PTL
===============================================================================
