------------------------ MODULE ImagePublishing_proofs -------------------------
(***************************************************************************)
(* Whatever runs are started, cancelled, delayed or abandoned, in any      *)
(* number and order: an attested SBOM is of the image it is attached to or *)
(* of that of a run for another ref of the same name, and a GitHub release *)
(* has both attestations.  The steps that start a run belong to the module *)
(* that composes this one, so the invariant is proved step by step and put *)
(* together there.                                                         *)
(***************************************************************************)
EXTENDS ImagePublishing, FiniteSetTheorems, TLAPS

Bounds == MaxPushes \in Nat /\ MaxReleases \in Nat /\ "main" \in Branches

StepNames ==
  {"validated", "binary", "scanned", "pushed", "latest", "provenance", "sbom", "attested", "released"}

Runs(Commit) ==
  [flow : {"publish", "release"}, ref : Refs, commit : Commit, done : SUBSET StepNames,
   sbom : Images \cup {None}, alive : BOOLEAN]

PublishTypeOK(Commit) ==
  /\ container \in ContainerJobs /\ MeetsContract(container)
  /\ runs \in Seq(Runs(Commit))
  /\ registry \in [Names -> Images \cup {None}]
  /\ \A a \in attested : a.subject \in Images
  /\ \A r \in released : r.tag \in Names

\* The runs are counted by their flow, so each has an image's number.
Counted ==
  /\ Len(runs) = RunsOf("publish") + RunsOf("release")
  /\ RunsOf("publish") <= MaxPushes /\ RunsOf("release") <= MaxReleases

\* Of the releases of a ref only the last one goes on (the concurrency group).
LastReleaseOnly ==
  \A j, k \in DOMAIN runs :
    j < k /\ runs[j].flow = "release" /\ runs[k].flow = "release" /\ runs[j].ref = runs[k].ref
      => ~runs[j].alive

\* The image of run j is that of run k, or took its name from it.
IsNamesake(j, k) == j = k \/ (j \in DOMAIN runs /\ MayMoveName(j, k))

\* So the name that it pushed is its own, unless one of another ref has it.
NameIsItsOwn ==
  \A k \in DOMAIN runs :
    runs[k].flow = "release" /\ runs[k].alive /\ "pushed" \in runs[k].done
      => IsNamesake(registry[runs[k].ref.name], k)

\* The same of its SBOM, once there is one.
SbomIsItsOwn == \A k \in DOMAIN runs : "sbom" \in runs[k].done => IsNamesake(runs[k].sbom, k)

\* What a run has attested is attached to its image.
KindOf(step) == IF step = "attested" THEN "sbom" ELSE step
AttestedWhenDone ==
  \A k \in DOMAIN runs : \A step \in {"provenance", "attested"} :
    step \in runs[k].done => \E a \in attested : a.kind = KindOf(step) /\ a.subject = k

SubjectsAreRuns == \A a \in attested : a.subject \in DOMAIN runs

PublishInv(Commit) ==
  /\ PublishTypeOK(Commit) /\ Counted /\ LastReleaseOnly /\ NameIsItsOwn /\ SbomIsItsOwn
  /\ AttestedWhenDone /\ SubjectsAreRuns /\ SbomIsOfANamesake /\ ReleaseIsAttested

\* The names that images get are names of the registry.
LEMMA NamesOfRefs ==
  /\ \A ref \in Refs : ref.name \in Names
  /\ "latest" \in Names
  /\ Bounds => Ref("heads", "main") \in Refs
BY DEF Names, Refs, Ref, Bounds

\* Runs keep their flow and their ref, so two of them stay namesakes.
LEMMA NamesakesStay ==
  ASSUME DOMAIN runs \subseteq DOMAIN runs',
         \A j \in DOMAIN runs : runs'[j].flow = runs[j].flow /\ runs'[j].ref = runs[j].ref,
         NEW k \in DOMAIN runs, NEW j, IsNamesake(j, k)
  PROVE  IsNamesake(j, k)'
BY DEF IsNamesake, MayMoveName, SameGroup, NamesOf

\* And so do attested SBOMs of their subjects or namesakes.
LEMMA SbomsStay ==
  ASSUME DOMAIN runs \subseteq DOMAIN runs',
         \A j \in DOMAIN runs : runs'[j].flow = runs[j].flow /\ runs'[j].ref = runs[j].ref,
         SubjectsAreRuns, SbomIsOfANamesake, attested' = attested
  PROVE  SbomIsOfANamesake'
<1> SUFFICES ASSUME NEW a \in attested, a.about # a.subject
             PROVE  a.about \in DOMAIN runs' /\ MayMoveName(a.about, a.subject)'
  BY DEF SbomIsOfANamesake
<1>1. /\ a.subject \in DOMAIN runs /\ a.about \in DOMAIN runs
      /\ MayMoveName(a.about, a.subject)
  BY DEF SubjectsAreRuns, SbomIsOfANamesake
<1> QED
  BY <1>1 DEF MayMoveName, SameGroup, NamesOf

\* What the order of jobs and steps gives.
LEMMA ReadyMeans ==
  ASSUME NEW run, NEW step \in Ready(run)
  PROVE  /\ step \in StepNames
         /\ step \notin {"latest"} => run.flow = "release"
         /\ step = "sbom" => "pushed" \in run.done
         /\ step = "attested" => "sbom" \in run.done
         /\ step = "released" => {"provenance", "attested"} \subseteq run.done
<1>1. PICK job \in JobsOf(run.flow) :
        /\ \A n \in Needs(job) : Range(Steps(n)) \subseteq run.done
        /\ \E i \in DOMAIN Steps(job) :
             Steps(job)[i] = step /\ \A h \in 1..(i - 1) : Steps(job)[h] \in run.done
  BY DEF Ready
<1>2. PICK i \in DOMAIN Steps(job) :
        Steps(job)[i] = step /\ \A h \in 1..(i - 1) : Steps(job)[h] \in run.done
  BY <1>1
<1>3. CASE job = "validate"
  BY <1>2, <1>3, <1>1 DEF Steps, JobsOf, StepNames
<1>4. CASE job = "build-release-binary"
  BY <1>2, <1>4, <1>1 DEF Steps, JobsOf, StepNames
<1>5. CASE job = "publish"
  BY <1>2, <1>5, <1>1 DEF Steps, JobsOf, StepNames
<1>6. CASE job = "build-container"
  <2>1. i \in 1..6 /\ Steps(job) = <<"scanned", "pushed", "latest", "provenance", "sbom", "attested">>
    BY <1>6, <1>2 DEF Steps
  <2>2. step = "sbom" => i = 5
    BY <2>1, <1>2
  <2>3. step = "attested" => i = 6
    BY <2>1, <1>2
  <2>4. step = "sbom" => Steps(job)[2] \in run.done
    BY <2>2, <1>2
  <2>5. step = "attested" => Steps(job)[5] \in run.done
    BY <2>3, <1>2
  <2>6. run.flow = "release" /\ step \in StepNames /\ step # "released"
    BY <2>1, <1>1, <1>2, <1>6 DEF JobsOf, StepNames
  <2> QED
    BY <2>1, <2>4, <2>5, <2>6
<1>7. CASE job = "publish-release"
  <2>1. step = "released" /\ run.flow = "release"
    BY <1>7, <1>1, <1>2 DEF Steps, JobsOf
  <2>2. Range(Steps("build-container")) \subseteq run.done
    BY <1>7, <1>1 DEF Needs
  <2>3. {"provenance", "attested"} \subseteq Range(Steps("build-container"))
    <3>1. Steps("build-container")[4] = "provenance" /\ Steps("build-container")[6] = "attested"
          /\ 4 \in DOMAIN Steps("build-container") /\ 6 \in DOMAIN Steps("build-container")
      BY DEF Steps
    <3> QED
      BY <3>1 DEF Range
  <2> QED
    BY <2>1, <2>2, <2>3 DEF StepNames
<1> QED
  BY <1>1, <1>3, <1>4, <1>5, <1>6, <1>7 DEF JobsOf

\* There are no more runs than images, so each run's number is an image.
LEMMA RunsAreImages ==
  ASSUME NEW Commit, Bounds, PublishTypeOK(Commit), Counted
  PROVE  DOMAIN runs = 1..Len(runs) /\ DOMAIN runs \subseteq Images
<1>1. DOMAIN runs = 1..Len(runs) /\ Len(runs) \in Nat
  BY DEF PublishTypeOK
<1>2. \A flow : RunsOf(flow) \in Nat
  <2> SUFFICES ASSUME NEW flow PROVE RunsOf(flow) \in Nat
    OBVIOUS
  <2>1. {k \in DOMAIN runs : runs[k].flow = flow} \subseteq 1..Len(runs)
    BY <1>1
  <2>2. IsFiniteSet(1..Len(runs))
    BY <1>1, FS_Interval
  <2>3. IsFiniteSet({k \in DOMAIN runs : runs[k].flow = flow})
    BY <2>1, <2>2, FS_Subset
  <2> QED
    BY <2>3, FS_CardinalityType DEF RunsOf
<1>3. Len(runs) <= MaxPushes + MaxReleases
  BY <1>1, <1>2 DEF Counted, Bounds
<1> QED
  BY <1>1, <1>3 DEF Images, Bounds

\* A step of a run changes nothing but what that run has done, and its SBOM.
LEMMA AdvanceMeans ==
  ASSUME NEW Commit, PublishTypeOK(Commit), NEW k \in DOMAIN runs, NEW step, Advance(k, step)
  PROVE  /\ runs' \in Seq(Runs(Commit)) /\ DOMAIN runs' = DOMAIN runs /\ Len(runs') = Len(runs)
         /\ runs[k].alive /\ runs'[k].done = runs[k].done \cup {step}
         /\ runs'[k].sbom = IF step = "sbom" THEN registry[runs[k].ref.name] ELSE runs[k].sbom
         /\ \A j \in DOMAIN runs :
              /\ runs'[j].flow = runs[j].flow /\ runs'[j].ref = runs[j].ref
              /\ runs'[j].alive = runs[j].alive /\ runs'[j].commit = runs[j].commit
              /\ j # k => runs'[j] = runs[j]
<1>1. /\ runs \in Seq(Runs(Commit)) /\ runs[k] \in Runs(Commit)
      /\ registry \in [Names -> Images \cup {None}]
  BY DEF PublishTypeOK
<1>2. step \in StepNames /\ runs[k].alive
  BY ReadyMeans DEF Advance
<1> DEFINE sbom == IF step = "sbom" THEN registry[runs[k].ref.name] ELSE runs[k].sbom
           run == [runs[k] EXCEPT !.done = @ \cup {step}, !.sbom = sbom]
<1>3. runs' = [runs EXCEPT ![k] = run]
  BY <1>1 DEF Advance, Runs
<1>4. sbom \in Images \cup {None}
  BY <1>1, NamesOfRefs DEF Runs
<1> HIDE DEF sbom
<1>5. /\ run \in Runs(Commit) /\ run.done = runs[k].done \cup {step} /\ run.sbom = sbom
      /\ run.flow = runs[k].flow /\ run.ref = runs[k].ref
      /\ run.alive = runs[k].alive /\ run.commit = runs[k].commit
  BY <1>1, <1>2, <1>4 DEF Runs
<1> HIDE DEF run
<1>6. /\ runs' \in Seq(Runs(Commit)) /\ DOMAIN runs' = DOMAIN runs /\ Len(runs') = Len(runs)
      /\ runs'[k] = run /\ \A j \in DOMAIN runs : j # k => runs'[j] = runs[j]
  BY <1>1, <1>3, <1>5
<1> QED
  BY <1>2, <1>5, <1>6 DEF sbom

\* So it keeps the count, the order of the releases, and the SBOMs.
LEMMA AdvanceKeeps ==
  ASSUME NEW Commit, PublishInv(Commit), NEW k \in DOMAIN runs, NEW step, Advance(k, step)
  PROVE  Counted' /\ LastReleaseOnly' /\ SbomIsItsOwn'
<1>1. /\ runs' \in Seq(Runs(Commit)) /\ DOMAIN runs' = DOMAIN runs /\ Len(runs') = Len(runs)
      /\ runs[k].alive /\ runs'[k].done = runs[k].done \cup {step}
      /\ runs'[k].sbom = IF step = "sbom" THEN registry[runs[k].ref.name] ELSE runs[k].sbom
      /\ \A j \in DOMAIN runs :
           /\ runs'[j].flow = runs[j].flow /\ runs'[j].ref = runs[j].ref
           /\ runs'[j].alive = runs[j].alive
           /\ j # k => runs'[j] = runs[j]
  BY AdvanceMeans DEF PublishInv
<1>2. step \notin {"latest"} => runs[k].flow = "release"
  BY ReadyMeans DEF Advance
<1>3. step = "sbom" => "pushed" \in runs[k].done
  BY ReadyMeans DEF Advance
<1>4. Counted'
  <2>1. ASSUME NEW flow PROVE RunsOf(flow)' = RunsOf(flow)
    <3>1. {j \in DOMAIN runs' : runs'[j].flow = flow} = {j \in DOMAIN runs : runs[j].flow = flow}
      BY <1>1
    <3> QED
      BY <3>1 DEF RunsOf
  <2> QED
    BY <1>1, <2>1 DEF Counted, PublishInv
<1>5. LastReleaseOnly'
  BY <1>1 DEF LastReleaseOnly, PublishInv
<1>6. SbomIsItsOwn'
  <2> SUFFICES ASSUME NEW j \in DOMAIN runs, "sbom" \in runs'[j].done
               PROVE  IsNamesake(runs[j].sbom, j)'
    BY <1>1 DEF SbomIsItsOwn
  <2>1. CASE j # k \/ step # "sbom"
    <3>1. runs'[j].sbom = runs[j].sbom /\ "sbom" \in runs[j].done
      BY <2>1, <1>1
    <3> PICK about : about = runs[j].sbom
      OBVIOUS
    <3>2. IsNamesake(about, j)
      BY <3>1 DEF SbomIsItsOwn, PublishInv
    <3>3. IsNamesake(about, j)'
      BY <3>2, <1>1, NamesakesStay
    <3> QED
      BY <3>1, <3>3 DEF IsNamesake
  <2>2. CASE j = k /\ step = "sbom"
    <3> PICK about : about = registry[runs[k].ref.name]
      OBVIOUS
    <3>1. runs'[j].sbom = about
      BY <2>2, <1>1
    <3>2. IsNamesake(about, j)
      BY <2>2, <1>1, <1>2, <1>3 DEF NameIsItsOwn, PublishInv
    <3> QED
      BY <3>1, <3>2, <1>1 DEF IsNamesake, MayMoveName, SameGroup, NamesOf
  <2> QED
    BY <2>1, <2>2
<1> QED
  BY <1>4, <1>5, <1>6

\* No other release that goes on has the name of this run's image.
LEMMA PushKeepsInv ==
  ASSUME NEW Commit, Bounds, PublishInv(Commit), NEW k \in DOMAIN runs, PushRef(k) \/ PushLatest(k)
  PROVE  PublishInv(Commit)'
<1>1. PICK step \in {"pushed", "latest"} :
        /\ Advance(k, step) /\ UNCHANGED <<container, attested, released>>
        /\ registry' = [registry EXCEPT ![IF step = "pushed" THEN runs[k].ref.name ELSE "latest"] = k]
        /\ step = "pushed" => runs[k].flow = "release"
  <2>1. CASE PushRef(k)
    BY <2>1, ReadyMeans DEF PushRef, Advance
  <2>2. CASE PushLatest(k)
    BY <2>2 DEF PushLatest
  <2> QED
    BY <2>1, <2>2
<1> DEFINE name == IF step = "pushed" THEN runs[k].ref.name ELSE "latest"
<1>2. /\ runs' \in Seq(Runs(Commit)) /\ DOMAIN runs' = DOMAIN runs
      /\ runs[k].alive /\ runs'[k].done = runs[k].done \cup {step}
      /\ \A j \in DOMAIN runs :
           /\ runs'[j].flow = runs[j].flow /\ runs'[j].ref = runs[j].ref
           /\ runs'[j].alive = runs[j].alive
           /\ j # k => runs'[j] = runs[j]
  BY <1>1, AdvanceMeans DEF PublishInv
<1>3. Counted' /\ LastReleaseOnly' /\ SbomIsItsOwn'
  BY <1>1, AdvanceKeeps
<1>4. k \in Images /\ \A j \in DOMAIN runs : j \in Nat /\ runs[j].ref \in Refs
  <2>1. PublishTypeOK(Commit) /\ Counted
    BY DEF PublishInv
  <2>2. DOMAIN runs = 1..Len(runs) /\ DOMAIN runs \subseteq Images
    BY <2>1, RunsAreImages
  <2>3. \A j \in DOMAIN runs : runs[j] \in Runs(Commit)
    BY <2>1 DEF PublishTypeOK
  <2> QED
    BY <2>2, <2>3 DEF Runs
<1>5. registry \in [Names -> Images \cup {None}] /\ name \in Names
  BY <1>4, NamesOfRefs DEF PublishInv, PublishTypeOK
<1>6. PublishTypeOK(Commit)'
  BY <1>1, <1>2, <1>4, <1>5 DEF PublishInv, PublishTypeOK
<1>7. NameIsItsOwn'
  <2> SUFFICES ASSUME NEW j \in DOMAIN runs, runs[j].flow = "release", runs[j].alive,
                      "pushed" \in runs'[j].done
               PROVE  IsNamesake(registry[runs[j].ref.name], j)'
    BY <1>2 DEF NameIsItsOwn
  <2>1. registry'[runs[j].ref.name] = IF name = runs[j].ref.name THEN k ELSE registry[runs[j].ref.name]
    BY <1>1, <1>4, <1>5, NamesOfRefs
  <2>2. CASE name = runs[j].ref.name /\ j # k
    <3>1. ~SameGroup(k, j)
      BY <2>2, <1>2, <1>4 DEF SameGroup, LastReleaseOnly, PublishInv
    <3>2. runs[j].ref.name \in NamesOf(runs[k])
      BY <2>2, <1>1 DEF NamesOf
    <3>3. IsNamesake(k, j)
      BY <3>1, <3>2 DEF IsNamesake, MayMoveName
    <3>4. IsNamesake(k, j)'
      BY <3>3, <1>2, NamesakesStay
    <3> QED
      BY <2>1, <2>2, <3>4, <1>2
  <2>3. CASE name = runs[j].ref.name /\ j = k
    BY <2>1, <2>3, <1>2 DEF IsNamesake
  <2>4. CASE name # runs[j].ref.name
    <3> PICK image : image = registry[runs[j].ref.name]
      OBVIOUS
    <3>1. "pushed" \in runs[j].done
      BY <2>4, <1>1, <1>2
    <3>2. IsNamesake(image, j)
      BY <3>1 DEF NameIsItsOwn, PublishInv
    <3>3. registry'[runs'[j].ref.name] = image
      BY <2>1, <2>4, <1>2
    <3>4. IsNamesake(image, j)'
      BY <3>2, <1>2, NamesakesStay
    <3> QED
      BY <3>3, <3>4 DEF IsNamesake
  <2> QED
    BY <2>2, <2>3, <2>4
<1>8. AttestedWhenDone' /\ SubjectsAreRuns' /\ ReleaseIsAttested'
  <2>1. \A j \in DOMAIN runs : \A s \in {"provenance", "attested"} :
          s \in runs'[j].done => s \in runs[j].done
    BY <1>1, <1>2
  <2> QED
    BY <2>1, <1>1, <1>2 DEF AttestedWhenDone, SubjectsAreRuns, ReleaseIsAttested, PublishInv
<1>9. SbomIsOfANamesake'
  BY <1>1, <1>2, SbomsStay DEF PublishInv
<1> QED
  BY <1>3, <1>6, <1>7, <1>8, <1>9 DEF PublishInv

\* The other steps leave the registry alone; what they attest is of the image
\* of the run itself.
LEMMA OtherStepKeepsInv ==
  ASSUME NEW Commit, Bounds, PublishInv(Commit), NEW k \in DOMAIN runs,
         \/ Check(k) \/ AttestProvenance(k) \/ GenerateSbom(k)
         \/ AttestSbom(k) \/ PublishRelease(k)
  PROVE  PublishInv(Commit)'
<1> DEFINE about(step) == IF step = "attested" THEN runs[k].sbom ELSE k
           new(step) == [kind |-> KindOf(step), subject |-> k, about |-> about(step)]
<1>1. PICK step \in StepNames \ {"pushed", "latest"} :
        /\ Advance(k, step) /\ UNCHANGED <<container, registry>>
        /\ attested' = IF step \in {"provenance", "attested"} THEN attested \cup {new(step)}
                       ELSE attested
        /\ released' = IF step = "released" THEN released \cup {[tag |-> runs[k].ref.name, run |-> k]}
                       ELSE released
  <2>1. CASE Check(k) \/ GenerateSbom(k) \/ PublishRelease(k)
    BY <2>1 DEF Check, GenerateSbom, PublishRelease, StepNames
  <2>2. CASE AttestProvenance(k)
    BY <2>2 DEF AttestProvenance, Attest, KindOf, StepNames, PublishInv, PublishTypeOK, MeetsContract,
                ProvenanceAttestsPushedDigest
  <2>3. CASE AttestSbom(k)
    BY <2>3 DEF AttestSbom, Attest, KindOf, StepNames, PublishInv, PublishTypeOK, MeetsContract,
                SbomAttestationBindsDigestAndFile
  <2> QED
    BY <2>1, <2>2, <2>3
<1>2. /\ runs' \in Seq(Runs(Commit)) /\ DOMAIN runs' = DOMAIN runs
      /\ runs'[k].done = runs[k].done \cup {step}
      /\ \A j \in DOMAIN runs :
           /\ runs'[j].flow = runs[j].flow /\ runs'[j].ref = runs[j].ref
           /\ runs'[j].alive = runs[j].alive
           /\ j # k => runs'[j] = runs[j]
  BY <1>1, AdvanceMeans DEF PublishInv
<1>3. Counted' /\ LastReleaseOnly' /\ SbomIsItsOwn'
  BY <1>1, AdvanceKeeps
<1>4. k \in Images /\ runs[k].ref \in Refs
  <2>1. PublishTypeOK(Commit) /\ Counted
    BY DEF PublishInv
  <2>2. runs[k] \in Runs(Commit)
    BY <2>1 DEF PublishTypeOK
  <2> QED
    BY <2>1, <2>2, RunsAreImages DEF Runs
<1>5. PublishTypeOK(Commit)'
  BY <1>1, <1>2, <1>4, NamesOfRefs DEF PublishInv, PublishTypeOK
<1>6. NameIsItsOwn'
  <2> SUFFICES ASSUME NEW j \in DOMAIN runs, runs[j].flow = "release", runs[j].alive,
                      "pushed" \in runs'[j].done
               PROVE  IsNamesake(registry[runs[j].ref.name], j)'
    BY <1>2 DEF NameIsItsOwn
  <2> PICK image : image = registry[runs[j].ref.name]
    OBVIOUS
  <2>1. registry'[runs'[j].ref.name] = image /\ "pushed" \in runs[j].done
    BY <1>1, <1>2
  <2>2. IsNamesake(image, j)
    BY <2>1 DEF NameIsItsOwn, PublishInv
  <2>3. IsNamesake(image, j)'
    BY <2>2, <1>2, NamesakesStay
  <2> QED
    BY <2>1, <2>3 DEF IsNamesake
<1>7. /\ step = "released" => {"provenance", "attested"} \subseteq runs[k].done
      /\ step = "attested" => "sbom" \in runs[k].done
  BY <1>1, ReadyMeans DEF Advance
<1>8. attested \subseteq attested' /\ \A a \in attested' : a \in attested \/ a = new(step)
  BY <1>1
<1>9. AttestedWhenDone'
  <2> SUFFICES ASSUME NEW j \in DOMAIN runs, NEW s \in {"provenance", "attested"},
                      s \in runs'[j].done
               PROVE  \E a \in attested' : a.kind = KindOf(s) /\ a.subject = j
    BY <1>2 DEF AttestedWhenDone
  <2>1. CASE s \in runs[j].done
    BY <2>1, <1>8 DEF AttestedWhenDone, PublishInv
  <2>2. CASE s \notin runs[j].done
    <3>1. j = k /\ s = step
      BY <2>2, <1>2
    <3>2. new(s) \in attested'
      BY <3>1, <1>1
    <3> QED
      BY <3>1, <3>2
  <2> QED
    BY <2>1, <2>2
<1>10. SubjectsAreRuns'
  BY <1>2, <1>8 DEF SubjectsAreRuns, PublishInv
<1>11. SbomIsOfANamesake'
  <2> SUFFICES ASSUME NEW a \in attested'
               PROVE  IsNamesake(a.about, a.subject)'
    BY DEF SbomIsOfANamesake, IsNamesake
  <2>1. a.subject \in DOMAIN runs /\ IsNamesake(a.about, a.subject)
    <3>1. CASE a \in attested
      BY <3>1 DEF SubjectsAreRuns, SbomIsOfANamesake, IsNamesake, PublishInv
    <3>2. CASE a \notin attested
      <4>1. a = new(step) /\ (step = "attested" => IsNamesake(runs[k].sbom, k))
        BY <3>2, <1>7, <1>8 DEF SbomIsItsOwn, PublishInv
      <4>2. a.subject = k /\ a.about = about(step)
        BY <4>1
      <4> QED
        BY <4>1, <4>2 DEF IsNamesake
    <3> QED
      BY <3>1, <3>2
  <2> QED
    BY <2>1, <1>2, NamesakesStay
<1>12. ReleaseIsAttested'
  <2> SUFFICES ASSUME NEW r \in released', NEW kind \in {"provenance", "sbom"}
               PROVE  \E a \in attested : a.kind = kind /\ a.subject = r.run
    BY <1>8 DEF ReleaseIsAttested
  <2>1. CASE r \in released
    BY <2>1 DEF ReleaseIsAttested, PublishInv
  <2>2. CASE r \notin released
    <3>1. r.run = k /\ step = "released"
      BY <2>2, <1>1
    <3>2. {"provenance", "attested"} \subseteq runs[k].done
      BY <3>1, <1>7
    <3>3. kind = KindOf("provenance") \/ kind = KindOf("attested")
      BY DEF KindOf
    <3> QED
      BY <3>1, <3>2, <3>3 DEF AttestedWhenDone, PublishInv
  <2> QED
    BY <2>1, <2>2
<1> QED
  BY <1>3, <1>5, <1>6, <1>9, <1>10, <1>11, <1>12 DEF PublishInv

\* Whatever the runs do next.
LEMMA RunNextKeepsInv ==
  ASSUME NEW Commit, Bounds, PublishInv(Commit), RunNext
  PROVE  PublishInv(Commit)'
BY PushKeepsInv, OtherStepKeepsInv DEF RunNext

\* A new run, after which of the old ones fewer may go on.
LEMMA NewRunKeepsInv ==
  ASSUME NEW Commit, NEW commit \in Commit, NEW ref \in Refs, NEW old \in Seq(Runs(Commit)),
         NEW flow \in {"publish", "release"},
         Bounds, PublishInv(Commit), DOMAIN old = DOMAIN runs,
         \A j \in DOMAIN runs :
           /\ old[j].flow = runs[j].flow /\ old[j].ref = runs[j].ref
           /\ old[j].done = runs[j].done /\ old[j].sbom = runs[j].sbom
           /\ old[j].alive => runs[j].alive
           /\ flow = "release" /\ runs[j].flow = "release" /\ runs[j].ref = ref => ~old[j].alive,
         RunsOf(flow) < IF flow = "publish" THEN MaxPushes ELSE MaxReleases,
         runs' = Append(old, NewRun(flow, ref, commit)),
         UNCHANGED <<container, registry, attested, released>>
  PROVE  PublishInv(Commit)'
<1> DEFINE n == Len(runs) + 1
           new == NewRun(flow, ref, commit)
<1>1. /\ runs \in Seq(Runs(Commit)) /\ Len(runs) \in Nat /\ DOMAIN runs = 1..Len(runs)
      /\ Len(old) = Len(runs)
  BY DEF PublishInv, PublishTypeOK
<1>2. /\ new \in Runs(Commit) /\ new.flow = flow /\ new.ref = ref
      /\ new.done = {} /\ new.sbom = None /\ new.alive
  BY DEF NewRun, Runs
<1> HIDE DEF new
<1>3. /\ runs' \in Seq(Runs(Commit)) /\ DOMAIN runs' = 1..n /\ Len(runs') = n /\ n \notin DOMAIN runs
      /\ runs'[n] = new /\ \A j \in DOMAIN runs : runs'[j] = old[j]
      /\ \A j \in DOMAIN runs' : j \in DOMAIN runs \/ j = n
  BY <1>1, <1>2 DEF new
<1>4. \A j, k \in DOMAIN runs' : j < k => j \in DOMAIN runs
  BY <1>1, <1>3
<1>5. PublishTypeOK(Commit)'
  BY <1>3 DEF PublishInv, PublishTypeOK
<1>6. Counted'
  <2> DEFINE S(f) == {j \in DOMAIN runs : runs[j].flow = f}
  <2>1. ASSUME NEW f PROVE IsFiniteSet(S(f)) /\ n \notin S(f) /\ RunsOf(f) = Cardinality(S(f))
    <3>1. IsFiniteSet(1..Len(runs)) /\ S(f) \subseteq 1..Len(runs)
      BY <1>1, FS_Interval
    <3> QED
      BY <3>1, <1>3, FS_Subset DEF RunsOf
  <2>2. ASSUME NEW f
        PROVE  RunsOf(f)' = Cardinality(IF f = flow THEN S(f) \cup {n} ELSE S(f))
    <3>1. {j \in DOMAIN runs' : runs'[j].flow = f} = IF f = flow THEN S(f) \cup {n} ELSE S(f)
      BY <1>2, <1>3
    <3> QED
      BY <3>1 DEF RunsOf
  <2> HIDE DEF S
  <2>3. ASSUME NEW f
        PROVE  RunsOf(f) \in Nat /\ RunsOf(f)' = IF f = flow THEN RunsOf(f) + 1 ELSE RunsOf(f)
    <3>1. IsFiniteSet(S(f)) /\ n \notin S(f) /\ RunsOf(f) = Cardinality(S(f))
      BY <2>1
    <3>2. Cardinality(S(f)) \in Nat /\ Cardinality(S(f) \cup {n}) = Cardinality(S(f)) + 1
      BY <3>1, FS_AddElement, FS_CardinalityType
    <3> QED
      BY <3>1, <3>2, <2>2
  <2> HIDE DEF n
  <2>4. /\ Len(runs) = RunsOf("publish") + RunsOf("release")
        /\ RunsOf("publish") <= MaxPushes /\ RunsOf("release") <= MaxReleases
        /\ RunsOf(flow) < IF flow = "publish" THEN MaxPushes ELSE MaxReleases
        /\ MaxPushes \in Nat /\ MaxReleases \in Nat
    BY DEF PublishInv, Counted, Bounds
  <2>a. /\ Len(runs') = Len(runs) + 1 /\ MaxPushes' = MaxPushes /\ MaxReleases' = MaxReleases
    BY <1>3 DEF n
  <2>b. /\ RunsOf("publish") \in Nat /\ RunsOf("release") \in Nat
        /\ RunsOf("publish")' = IF "publish" = flow THEN RunsOf("publish") + 1 ELSE RunsOf("publish")
        /\ RunsOf("release")' = IF "release" = flow THEN RunsOf("release") + 1 ELSE RunsOf("release")
    BY <2>3
  <2>5. CASE flow = "publish"
    BY <2>4, <2>5, <2>a, <2>b DEF Counted
  <2>6. CASE flow = "release"
    BY <2>4, <2>6, <2>a, <2>b DEF Counted
  <2> QED
    BY <2>5, <2>6
<1> HIDE DEF n
<1>7. LastReleaseOnly'
  <2> SUFFICES ASSUME NEW j \in DOMAIN runs, NEW k \in DOMAIN runs', j < k,
                      runs'[j].flow = "release", runs'[k].flow = "release",
                      runs'[j].ref = runs'[k].ref
               PROVE  ~runs'[j].alive
    BY <1>4 DEF LastReleaseOnly
  <2>1. CASE k \in DOMAIN runs
    BY <2>1, <1>3 DEF LastReleaseOnly, PublishInv
  <2>2. CASE k = n
    BY <2>2, <1>2, <1>3
  <2> QED
    BY <2>1, <2>2, <1>3
<1>a. /\ DOMAIN runs \subseteq DOMAIN runs'
      /\ \A j \in DOMAIN runs : runs'[j].flow = runs[j].flow /\ runs'[j].ref = runs[j].ref
  BY <1>3
<1>8. NameIsItsOwn'
  <2> SUFFICES ASSUME NEW k \in DOMAIN runs, runs[k].flow = "release", runs[k].alive,
                      "pushed" \in runs[k].done
               PROVE  IsNamesake(registry[runs[k].ref.name], k)'
    BY <1>2, <1>3 DEF NameIsItsOwn
  <2> PICK image : image = registry[runs[k].ref.name]
    OBVIOUS
  <2>1. IsNamesake(image, k) /\ registry'[runs'[k].ref.name] = image
    BY <1>a DEF NameIsItsOwn, PublishInv
  <2>2. IsNamesake(image, k)'
    BY <2>1, <1>a, NamesakesStay
  <2> QED
    BY <2>1, <2>2 DEF IsNamesake
<1>9. SbomIsItsOwn'
  <2> SUFFICES ASSUME NEW k \in DOMAIN runs, "sbom" \in runs[k].done
               PROVE  IsNamesake(runs[k].sbom, k)'
    BY <1>2, <1>3 DEF SbomIsItsOwn
  <2> PICK image : image = runs[k].sbom
    OBVIOUS
  <2>1. IsNamesake(image, k) /\ runs'[k].sbom = image
    BY <1>3 DEF SbomIsItsOwn, PublishInv
  <2>2. IsNamesake(image, k)'
    BY <2>1, <1>a, NamesakesStay
  <2> QED
    BY <2>1, <2>2 DEF IsNamesake
<1>10. AttestedWhenDone'
  <2> SUFFICES ASSUME NEW k \in DOMAIN runs'
               PROVE  \A step \in {"provenance", "attested"} :
                        step \in runs'[k].done
                          => \E a \in attested : a.kind = KindOf(step) /\ a.subject = k
    BY DEF AttestedWhenDone
  <2>1. CASE k \in DOMAIN runs
    BY <2>1, <1>3 DEF AttestedWhenDone, PublishInv
  <2>2. CASE k = n
    BY <2>2, <1>2, <1>3
  <2> QED
    BY <2>1, <2>2, <1>3
<1>11. SubjectsAreRuns' /\ SbomIsOfANamesake' /\ ReleaseIsAttested'
  BY <1>a, SbomsStay DEF SubjectsAreRuns, ReleaseIsAttested, PublishInv
<1> QED
  BY <1>5, <1>6, <1>7, <1>8, <1>9, <1>10, <1>11 DEF PublishInv

\* The invariant is about nothing else.
LEMMA NothingDoneKeepsInv ==
  ASSUME NEW Commit, PublishInv(Commit), UNCHANGED publishVars
  PROVE  PublishInv(Commit)'
BY DEF publishVars, PublishInv, PublishTypeOK, Counted, RunsOf, LastReleaseOnly, NameIsItsOwn,
       SbomIsItsOwn, AttestedWhenDone, SubjectsAreRuns, SbomIsOfANamesake, ReleaseIsAttested,
       IsNamesake, MayMoveName, SameGroup, NamesOf

\* A push of a commit, followed or not.
LEMMA StartPublishKeepsInv ==
  ASSUME NEW Commit, NEW commit \in Commit, Bounds, PublishInv(Commit), StartPublish(commit)
  PROVE  PublishInv(Commit)'
<1>1. runs \in Seq(Runs(Commit)) /\ Ref("heads", "main") \in Refs
  BY NamesOfRefs DEF PublishInv, PublishTypeOK
<1>2. CASE RunsOf("publish") < MaxPushes
  <2>1. /\ runs' = Append(runs, NewRun("publish", Ref("heads", "main"), commit))
        /\ UNCHANGED <<container, registry, attested, released>>
    BY <1>2 DEF StartPublish
  <2> QED
    BY <2>1, <1>1, <1>2, NewRunKeepsInv
<1>3. CASE ~(RunsOf("publish") < MaxPushes)
  <2>1. UNCHANGED publishVars
    BY <1>3 DEF StartPublish, publishVars
  <2> QED
    BY <2>1, NothingDoneKeepsInv
<1> QED
  BY <1>2, <1>3

\* A release, which cancels the ones before it for the same ref.
LEMMA StartReleaseKeepsInv ==
  ASSUME NEW Commit, NEW commit \in Commit, NEW ref \in Refs, Bounds, PublishInv(Commit),
         StartRelease(ref, commit)
  PROVE  PublishInv(Commit)'
<1>1. runs \in Seq(Runs(Commit)) /\ \A k \in DOMAIN runs : runs[k] \in Runs(Commit)
  BY DEF PublishInv, PublishTypeOK
<1>2. \A k \in DOMAIN runs :
        Cancelled(ref)[k] = IF runs[k].flow = "release" /\ runs[k].ref = ref
                            THEN [runs[k] EXCEPT !.alive = FALSE] ELSE runs[k]
  BY DEF Cancelled
<1>3. \A k \in DOMAIN runs :
        /\ Cancelled(ref)[k] \in Runs(Commit)
        /\ Cancelled(ref)[k].flow = runs[k].flow /\ Cancelled(ref)[k].ref = runs[k].ref
        /\ Cancelled(ref)[k].done = runs[k].done /\ Cancelled(ref)[k].sbom = runs[k].sbom
        /\ Cancelled(ref)[k].alive => runs[k].alive
        /\ runs[k].flow = "release" /\ runs[k].ref = ref => ~Cancelled(ref)[k].alive
  <2> SUFFICES ASSUME NEW k \in DOMAIN runs
               PROVE  /\ Cancelled(ref)[k] \in Runs(Commit)
                      /\ Cancelled(ref)[k].flow = runs[k].flow /\ Cancelled(ref)[k].ref = runs[k].ref
                      /\ Cancelled(ref)[k].done = runs[k].done /\ Cancelled(ref)[k].sbom = runs[k].sbom
                      /\ Cancelled(ref)[k].alive => runs[k].alive
                      /\ runs[k].flow = "release" /\ runs[k].ref = ref => ~Cancelled(ref)[k].alive
    OBVIOUS
  <2>1. runs[k] \in Runs(Commit)
    BY <1>1
  <2>2. CASE runs[k].flow = "release" /\ runs[k].ref = ref
    <3>1. Cancelled(ref)[k] = [runs[k] EXCEPT !.alive = FALSE]
      BY <1>2, <2>2
    <3> QED
      BY <2>1, <3>1 DEF Runs
  <2>3. CASE ~(runs[k].flow = "release" /\ runs[k].ref = ref)
    <3>1. Cancelled(ref)[k] = runs[k]
      BY <1>2, <2>3
    <3> QED
      BY <2>1, <2>3, <3>1
  <2> QED
    BY <2>2, <2>3
<1>4. DOMAIN Cancelled(ref) = DOMAIN runs /\ Cancelled(ref) \in [DOMAIN runs -> Runs(Commit)]
  BY <1>3 DEF Cancelled
<1> DEFINE old == Cancelled(ref)
<1>5. old \in Seq(Runs(Commit)) /\ DOMAIN old = DOMAIN runs
  <2>1. DOMAIN runs = 1..Len(runs) /\ Len(runs) \in Nat
    BY <1>1
  <2> HIDE DEF old
  <2>2. old \in [1..Len(runs) -> Runs(Commit)]
    BY <1>4, <2>1 DEF old
  <2> QED
    BY <2>1, <2>2
<1>6. /\ RunsOf("release") < MaxReleases /\ runs' = Append(old, NewRun("release", ref, commit))
      /\ UNCHANGED <<container, registry, attested, released>>
  BY DEF StartRelease
<1> QED
  BY <1>3, <1>5, <1>6, NewRunKeepsInv

\* At the start there is nothing in the registry, and no run.
LEMMA InitPublishInv ==
  ASSUME NEW Commit, Bounds, PublishInit
  PROVE  PublishInv(Commit)
<1>1. /\ container \in ContainerJobs /\ MeetsContract(container) /\ runs = <<>>
      /\ registry = [name \in Names |-> None]
      /\ attested = {} /\ released = {}
  BY DEF PublishInit
<1>2. DOMAIN runs = {} /\ Len(runs) = 0
  BY <1>1
<1>3. \A flow : RunsOf(flow) = 0
  <2>1. \A flow : {k \in DOMAIN runs : runs[k].flow = flow} = {}
    BY <1>2
  <2> QED
    BY <2>1, FS_EmptySet DEF RunsOf
<1>4. PublishTypeOK(Commit)
  BY <1>1 DEF PublishTypeOK
<1>5. Counted
  BY <1>2, <1>3 DEF Counted, Bounds
<1> QED
  BY <1>1, <1>2, <1>4, <1>5
     DEF PublishInv, LastReleaseOnly, NameIsItsOwn, SbomIsItsOwn, AttestedWhenDone,
         SubjectsAreRuns, SbomIsOfANamesake, ReleaseIsAttested
===============================================================================
