------------------------------- MODULE Release -------------------------------
(***************************************************************************)
(* One release: the tag made by create-release-tag.mjs, and the workflow   *)
(* that a pushed tag starts (.github/workflows/release.yml), whose jobs    *)
(* run the scripts of scripts/ in the order of their `needs'.  What they   *)
(* work on is shared with people and with other runs: main moves, the tag  *)
(* may be deleted and made again, settings change (ReleaseControls), a job *)
(* dies between a request and its answer and is run again.                 *)
(*                                                                         *)
(* GitHub, npm and the container registry are external: stores that answer *)
(* as the scripts expect.  A tarball is named by the commit it was packed  *)
(* from; an image build has a digest of its own.                           *)
(***************************************************************************)
EXTENDS ReleaseControls, Sequences

CONSTANTS
  MaxCommit,  \* commits of main, in order
  Versioned,  \* commits whose package.json has the released version
  Passing,    \* commits on which the required workflows have succeeded
  MaxRuns,    \* bound on the tags pushed
  MaxBuilds   \* bound on the image builds after which all jobs may be run again

Commit == 1 .. MaxCommit
Run == 1 .. MaxRuns

ASSUME ReleaseAssumption ==
  /\ MaxCommit \in Nat \ {0} /\ MaxRuns \in Nat \ {0} /\ MaxBuilds \in Nat
  /\ Versioned \subseteq Commit /\ Passing \subseteq Commit
  /\ None \notin Commit /\ None \notin [of : Commit, build : Nat]

VARIABLES
  main, tag,  \* the refs on GitHub
  tagger,     \* the tag that create-release-tag.mjs has made locally
  package,    \* the npm package: the placeholder, and what `latest' points to
  npm,        \* the published tarball of the version
  builds,     \* images built so far
  image,      \* the version's two docker tags
  page,       \* the GitHub release
  run,        \* the workflow runs
  disturbed   \* something else than a failed request can keep the first run from its end (history)

world == <<main, tag, tagger, package, npm, builds, image, page>>
releaseVars == <<world, run, disturbed>>
vars == <<controlVars, releaseVars>>

\* The steps of the workflow, job by job.
Flow == <<
  "verify/tag", "verify/main", "verify/live", "verify/ready", "verify/pack",
  "stage/approve", "stage/live", "stage/live-again", "stage/push",
  "public/live", "public/pull",
  "publish/approve", "publish/artifact", "publish/live", "publish/live-again",
  "publish/query", "publish/send", "publish/confirm",
  "promote/approve", "promote/live", "promote/lookup", "promote/push", "promote/check",
  "release/approve", "release/live", "release/artifact", "release/tag", "release/live-again",
  "release/post", "release/delete", "release/live-draft", "release/repost",
  "release/upload", "release/match", "release/live-publish", "release/patch",
  "release/published">>

Position(step) == CHOOSE i \in DOMAIN Flow : Flow[i] = step

\* The first step of the job a step belongs to: where a re-run of the failed jobs starts.
JobStart == [i \in DOMAIN Flow |->
  LET starts == {Position(s) : s \in {"verify/tag", "stage/approve", "public/live",
                   "publish/approve", "promote/approve", "release/approve"}}
  IN  CHOOSE j \in starts : j <= i /\ \A k \in starts : k <= i => k <= j]

LiveStep == {"verify/live", "stage/live", "stage/live-again", "public/live", "publish/live",
             "publish/live-again", "promote/live", "release/live", "release/live-again",
             "release/live-draft", "release/live-publish"}
ApproveStep == {"stage/approve", "publish/approve", "promote/approve", "release/approve"}

NoArtifact == [tarball |-> None, sbom |-> None, sums |-> None]
NoPage == [state |-> "none", of |-> None, assets |-> 0]
NoRun == [sha |-> None, actor |-> None, status |-> "none", pc |-> 1, half |-> FALSE,
          artifact |-> NoArtifact, digest |-> None, missing |-> {}]

Init ==
  /\ ControlsInit
  /\ main = 1 /\ tag = None
  /\ tagger = None
  /\ package \in {[exists |-> FALSE, boot |-> "idle", latest |-> "none"],
                  [exists |-> TRUE, boot |-> "done", latest |-> "none"]}
  /\ npm = None /\ builds = 0
  /\ image = [r \in {"vX.Y.Z", "X.Y.Z"} |-> None]
  /\ page = NoPage
  /\ run = [r \in Run |-> NoRun]
  /\ disturbed = FALSE

-----------------------------------------------------------------------------
(* The refs *)

\* Before there is a tag it does not matter which commit main is at.
PushMain ==
  /\ tagger # None \/ run[1].status # "none"
  /\ main < MaxCommit /\ main' = main + 1
  /\ disturbed' = TRUE
  /\ UNCHANGED <<controlVars, tag, tagger, package, npm, builds, image, page, run>>

\* createReleaseTag: HEAD is the main just fetched, its package.json has the version and
\* the tag is nowhere; the tag is signed and verified (if not, it is deleted again).
CreateReleaseTag ==
  /\ tagger = None /\ main \in Versioned /\ tag = None /\ setup.at = "idle"
  /\ tagger' = main
  /\ UNCHANGED <<controlVars, main, tag, package, npm, builds, image, page, run, disturbed>>

\* assertNpmPackageReady: the version may exist already, the placeholder may not be latest.
PackageReady == package.exists /\ package.latest # "placeholder"

\* assertSuccessfulMainWorkflowRun, of each required workflow.
MainPassed == main \in Passing

\* Pushing the tag starts a run for its commit.
PushTag(actor) ==
  /\ tagger # None /\ tag = None /\ tag' = tagger
  /\ \E r \in Run : /\ run[r].status = "none" /\ \A q \in 1 .. r - 1 : run[q].status # "none"
                    /\ run' = [run EXCEPT ![r] = [NoRun EXCEPT !.sha = tagger,
                                 !.actor = actor, !.status = "queued"]]
  /\ tagger' = None
  /\ disturbed' = (run[1].status # "none" \/ main # tagger \/ ~MainPassed
                     \/ ~PackageReady \/ ~SettingsReady(controls, actor))
  /\ UNCHANGED <<controlVars, main, package, npm, builds, image, page>>

\* Only without the tag ruleset.
DeleteTag ==
  /\ tag # None /\ controls.rules["tag"] # "right"
  /\ tag' = None /\ disturbed' = TRUE
  /\ UNCHANGED <<controlVars, main, tagger, package, npm, builds, image, page, run>>

-----------------------------------------------------------------------------
(* bootstrap-npm-package.mjs *)

Package(p) ==
  /\ package' = p
  /\ UNCHANGED <<controlVars, main, tag, tagger, npm, builds, image, page, run, disturbed>>

BootstrapChecks ==
  /\ package.boot = "idle" /\ ~package.exists /\ tagger = None /\ run[1].status = "none"
  /\ Package([package EXCEPT !.boot = "checked"])

\* The placeholder is published under its own dist-tag; npm may make it `latest' too.
BootstrapPublish(latest) ==
  /\ package.boot = "checked"
  /\ Package([exists |-> TRUE, boot |-> "published", latest |-> latest])

\* assertBootstrapPublished
BootstrapVerify ==
  /\ package.boot = "published"
  /\ Package([package EXCEPT !.boot = IF package.latest = "placeholder" THEN "refused" ELSE "done"])

\* The next version is released by a workflow of its own: only main's commit can be.
OtherRelease ==
  /\ main \notin Versioned /\ package.exists /\ package.latest # "other"
  /\ disturbed' = TRUE /\ package' = [package EXCEPT !.latest = "other"]
  /\ UNCHANGED <<controlVars, main, tag, tagger, npm, builds, image, page, run>>

-----------------------------------------------------------------------------
(* The runs *)

AtStep(r, step) == run[r].status = "running" /\ Flow[run[r].pc] = step

\* The step ends well and the next one begins.
Goto(r, step) == run' = [run EXCEPT ![r].pc = Position(step)]
Advance(r) == run' = [run EXCEPT ![r].pc = @ + 1]
FailRun(r) == run' = [run EXCEPT ![r].status = "failed", ![r].half = FALSE]
Finish(r) == run' = [run EXCEPT ![r].status = "done"]

\* The step ends well exactly under a condition.
Check(r, ok) == IF ok THEN Advance(r) ELSE FailRun(r)

Quiet == UNCHANGED <<controlVars, world, disturbed>>

\* A failed check between draft and release takes the draft away, if that request goes
\* through (reconcileDraftPublishFailure).
DraftAfter(r, ok) ==
  IF ok \/ ~AtStep(r, "release/live-publish") THEN {page} ELSE {page, NoPage}

\* A job dies, or a request it makes fails, before anything else is changed.
Dies(r) ==
  /\ run[r].status = "running" /\ faults < MaxFaults /\ faults' = faults + 1
  /\ Flow[run[r].pc] \notin {"release/upload", "release/match", "release/patch",
                             "release/published", "publish/send", "publish/confirm"}
  /\ FailRun(r)
  /\ page' \in DraftAfter(r, FALSE)
  /\ UNCHANGED <<controls, setup, drift, late, main, tag, tagger, package, npm, builds, image,
                 disturbed>>

\* The concurrency group of the workflow: one run of a tag at a time.
Start(r) ==
  /\ run[r].status = "queued" /\ \A q \in Run : run[q].status # "running"
  /\ run' = [run EXCEPT ![r].status = "running"]
  /\ Quiet

\* "Re-run failed jobs": the outputs of the others are kept.
Rerun(r) ==
  /\ run[r].status = "failed"
  /\ run' = [run EXCEPT ![r].status = "queued", ![r].pc = JobStart[@]]
  /\ Quiet

\* "Re-run all jobs": what the run itself has made public is in its way then.
RerunAll(r) ==
  /\ run[r].status = "failed" /\ builds < MaxBuilds
  /\ run' = [run EXCEPT ![r] = [NoRun EXCEPT !.sha = run[r].sha, !.actor = run[r].actor,
                                             !.status = "queued"]]
  /\ disturbed' = TRUE
  /\ UNCHANGED <<controlVars, world>>

-----------------------------------------------------------------------------
(* Checks that jobs share *)

\* assertLiveReleaseRefFromEnv: the tag is read first ...
LiveTag(r) ==
  LET ok == tag = run[r].sha IN
  /\ \E step \in LiveStep : AtStep(r, step)
  /\ ~run[r].half
  /\ IF ok THEN run' = [run EXCEPT ![r].half = TRUE] ELSE FailRun(r)
  /\ page' \in DraftAfter(r, ok)
  /\ UNCHANGED <<controlVars, main, tag, tagger, package, npm, builds, image, disturbed>>

\* ... and then main.
LiveMain(r) ==
  LET ok == main = run[r].sha IN
  /\ \E step \in LiveStep : AtStep(r, step)
  /\ run[r].half
  /\ IF ok THEN run' = [run EXCEPT ![r].half = FALSE, ![r].pc = @ + 1] ELSE FailRun(r)
  /\ page' \in DraftAfter(r, ok)
  /\ UNCHANGED <<controlVars, main, tag, tagger, package, npm, builds, image, disturbed>>

\* The environment of a job: a reviewer who is not the tag's pusher approves.
Approve(r) ==
  /\ \E step \in ApproveStep : AtStep(r, step)
  /\ controls.env # None => \E u \in controls.env.reviewers \ {run[r].actor} : u \in Writers
  /\ Advance(r) /\ Quiet

Parts == {"tarball", "sbom"}

\* assertReleaseAssetChecksums and verifyChecksumFile: SHA256SUMS names these very bytes.
ChecksumsMatch(a) == a.sums = <<a.tarball, a.sbom>>

\* verifySbomFile: the inventory is the one of the checked-out lockfile.
SbomMatches(a, sha) == a.sbom = sha

\* verifyPackedFileContents: every packed file is the checked-out one.
PackedMatches(a, sha) == a.tarball = sha

\* Mutant: the contents are not compared with the checkout.
VerifiedBySums(a, sha) == ChecksumsMatch(a)

\* assertPackedPackageMetadataMatchesWorkspace: it carries the version of the tag.
MetadataMatches(a) == a.tarball \in Versioned

\* verify-release-artifact.mjs
ArtifactVerified(a, sha) ==
  ChecksumsMatch(a) /\ SbomMatches(a, sha) /\ PackedMatches(a, sha) /\ MetadataMatches(a)

CheckArtifact(r) ==
  /\ AtStep(r, "publish/artifact") \/ AtStep(r, "release/artifact")
  /\ Check(r, ArtifactVerified(run[r].artifact, run[r].sha)) /\ Quiet

\* What the job downloads is not what was uploaded: one file, or the artifact of
\* another commit.
CheckCorrupt(r) ==
  /\ AtStep(r, "publish/artifact") \/ AtStep(r, "release/artifact")
  /\ faults < MaxFaults /\ faults' = faults + 1
  /\ \E c \in Commit \ {run[r].sha} :
     \E a \in {[tarball |-> c, sbom |-> c, sums |-> <<c, c>>]} \cup
              {[run[r].artifact EXCEPT ![part] = c] : part \in Parts} :
       IF ArtifactVerified(a, run[r].sha)
       THEN run' = [run EXCEPT ![r].pc = @ + 1, ![r].artifact = a]
       ELSE FailRun(r)
  /\ UNCHANGED <<controls, setup, drift, late, world, disturbed>>

-----------------------------------------------------------------------------
(* verify: check-release-tag, check-release-main, readiness, pack *)

VerifyTag(r) ==
  /\ AtStep(r, "verify/tag")
  /\ Check(r, run[r].sha \in Versioned) /\ Quiet

VerifyMain(r) ==
  /\ AtStep(r, "verify/main")
  /\ Check(r, main = run[r].sha) /\ Quiet

\* check-release-readiness.mjs: the package, main's required workflows, the settings.
VerifyReady(r) ==
  /\ AtStep(r, "verify/ready")
  /\ Check(r, PackageReady /\ MainPassed /\ SettingsReady(controls, run[r].actor)) /\ Quiet

\* write-release-sbom.mjs: the inventory of the lockfile it was packed with.
ReleaseSbom(sha) == sha

\* write-release-checksum.mjs
ReleaseSums(tarball, sbom) == <<tarball, sbom>>

\* What smoke-release-artifact.mjs leaves in release-artifacts.
Packed(sha) ==
  [tarball |-> sha, sbom |-> ReleaseSbom(sha), sums |-> ReleaseSums(sha, ReleaseSbom(sha))]

Pack(r) ==
  /\ AtStep(r, "verify/pack") /\ ArtifactVerified(Packed(run[r].sha), run[r].sha)
  /\ run' = [run EXCEPT ![r].pc = @ + 1, ![r].artifact = Packed(run[r].sha)]
  /\ Quiet

-----------------------------------------------------------------------------
(* publish-docker-image.mjs *)

\* The image is built in the job and pushed under the run's own name.
StagePush(r) ==
  /\ AtStep(r, "stage/push")
  /\ builds' = builds + 1
  /\ run' = [run EXCEPT ![r].pc = @ + 1, ![r].digest = [of |-> run[r].sha, build |-> builds']]
  /\ UNCHANGED <<controlVars, main, tag, tagger, package, npm, image, page, disturbed>>

\* --assert-public: a pull without credentials sees the staged digest.
PublicPull(r) ==
  /\ AtStep(r, "public/pull") /\ Advance(r) /\ Quiet

\* Mutant: a tag that points elsewhere counts as missing.
LookupAny(r) ==
  /\ AtStep(r, "promote/lookup")
  /\ run' = [run EXCEPT ![r].pc = @ + 1,
                        ![r].missing = {ref \in DOMAIN image : image[ref] # run[r].digest}]
  /\ Quiet

\* missingDockerReleaseTags: a tag that points elsewhere is never moved.
Lookup(r) ==
  /\ AtStep(r, "promote/lookup")
  /\ IF \A ref \in DOMAIN image : image[ref] \in {None, run[r].digest}
     THEN run' = [run EXCEPT ![r].pc = @ + 1,
                             ![r].missing = {ref \in DOMAIN image : image[ref] = None}]
     ELSE FailRun(r)
  /\ Quiet

\* pushDockerReleaseTag, one missing tag after the other; the answer may be lost.
PushImage(r, ref) ==
  /\ AtStep(r, "promote/push") /\ ref \in run[r].missing
  /\ ref = "X.Y.Z" => "vX.Y.Z" \notin run[r].missing
  /\ image' = [image EXCEPT ![ref] = run[r].digest]
  /\ \/ run' = [run EXCEPT ![r].missing = @ \ {ref}] /\ UNCHANGED faults
     \/ FailRun(r) /\ faults < MaxFaults /\ faults' = faults + 1
  /\ UNCHANGED <<controls, setup, drift, late, main, tag, tagger, package, npm, builds, page, disturbed>>

Pushed(r) == AtStep(r, "promote/push") /\ run[r].missing = {} /\ Advance(r) /\ Quiet

\* assertAnonymousDockerPull of both tags.
CheckImage(r) ==
  /\ AtStep(r, "promote/check")
  /\ Check(r, \A ref \in DOMAIN image : image[ref] = run[r].digest) /\ Quiet

-----------------------------------------------------------------------------
(* publish-release-artifact.mjs *)

\* assertNpmPublished: what the registry shows, unless it lags behind or is unwell.
NpmState(r) ==
  IF npm = None THEN "pending"
  ELSE IF npm # run[r].artifact.tarball THEN "mismatch"
  ELSE IF package.latest # "this" THEN "pending" ELSE "match"

\* npmPublishedMatches
Query(r, answer) ==
  /\ AtStep(r, "publish/query") /\ answer \in {NpmState(r), "pending"}
  /\ CASE answer = "match" -> Goto(r, "promote/approve")
       [] answer = "mismatch" -> FailRun(r)
       [] OTHER -> Advance(r)
  /\ Quiet

\* pnpm publish: npm takes a version once.  Whether it fails or succeeds, the script goes
\* on to look at the registry.
Publish(r) ==
  /\ AtStep(r, "publish/send") /\ Advance(r)
  /\ \/ /\ npm = None
        /\ npm' = run[r].artifact.tarball /\ package' = [package EXCEPT !.latest = "this"]
        /\ UNCHANGED faults
     \/ npm # None /\ UNCHANGED <<npm, package, faults>>
     \/ faults < MaxFaults /\ faults' = faults + 1 /\ UNCHANGED <<npm, package>>
  /\ UNCHANGED <<controls, setup, drift, late, main, tag, tagger, builds, image, page, disturbed>>

\* assertNpmPublishedEventually: the last of its attempts decides.
Confirm(r) ==
  /\ AtStep(r, "publish/confirm")
  /\ \/ Check(r, NpmState(r) = "match") /\ UNCHANGED faults
     \/ FailRun(r) /\ faults < MaxFaults /\ faults' = faults + 1
  /\ UNCHANGED <<controls, setup, drift, late, world, disturbed>>

-----------------------------------------------------------------------------
(* create-github-release.mjs *)

Draft == [state |-> "draft", of |-> None, assets |-> 0]

\* What the page must be: the run's three verified files.
PageMatches(r) == page.of = run[r].artifact.tarball /\ page.assets = 3

PageOnly == UNCHANGED <<controls, setup, drift, late, main, tag, tagger, package, npm, builds,
                        image, disturbed>>

\* One request fails, with or without its effect.
Fault == faults < MaxFaults /\ faults' = faults + 1

ReleaseTag(r) ==
  /\ AtStep(r, "release/tag")
  /\ Check(r, tag = run[r].sha) /\ Quiet

\* createDraftRelease: a new draft, whose answer may be lost, ...
PostDraft(r) ==
  /\ AtStep(r, "release/post") \/ AtStep(r, "release/repost")
  /\ page = NoPage /\ page' = Draft
  /\ \/ Goto(r, "release/upload") /\ UNCHANGED faults
     \/ FailRun(r) /\ Fault
  /\ PageOnly

\* ... or the one that is there: published, it must be this one; a draft is replaced.
ExistingRelease(r) ==
  /\ AtStep(r, "release/post") /\ page # NoPage
  /\ CASE page.state = "draft" -> Goto(r, "release/delete")
       [] page.state = "published" /\ PageMatches(r) -> Finish(r)
       [] OTHER -> FailRun(r)
  /\ Quiet

DeleteDraft(r) ==
  /\ AtStep(r, "release/delete") /\ page' = NoPage
  /\ \/ Advance(r) /\ UNCHANGED faults
     \/ FailRun(r) /\ Fault
  /\ PageOnly

\* The three files, one request each; a failure takes the draft away if it can.
Upload(r) ==
  /\ AtStep(r, "release/upload")
  /\ \/ /\ page' = [page EXCEPT !.of = run[r].artifact.tarball, !.assets = @ + 1]
        /\ IF page'.assets = 3 THEN Advance(r) ELSE UNCHANGED run
        /\ UNCHANGED faults
     \/ page' \in {page, NoPage} /\ FailRun(r) /\ Fault
  /\ PageOnly

\* assertRemoteReleaseAssetsMatch
MatchAssets(r) ==
  /\ AtStep(r, "release/match")
  /\ \/ PageMatches(r) /\ Advance(r) /\ UNCHANGED <<page, faults>>
     \/ page' \in {page, NoPage} /\ FailRun(r) /\ Fault
  /\ PageOnly

\* publishDraftRelease, and reconcileDraftPublishFailure when its request fails: a release
\* that is published after all counts, a draft is deleted.
PublishPage(r) ==
  /\ AtStep(r, "release/patch")
  /\ \/ page' = [page EXCEPT !.state = "published"] /\ Advance(r) /\ UNCHANGED faults
     \/ page' = [page EXCEPT !.state = "published"] /\ Finish(r) /\ Fault
     \/ page' \in {page, NoPage} /\ FailRun(r) /\ Fault
  /\ PageOnly

\* assertPublishedReleaseMatches
PublishedMatches(r) ==
  /\ AtStep(r, "release/published") /\ PageMatches(r)
  /\ \/ Finish(r) /\ UNCHANGED faults
     \/ FailRun(r) /\ Fault
  /\ UNCHANGED page /\ PageOnly

-----------------------------------------------------------------------------
(* The specification *)

Job(r) ==
  \/ Start(r)
  \/ LiveTag(r) \/ LiveMain(r) \/ Approve(r) \/ CheckArtifact(r)
  \/ VerifyTag(r) \/ VerifyMain(r) \/ VerifyReady(r) \/ Pack(r)
  \/ StagePush(r) \/ PublicPull(r)
  \/ Lookup(r) \/ (\E ref \in DOMAIN image : PushImage(r, ref)) \/ Pushed(r) \/ CheckImage(r)
  \/ (\E answer \in {"match", "mismatch", "pending"} : Query(r, answer))
  \/ Publish(r) \/ Confirm(r)
  \/ ReleaseTag(r) \/ PostDraft(r) \/ ExistingRelease(r) \/ DeleteDraft(r)
  \/ Upload(r) \/ MatchAssets(r) \/ PublishPage(r) \/ PublishedMatches(r)

\* A behaviour sets the repository up or releases from initial settings that stand for
\* what an earlier set-up left; settings change at any time.
Settle ==
  /\ \/ Configure /\ tagger = None /\ run[1].status = "none"
     \/ Drift
  /\ UNCHANGED <<world, run>>
  /\ disturbed' = (disturbed \/ controls' # controls)

Next ==
  \/ Settle
  \/ PushMain \/ CreateReleaseTag
  \/ (\E u \in User : PushTag(u)) \/ DeleteTag
  \/ BootstrapChecks \/ (\E l \in {"none", "placeholder"} : BootstrapPublish(l)) \/ BootstrapVerify
  \/ OtherRelease
  \/ \E r \in Run : Job(r) \/ Dies(r) \/ CheckCorrupt(r) \/ Rerun(r) \/ RerunAll(r)

Spec == Init /\ [][Next]_vars

\* A runner goes on with its job and a maintainer approves it and runs failed jobs again.
FairSpec == Spec /\ WF_vars(\E r \in Run : Job(r) \/ Rerun(r))

-----------------------------------------------------------------------------
(* Properties *)

Status == {"none", "queued", "running", "failed", "done"}
Tarball == Commit \cup {None}
Digest == [of : Commit, build : 1 .. builds] \cup {None}
Artifact == [tarball : Tarball, sbom : Tarball, sums : (Tarball \X Tarball) \cup {None}]
Ref == {"vX.Y.Z", "X.Y.Z"}
RunRecord ==
  [sha : Tarball, actor : User \cup {None}, status : Status, pc : DOMAIN Flow, half : BOOLEAN,
   artifact : Artifact, digest : Digest, missing : SUBSET Ref]

\* The types of the release's state and of the settings.
TypeOK ==
  /\ ControlsTypeOK
  /\ main \in Commit /\ tag \in Tarball /\ tagger \in Tarball
  /\ package \in [exists : BOOLEAN, boot : {"idle", "checked", "published", "refused", "done"},
                  latest : {"none", "placeholder", "this", "other"}]
  /\ npm \in Tarball /\ builds \in Nat
  /\ image \in [Ref -> Digest]
  /\ page \in [state : {"none", "draft", "published"}, of : Tarball, assets : 0 .. 3]
  /\ run \in [Run -> RunRecord]
  /\ disturbed \in BOOLEAN

\* Whatever moved, died or was run again, all that is public under the version comes from
\* one commit that carries it, and in the promised order: no docker tag before the npm
\* package, no release page before both docker tags, and those name one image.
PublicAgree ==
  /\ npm # None => npm \in Versioned
  /\ \A ref \in DOMAIN image : image[ref] # None => image[ref].of = npm
  /\ page.state = "published" =>
       /\ page.of = npm /\ page.assets = 3 /\ npm # None
       /\ image["vX.Y.Z"] = image["X.Y.Z"] /\ image["X.Y.Z"] # None

\* The two scripts agree: what the configuration has written, read again and reported is
\* ready for a release by the one who ran it, even if settings were changed by hand while
\* it ran, as long as none is changed after its last look at it.  Of the preflight token
\* it knows nothing: the secret has to be there, and its owner, who does not count as a
\* reviewer to the readiness check, must not be the only one left to approve.
ConfiguredIsReady ==
  /\ setup.at = "done" /\ ~late
  /\ controls.token # "missing"
  /\ ~(controls.env.reviewers \subseteq {setup.operator, controls.token})
  => SettingsReady(controls, setup.operator)

\* What users may have fetched never changes: the version's tarball, each docker tag and
\* the published page.
PublicImmutable ==
  [][/\ npm # None => npm' = npm
     /\ \A ref \in DOMAIN image : image[ref] # None => image'[ref] = image[ref]
     /\ page.state = "published" => page' = page]_vars

\* When requests fail or jobs die, running the failed jobs again completes the release,
\* however far they had come: no step is stopped by what its first try left behind.
RerunCompletes ==
  run[1].status = "queued" /\ ~disturbed ~> page.state = "published" \/ disturbed
=============================================================================
