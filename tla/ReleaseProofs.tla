---------------------------- MODULE ReleaseProofs ----------------------------
(***************************************************************************)
(* What is public under a version never changes and comes from one commit, *)
(* and the two scripts about the repository's settings agree: proved for   *)
(* every number of commits, runs, failures and accounts.                   *)
(***************************************************************************)
EXTENDS Release, TLAPS

-----------------------------------------------------------------------------
(* The inductive invariant *)

\* The workflow's concurrency group.
OneAtATime ==
  \A q, r \in Run : run[q].status = "running" /\ run[r].status = "running" => q = r

\* Runs are made in order; one that was not made has done nothing, and one that waits is
\* at the start of a job.
RunsInOrder ==
  \A r \in Run : /\ run[r].status # "none" => run[1].status # "none"
                 /\ run[r].status = "none" => run[r].pc = 1
                 /\ run[r].status = "queued" => JobStart[run[r].pc] = run[r].pc

Past(job, step) == job.pc > Position(step)

\* What a run has established when it is past a step, running or not; n and i are what npm
\* and the docker tags are.
Established(job, n, i) ==
  /\ job.status # "none" => job.sha # None
  /\ Past(job, "verify/tag") => job.status # "none" /\ job.sha \in Versioned
  /\ Past(job, "verify/pack") => job.artifact.tarball = job.sha
  /\ Past(job, "stage/push") => job.digest # None /\ job.digest.of = job.sha
  /\ Past(job, "publish/confirm") => n = job.sha
  /\ Past(job, "promote/check") => \A ref \in Ref : i[ref] = job.digest

On(job, step) == job.pc = Position(step)

\* What only the run that is running may rely on; p is the release page.
Holds(job, i, p) ==
  /\ On(job, "promote/push") =>
       \A ref \in Ref : i[ref] = IF ref \in job.missing THEN None ELSE job.digest
  /\ On(job, "release/delete") => p.state = "draft"
  /\ On(job, "release/upload") => p.state = "draft" /\ p.assets < 3
  /\ On(job, "release/match") \/ On(job, "release/live-publish") \/ On(job, "release/patch")
       => p = [state |-> "draft", of |-> job.sha, assets |-> 3]

RunsAgree ==
  \A r \in Run : /\ Established(run[r], npm, image)
                 /\ run[r].status = "running" => Holds(run[r], image, page)

Inv == TypeOK /\ OneAtATime /\ RunsInOrder /\ RunsAgree /\ PublicAgree

-----------------------------------------------------------------------------
(* The steps of the workflow *)

\* Where each step is: no two have the same name.
LEMMA FlowPlaces ==
  /\ DOMAIN Flow = 1 .. 37
  /\ Flow[1] = "verify/tag" /\ Flow[2] = "verify/main" /\ Flow[3] = "verify/live"
  /\ Flow[4] = "verify/ready" /\ Flow[5] = "verify/pack" /\ Flow[6] = "stage/approve"
  /\ Flow[7] = "stage/live" /\ Flow[8] = "stage/live-again" /\ Flow[9] = "stage/push"
  /\ Flow[10] = "public/live" /\ Flow[11] = "public/pull" /\ Flow[12] = "publish/approve"
  /\ Flow[13] = "publish/artifact" /\ Flow[14] = "publish/live" /\ Flow[15] = "publish/live-again"
  /\ Flow[16] = "publish/query" /\ Flow[17] = "publish/send" /\ Flow[18] = "publish/confirm"
  /\ Flow[19] = "promote/approve" /\ Flow[20] = "promote/live" /\ Flow[21] = "promote/lookup"
  /\ Flow[22] = "promote/push" /\ Flow[23] = "promote/check" /\ Flow[24] = "release/approve"
  /\ Flow[25] = "release/live" /\ Flow[26] = "release/artifact" /\ Flow[27] = "release/tag"
  /\ Flow[28] = "release/live-again" /\ Flow[29] = "release/post" /\ Flow[30] = "release/delete"
  /\ Flow[31] = "release/live-draft" /\ Flow[32] = "release/repost" /\ Flow[33] = "release/upload"
  /\ Flow[34] = "release/match" /\ Flow[35] = "release/live-publish" /\ Flow[36] = "release/patch"
  /\ Flow[37] = "release/published"
  /\ \A i, j \in DOMAIN Flow : Flow[i] = Flow[j] => i = j
BY DEF Flow

\* The place of each step in the flow.
LEMMA Places ==
  /\ Position("verify/tag") = 1 /\ Position("verify/main") = 2 /\ Position("verify/live") = 3
  /\ Position("verify/ready") = 4 /\ Position("verify/pack") = 5 /\ Position("stage/approve") = 6
  /\ Position("stage/live") = 7 /\ Position("stage/live-again") = 8 /\ Position("stage/push") = 9
  /\ Position("public/live") = 10 /\ Position("public/pull") = 11
  /\ Position("publish/approve") = 12 /\ Position("publish/artifact") = 13
  /\ Position("publish/live") = 14 /\ Position("publish/live-again") = 15
  /\ Position("publish/query") = 16 /\ Position("publish/send") = 17
  /\ Position("publish/confirm") = 18 /\ Position("promote/approve") = 19
  /\ Position("promote/live") = 20 /\ Position("promote/lookup") = 21
  /\ Position("promote/push") = 22 /\ Position("promote/check") = 23
  /\ Position("release/approve") = 24 /\ Position("release/live") = 25
  /\ Position("release/artifact") = 26 /\ Position("release/tag") = 27
  /\ Position("release/live-again") = 28 /\ Position("release/post") = 29
  /\ Position("release/delete") = 30 /\ Position("release/live-draft") = 31
  /\ Position("release/repost") = 32 /\ Position("release/upload") = 33
  /\ Position("release/match") = 34 /\ Position("release/live-publish") = 35
  /\ Position("release/patch") = 36 /\ Position("release/published") = 37
BY FlowPlaces DEF Position

\* A re-run starts at or before the step that failed, and where a job starts.
LEMMA JobStartBefore ==
  ASSUME NEW i \in DOMAIN Flow
  PROVE  /\ JobStart[i] \in DOMAIN Flow /\ JobStart[i] <= i
         /\ JobStart[i] \in {1, 6, 10, 12, 19, 24}
         /\ i \in {1, 6, 10, 12, 19, 24} => JobStart[i] = i
<1> DEFINE starts == {Position(s) : s \in {"verify/tag", "stage/approve", "public/live",
                        "publish/approve", "promote/approve", "release/approve"}}
<1>1. starts = {1, 6, 10, 12, 19, 24}
  BY Places
<1>2. \E j \in starts : j <= i /\ \A k \in starts : k <= i => k <= j
  BY <1>1, FlowPlaces
<1>3. JobStart[i] = CHOOSE j \in starts : j <= i /\ \A k \in starts : k <= i => k <= j
  BY DEF JobStart
<1> QED
  BY <1>1, <1>2, <1>3, FlowPlaces

-----------------------------------------------------------------------------
(* How a step changes the runs *)

\* A running job is at the place of its step.
LEMMA StepPlace ==
  ASSUME TypeOK, NEW r \in Run, NEW step, AtStep(r, step)
  PROVE  run[r].status = "running" /\ run[r].pc = Position(step)
<1>1. run[r].pc \in DOMAIN Flow
  BY DEF TypeOK, RunRecord
<1> QED
  BY <1>1, FlowPlaces DEF AtStep, Position

\* Only run r changes.
Turn(r) ==
  /\ run' = [run EXCEPT ![r] = run'[r]]
  /\ run'[r].sha = run[r].sha /\ run'[r].actor = run[r].actor

\* ... in its place only
Stays(r) ==
  /\ run'[r].artifact = run[r].artifact /\ run'[r].digest = run[r].digest

\* Going on to the next step changes the run's place only.
LEMMA AdvanceTurn ==
  ASSUME TypeOK, NEW r \in Run, Advance(r), run[r].pc < 37
  PROVE  /\ Turn(r) /\ Stays(r) /\ run'[r] \in RunRecord
         /\ run'[r].missing = run[r].missing
         /\ run'[r].pc = run[r].pc + 1 /\ run'[r].status = run[r].status
<1>1. run \in [Run -> RunRecord]
  BY DEF TypeOK
<1>2. run' = [run EXCEPT ![r] = [run[r] EXCEPT !.pc = @ + 1]]
  BY DEF Advance
<1>3. run[r].pc + 1 \in DOMAIN Flow
  BY <1>1, FlowPlaces DEF RunRecord
<1> QED
  BY <1>1, <1>2, <1>3 DEF Turn, Stays, RunRecord

\* A failing run stays where it is.
LEMMA FailTurn ==
  ASSUME TypeOK, NEW r \in Run, FailRun(r)
  PROVE  /\ Turn(r) /\ Stays(r) /\ run'[r] \in RunRecord
         /\ run'[r].pc = run[r].pc /\ run'[r].status = "failed"
<1>1. run \in [Run -> RunRecord]
  BY DEF TypeOK
<1>2. run' = [run EXCEPT ![r] = [run[r] EXCEPT !.status = "failed", !.half = FALSE]]
  BY <1>1 DEF FailRun
<1> QED
  BY <1>1, <1>2 DEF Turn, Stays, RunRecord, Status

\* A run that is done stays where it is.
LEMMA FinishTurn ==
  ASSUME TypeOK, NEW r \in Run, Finish(r)
  PROVE  /\ Turn(r) /\ Stays(r) /\ run'[r] \in RunRecord
         /\ run'[r].pc = run[r].pc /\ run'[r].status = "done"
<1>1. run \in [Run -> RunRecord]
  BY DEF TypeOK
<1>2. run' = [run EXCEPT ![r] = [run[r] EXCEPT !.status = "done"]]
  BY <1>1 DEF Finish
<1> QED
  BY <1>1, <1>2 DEF Turn, Stays, RunRecord, Status

\* Jumping to a step changes the run's place only.
LEMMA GotoTurn ==
  ASSUME TypeOK, NEW r \in Run, NEW step, Goto(r, step), Position(step) \in DOMAIN Flow
  PROVE  /\ Turn(r) /\ Stays(r) /\ run'[r] \in RunRecord
         /\ run'[r].pc = Position(step) /\ run'[r].status = run[r].status
<1>1. run \in [Run -> RunRecord]
  BY DEF TypeOK
<1>2. run' = [run EXCEPT ![r] = [run[r] EXCEPT !.pc = Position(step)]]
  BY <1>1 DEF Goto
<1> QED
  BY <1>1, <1>2 DEF Turn, Stays, RunRecord, Status

-----------------------------------------------------------------------------
(* What every step of a run and every step of something else has in common *)

\* What PublicImmutable says of one step.
Kept ==
  /\ npm # None => npm' = npm
  /\ \A ref \in DOMAIN image : image[ref] # None => image'[ref] = image[ref]
  /\ page.state = "published" => page' = page

\* A new build adds a digest and takes none away.
LEMMA DigestGrows ==
  ASSUME builds \in Nat, builds' \in Nat, builds' >= builds
  PROVE  Digest \subseteq Digest' /\ RunRecord \subseteq RunRecord'
<1>1. Digest \subseteq Digest'
  BY DEF Digest
<1> QED
  BY <1>1 DEF RunRecord, Artifact, Tarball, Commit, Ref

\* A step of something else than a run.
LEMMA WorldStep ==
  ASSUME Inv, UNCHANGED <<npm, builds, image, page, run>>,
         ControlsTypeOK', disturbed' \in BOOLEAN,
         main' \in Commit /\ tag' \in Tarball /\ tagger' \in Tarball,
         package' \in [exists : BOOLEAN, boot : {"idle", "checked", "published", "refused", "done"},
                       latest : {"none", "placeholder", "this", "other"}]
  PROVE  Inv' /\ Kept
<1>1. TypeOK'
  BY DEF Inv, TypeOK, RunRecord, Digest, Artifact, Tarball, Commit, Ref
<1>2. OneAtATime' /\ RunsInOrder'
  BY DEF Inv, OneAtATime, RunsInOrder
<1>3. PublicAgree'
  BY DEF Inv, PublicAgree
<1>4. RunsAgree'
  <2> SUFFICES ASSUME NEW r \in Run
               PROVE  /\ Established(run[r], npm, image)'
                      /\ (run[r].status = "running" => Holds(run[r], image, page))'
    BY DEF RunsAgree
  <2>1. /\ Established(run[r], npm, image)
        /\ run[r].status = "running" => Holds(run[r], image, page)
    BY DEF Inv, RunsAgree
  <2> QED
    BY <2>1 DEF Established, Holds
<1> QED
  BY <1>1, <1>2, <1>3, <1>4 DEF Inv, Kept

\* A step of a run: what it owes besides is about itself and what is public.
LEMMA JobStep ==
  ASSUME Inv, NEW r \in Run,
         run' = [run EXCEPT ![r] = run'[r]], run'[r] \in RunRecord',
         run[r].status # "none" \/ \A q \in 1 .. r - 1 : run[q].status # "none",
         run'[r].status # "none",
         run'[r].status = "queued" => JobStart[run'[r].pc] = run'[r].pc,
         run'[r].status = "running" => \A q \in Run : run[q].status = "running" => q = r,
         run[r].status = "running" \/ UNCHANGED <<image, page>>,
         Established(run'[r], npm', image'),
         run'[r].status = "running" => Holds(run'[r], image', page'),
         Kept, PublicAgree', UNCHANGED <<controls, drift>>,
         ControlsTypeOK', disturbed' \in BOOLEAN,
         main' \in Commit /\ tag' \in Tarball /\ tagger' \in Tarball,
         package' \in [exists : BOOLEAN, boot : {"idle", "checked", "published", "refused", "done"},
                       latest : {"none", "placeholder", "this", "other"}],
         npm' \in Tarball, builds' \in Nat, builds' >= builds, image' \in [Ref -> Digest'],
         page' \in [state : {"none", "draft", "published"}, of : Tarball, assets : 0 .. 3]
  PROVE  Inv' /\ Kept
<1> USE DEF Inv
<1>1. run \in [Run -> RunRecord] /\ builds \in Nat /\ image \in [Ref -> Digest]
  BY DEF TypeOK
<1>2. RunRecord \subseteq RunRecord'
  BY <1>1, DigestGrows
<1>3. run' \in [Run -> RunRecord'] /\ \A q \in Run \ {r} : run'[q] = run[q]
  BY <1>1, <1>2
<1>4. TypeOK'
  BY <1>3 DEF TypeOK, Tarball, Commit, Ref
<1>5. OneAtATime'
  BY <1>3 DEF OneAtATime
<1>6. RunsInOrder'
  <2>1. 1 \in Run /\ r \in Nat
    BY ReleaseAssumption DEF Run
  <2>2. r # 1 => run[1].status # "none"
    BY <2>1 DEF RunsInOrder, Run
  <2>3. run'[1].status # "none"
    BY <2>1, <2>2, <1>3
  <2> QED
    BY <2>3, <1>3 DEF RunsInOrder
<1>7. ASSUME NEW q \in Run, q # r
      PROVE  Established(run[q], npm', image')
  <2>1. Established(run[q], npm, image)
    BY DEF RunsAgree
  <2>2. Past(run[q], "publish/confirm") => npm' = run[q].sha
    BY <1>1, <2>1, Places, ReleaseAssumption
       DEF Established, Kept, Past, RunRecord, Tarball, Commit, Flow
  <2>3. Past(run[q], "promote/check") => \A ref \in Ref : image'[ref] = run[q].digest
    <3> SUFFICES ASSUME Past(run[q], "promote/check"), NEW ref \in Ref
                 PROVE  image'[ref] = run[q].digest
      OBVIOUS
    <3>1. run[q].pc \in 1 .. 37
      BY <1>1, FlowPlaces DEF RunRecord
    <3>2. Past(run[q], "stage/push")
      BY <3>1, Places DEF Past
    <3> QED
      BY <1>1, <2>1, <3>2 DEF Established, Kept
  <2> QED
    BY <2>1, <2>2, <2>3 DEF Established
<1>8. ASSUME NEW q \in Run, q # r, run[q].status = "running"
      PROVE  Holds(run[q], image', page')
  <2>1. UNCHANGED <<image, page>>
    BY <1>8 DEF OneAtATime
  <2> QED
    BY <1>8, <2>1 DEF RunsAgree
<1>9. ASSUME NEW q \in Run
      PROVE  /\ Established(run[q], npm, image)'
             /\ (run[q].status = "running" => Holds(run[q], image, page))'
  <2>1. /\ Established(run'[q], npm', image')
        /\ run'[q].status = "running" => Holds(run'[q], image', page')
    BY <1>3, <1>7, <1>8
  <2> QED
    BY <2>1 DEF Established, Holds
<1>10. RunsAgree'
  BY <1>9 DEF RunsAgree
<1> QED
  BY <1>4, <1>5, <1>6, <1>10

\* A request that fails leaves the settings' types alone.
LEMMA FaultTypes ==
  ASSUME ControlsTypeOK, UNCHANGED <<controls, setup, drift, late>>, UNCHANGED faults \/ Fault
  PROVE  ControlsTypeOK'
BY UserAssumption DEF ControlsTypeOK, Fault, Settings, Environment, Step

\* A run that does not go on keeps what it has established.
LEMMA Standing ==
  ASSUME Inv, NEW r \in Run, Turn(r), Stays(r), run[r].status # "none", run'[r].status # "none",
         run'[r].pc \in DOMAIN Flow, run'[r].pc <= run[r].pc
  PROVE  Established(run'[r], npm, image)
<1>1. run[r] \in RunRecord /\ Established(run[r], npm, image)
  BY DEF Inv, TypeOK, RunsAgree
<1>2. run[r].pc \in 1 .. 37 /\ run'[r].pc \in 1 .. 37
  BY <1>1, FlowPlaces DEF RunRecord
<1> QED
  BY <1>1, <1>2, Places DEF Established, Past, Turn, Stays

\* Nor does a step establish anything but the five that are named.
LEMMA GoingOn ==
  ASSUME Inv, NEW r \in Run, Turn(r), Stays(r), run[r].status # "none", run'[r].status # "none",
         run'[r].pc = run[r].pc + 1, run[r].pc \notin {1, 5, 9, 18, 23}
  PROVE  Established(run'[r], npm, image)
<1>1. run[r] \in RunRecord /\ Established(run[r], npm, image)
  BY DEF Inv, TypeOK, RunsAgree
<1>2. run[r].pc \in 1 .. 37
  BY <1>1, FlowPlaces DEF RunRecord
<1> QED
  BY <1>1, <1>2, Places DEF Established, Past, Turn, Stays

\* A step that changes nothing outside the run.
LEMMA QuietStep ==
  ASSUME Inv, NEW r \in Run, run[r].status = "running", Turn(r), run'[r] \in RunRecord,
         UNCHANGED <<controls, setup, drift, late, world, disturbed>>, UNCHANGED faults \/ Fault,
         run'[r].status \notin {"none", "queued"},
         Established(run'[r], npm, image),
         run'[r].status = "running" => Holds(run'[r], image, page)
  PROVE  Inv' /\ Kept
<1>1. /\ UNCHANGED <<npm, builds, image, page, disturbed>>
      /\ ControlsTypeOK' /\ Kept /\ PublicAgree'
      /\ main' \in Commit /\ tag' \in Tarball /\ tagger' \in Tarball
      /\ package' \in [exists : BOOLEAN,
                       boot : {"idle", "checked", "published", "refused", "done"},
                       latest : {"none", "placeholder", "this", "other"}]
  BY FaultTypes DEF Inv, TypeOK, world, Kept, PublicAgree
<1>2. /\ npm' \in Tarball /\ builds' \in Nat /\ builds' >= builds
      /\ image' \in [Ref -> Digest'] /\ run'[r] \in RunRecord'
      /\ page' \in [state : {"none", "draft", "published"}, of : Tarball, assets : 0 .. 3]
      /\ disturbed' \in BOOLEAN
  BY <1>1 DEF Inv, TypeOK, Digest, RunRecord, Artifact, Tarball, Commit, Ref
<1>3. \A q \in Run : run[q].status = "running" => q = r
  BY DEF Inv, OneAtATime
<1> QED
  BY <1>1, <1>2, <1>3, JobStep DEF Turn

\* A step that fails and leaves nothing behind.
LEMMA FailStep ==
  ASSUME Inv, NEW r \in Run, run[r].status = "running", FailRun(r),
         UNCHANGED <<controls, setup, drift, late, world, disturbed>>, UNCHANGED faults \/ Fault
  PROVE  Inv' /\ Kept
<1>1. /\ Turn(r) /\ Stays(r) /\ run'[r] \in RunRecord
      /\ run'[r].pc = run[r].pc /\ run'[r].status = "failed"
  BY FailTurn DEF Inv
<1>2. run'[r].pc \in 1 .. 37 /\ run'[r].pc \in DOMAIN Flow
  BY <1>1, FlowPlaces DEF RunRecord
<1>3. Established(run'[r], npm, image)
  BY <1>1, <1>2, Standing
<1> QED
  BY <1>1, <1>3, QuietStep

\* A step that only goes on to the next one.
LEMMA NextStep ==
  ASSUME Inv, NEW r \in Run, run[r].status = "running", Advance(r),
         run[r].pc \notin {1, 5, 9, 18, 23, 21, 29, 32, 33, 37},
         UNCHANGED <<controls, setup, drift, late, world, disturbed>>, UNCHANGED faults \/ Fault
  PROVE  Inv' /\ Kept
<1>0. run[r] \in RunRecord /\ run[r].pc \in 1 .. 37
  BY FlowPlaces DEF Inv, TypeOK, RunRecord
<1>1. /\ Turn(r) /\ Stays(r) /\ run'[r] \in RunRecord
      /\ run'[r].pc = run[r].pc + 1 /\ run'[r].status = "running"
      /\ run'[r].missing = run[r].missing
  BY <1>0, AdvanceTurn DEF Inv
<1>2. Established(run'[r], npm, image)
  BY <1>1, GoingOn
<1>3. Holds(run'[r], image, page)
  <2>1. Holds(run[r], image, page)
    BY DEF Inv, RunsAgree
  <2> QED
    BY <1>0, <1>1, <2>1, Places DEF Holds, On, Turn
<1> QED
  BY <1>1, <1>2, <1>3, QuietStep

\* A step that changes the release page too, which is not published yet.
LEMMA PageStep ==
  ASSUME Inv, NEW r \in Run, run[r].status = "running", Turn(r), run'[r] \in RunRecord,
         PageOnly, UNCHANGED faults \/ Fault, run'[r].status \notin {"none", "queued"},
         Established(run'[r], npm, image),
         run'[r].status = "running" => Holds(run'[r], image, page'),
         page.state # "published",
         page' \in [state : {"none", "draft", "published"}, of : Tarball, assets : 0 .. 3],
         page'.state = "published" =>
           /\ page'.of = npm /\ page'.assets = 3 /\ npm # None
           /\ image["vX.Y.Z"] = image["X.Y.Z"] /\ image["X.Y.Z"] # None
  PROVE  Inv' /\ Kept
<1>1. /\ UNCHANGED <<npm, builds, image, disturbed>>
      /\ ControlsTypeOK' /\ Kept /\ PublicAgree'
      /\ main' \in Commit /\ tag' \in Tarball /\ tagger' \in Tarball
      /\ package' \in [exists : BOOLEAN,
                       boot : {"idle", "checked", "published", "refused", "done"},
                       latest : {"none", "placeholder", "this", "other"}]
  BY FaultTypes DEF Inv, TypeOK, PageOnly, Kept, PublicAgree
<1>2. /\ npm' \in Tarball /\ builds' \in Nat /\ builds' >= builds
      /\ image' \in [Ref -> Digest'] /\ run'[r] \in RunRecord'
      /\ disturbed' \in BOOLEAN
  BY <1>1 DEF Inv, TypeOK, Digest, RunRecord, Artifact, Tarball, Commit, Ref
<1>3. \A q \in Run : run[q].status = "running" => q = r
  BY DEF Inv, OneAtATime
<1> QED
  BY <1>1, <1>2, <1>3, JobStep DEF Turn, PageOnly

\* A step that fails and leaves the draft or takes it away.
LEMMA FailPageStep ==
  ASSUME Inv, NEW r \in Run, run[r].status = "running", FailRun(r), PageOnly,
         UNCHANGED faults \/ Fault, page.state # "published", page' \in {page, NoPage, Draft}
  PROVE  Inv' /\ Kept
<1>1. /\ Turn(r) /\ Stays(r) /\ run'[r] \in RunRecord
      /\ run'[r].pc = run[r].pc /\ run'[r].status = "failed"
  BY FailTurn DEF Inv
<1>2. run'[r].pc \in 1 .. 37 /\ run'[r].pc \in DOMAIN Flow
  BY <1>1, FlowPlaces DEF RunRecord
<1>3. Established(run'[r], npm, image)
  BY <1>1, <1>2, Standing
<1>4. /\ page' \in [state : {"none", "draft", "published"}, of : Tarball, assets : 0 .. 3]
      /\ page'.state # "published"
  BY DEF Inv, TypeOK, NoPage, Draft, Tarball
<1> QED
  BY <1>1, <1>3, <1>4, PageStep

-----------------------------------------------------------------------------
(* The steps of a run, one after the other *)

\* The facts about the running run that every step below starts from.
LEMMA Running ==
  ASSUME Inv, NEW r \in Run, NEW step, AtStep(r, step)
  PROVE  /\ run[r].status = "running" /\ run[r].pc = Position(step)
         /\ run \in [Run -> RunRecord] /\ run[r] \in RunRecord /\ run[r].pc \in 1 .. 37
         /\ Established(run[r], npm, image) /\ Holds(run[r], image, page)
<1>1. run[r].status = "running" /\ run[r].pc = Position(step)
  BY StepPlace DEF Inv
<1>2. run \in [Run -> RunRecord] /\ run[r] \in RunRecord /\ run[r].pc \in 1 .. 37
  BY FlowPlaces DEF Inv, TypeOK, RunRecord
<1> QED
  BY <1>1, <1>2 DEF Inv, RunsAgree

\* A job that dies keeps the invariant and everything published.
LEMMA DiesKeeps ==
  ASSUME Inv, NEW r \in Run, Dies(r)
  PROVE  Inv' /\ Kept
<1>1. /\ run[r].status = "running" /\ FailRun(r) /\ Fault /\ page' \in DraftAfter(r, FALSE)
      /\ UNCHANGED <<controls, setup, drift, late, main, tag, tagger, package, npm, builds, image,
                     disturbed>>
  BY DEF Dies, Fault
<1>2. CASE AtStep(r, "release/live-publish")
  <2>1. page.state = "draft"
    BY <1>2, Running, Places DEF Holds, On
  <2>2. page' \in {page, NoPage}
    BY <1>1 DEF DraftAfter
  <2> QED
    BY <1>1, <2>1, <2>2, FailPageStep DEF PageOnly
<1>3. CASE ~AtStep(r, "release/live-publish")
  BY <1>1, <1>3, FailStep DEF DraftAfter, world
<1> QED
  BY <1>2, <1>3

\* A runner that takes a queued run keeps the invariant and everything published.
LEMMA StartKeeps ==
  ASSUME Inv, NEW r \in Run, Start(r)
  PROVE  Inv' /\ Kept
<1>1. run \in [Run -> RunRecord] /\ run[r].pc \in 1 .. 37 /\ run[r].pc \in DOMAIN Flow
  BY FlowPlaces DEF Inv, TypeOK, RunRecord
<1>2. run' = [run EXCEPT ![r] = [run[r] EXCEPT !.status = "running"]]
  BY DEF Start
<1>3. /\ Turn(r) /\ Stays(r) /\ run'[r] \in RunRecord
      /\ run'[r].pc = run[r].pc /\ run'[r].status = "running"
  BY <1>1, <1>2 DEF Turn, Stays, RunRecord, Status
<1>4. Established(run'[r], npm, image)
  BY <1>1, <1>3, Standing DEF Start
<1>5. run'[r].pc \in {1, 6, 10, 12, 19, 24}
  BY <1>1, <1>3, JobStartBefore DEF Start, Inv, RunsInOrder
<1>6. Holds(run'[r], image, page)
  BY <1>5, Places DEF Holds, On
<1>7. /\ UNCHANGED <<controls, setup, drift, late, faults, npm, builds, image, page, disturbed,
                     main, tag, tagger, package>>
      /\ run[r].status # "none" /\ \A q \in Run : run[q].status # "running"
  BY DEF Start, Quiet, controlVars, world
<1>8. ControlsTypeOK' /\ Kept /\ PublicAgree'
  BY <1>7, FaultTypes DEF Inv, TypeOK, Kept, PublicAgree
<1>9. /\ npm' \in Tarball /\ builds' \in Nat /\ builds' >= builds
      /\ image' \in [Ref -> Digest'] /\ run'[r] \in RunRecord'
      /\ disturbed' \in BOOLEAN /\ main' \in Commit /\ tag' \in Tarball /\ tagger' \in Tarball
      /\ page' \in [state : {"none", "draft", "published"}, of : Tarball, assets : 0 .. 3]
      /\ package' \in [exists : BOOLEAN,
                       boot : {"idle", "checked", "published", "refused", "done"},
                       latest : {"none", "placeholder", "this", "other"}]
  BY <1>3, <1>7 DEF Inv, TypeOK, Digest, RunRecord, Artifact, Tarball, Commit, Ref
<1> QED
  BY <1>3, <1>4, <1>6, <1>7, <1>8, <1>9, JobStep DEF Turn

\* A run that is queued at the start of a job, with what it had established, keeps the
\* invariant and everything published.
LEMMA WaitingStep ==
  ASSUME Inv, NEW r \in Run, run[r].status # "none" \/ \A q \in 1 .. r - 1 : run[q].status # "none",
         run' = [run EXCEPT ![r] = run'[r]], run'[r] \in RunRecord, run'[r].status = "queued",
         JobStart[run'[r].pc] = run'[r].pc, Established(run'[r], npm, image),
         UNCHANGED <<controlVars, main, package, npm, builds, image, page>>,
         tag' \in Tarball, tagger' \in Tarball, disturbed' \in BOOLEAN
  PROVE  Inv' /\ Kept
<1>1. ControlsTypeOK' /\ Kept /\ PublicAgree'
  BY FaultTypes DEF Inv, TypeOK, Kept, PublicAgree, controlVars
<1>2. /\ npm' \in Tarball /\ builds' \in Nat /\ builds' >= builds
      /\ image' \in [Ref -> Digest'] /\ run'[r] \in RunRecord' /\ main' \in Commit
      /\ page' \in [state : {"none", "draft", "published"}, of : Tarball, assets : 0 .. 3]
      /\ package' \in [exists : BOOLEAN,
                       boot : {"idle", "checked", "published", "refused", "done"},
                       latest : {"none", "placeholder", "this", "other"}]
  BY DEF Inv, TypeOK, Digest, RunRecord, Artifact, Tarball, Commit, Ref
<1> QED
  BY <1>1, <1>2, JobStep DEF controlVars

\* Re-running the failed jobs keeps the invariant and everything published.
LEMMA RerunKeeps ==
  ASSUME Inv, NEW r \in Run, Rerun(r)
  PROVE  Inv' /\ Kept
<1>1. run \in [Run -> RunRecord] /\ run[r].pc \in 1 .. 37 /\ run[r].pc \in DOMAIN Flow
  BY FlowPlaces DEF Inv, TypeOK, RunRecord
<1>2. run' = [run EXCEPT ![r] = [run[r] EXCEPT !.status = "queued", !.pc = JobStart[run[r].pc]]]
  BY <1>1 DEF Rerun
<1>3. /\ JobStart[run[r].pc] \in DOMAIN Flow /\ JobStart[run[r].pc] <= run[r].pc
      /\ JobStart[JobStart[run[r].pc]] = JobStart[run[r].pc]
  BY <1>1, JobStartBefore
<1>4. /\ Turn(r) /\ Stays(r) /\ run'[r] \in RunRecord
      /\ run'[r].pc = JobStart[run[r].pc] /\ run'[r].status = "queued"
  BY <1>1, <1>2, <1>3 DEF Turn, Stays, RunRecord, Status
<1>5. Established(run'[r], npm, image)
  BY <1>3, <1>4, Standing DEF Rerun
<1>6. /\ UNCHANGED <<controlVars, main, package, npm, builds, image, page>>
      /\ tag' \in Tarball /\ tagger' \in Tarball /\ disturbed' \in BOOLEAN
      /\ run[r].status # "none"
  BY DEF Rerun, Quiet, world, Inv, TypeOK
<1> QED
  BY <1>3, <1>4, <1>5, <1>6, WaitingStep DEF Turn

\* The fields of a run that starts from nothing.
LEMMA Anew ==
  ASSUME Inv, NEW r \in Run, NEW sha, NEW actor,
         run' = [run EXCEPT ![r] = [NoRun EXCEPT !.sha = sha, !.actor = actor, !.status = "queued"]]
  PROVE  /\ run' = [run EXCEPT ![r] = run'[r]]
         /\ run'[r] = [sha |-> sha, actor |-> actor, status |-> "queued", pc |-> 1, half |-> FALSE,
                       artifact |-> NoArtifact, digest |-> None, missing |-> {}]
<1>1. run \in [Run -> RunRecord]
  BY DEF Inv, TypeOK
<1> QED
  BY <1>1 DEF NoRun

\* A run that starts anew has established nothing.
LEMMA NewRun ==
  ASSUME Inv, NEW r \in Run, NEW sha \in Commit, NEW actor \in User \cup {None},
         run'[r] = [sha |-> sha, actor |-> actor, status |-> "queued", pc |-> 1, half |-> FALSE,
                    artifact |-> NoArtifact, digest |-> None, missing |-> {}]
  PROVE  /\ run'[r] \in RunRecord
         /\ run'[r].status = "queued" /\ JobStart[run'[r].pc] = run'[r].pc
         /\ Established(run'[r], npm, image)
<1>1. 1 \in DOMAIN Flow
  BY FlowPlaces
<1>2. NoArtifact \in Artifact
  BY DEF NoArtifact, Artifact, Tarball
<1>3. run'[r] \in RunRecord
  BY <1>1, <1>2 DEF RunRecord, Digest, Status, Tarball
<1>4. JobStart[run'[r].pc] = run'[r].pc
  BY <1>1, JobStartBefore
<1>5. Established(run'[r], npm, image)
  BY Places, ReleaseAssumption DEF Established, Past
<1> QED
  BY <1>1, <1>2, <1>3, <1>4, <1>5

\* Re-running all jobs keeps the invariant and everything published.
LEMMA RerunAllKeeps ==
  ASSUME Inv, NEW r \in Run, RerunAll(r)
  PROVE  Inv' /\ Kept
<1>1. run[r].sha \in Commit /\ run[r].actor \in User \cup {None}
  BY DEF Inv, TypeOK, RunRecord, RunsAgree, Established, Tarball, RerunAll
<1>2. /\ run' = [run EXCEPT ![r] = run'[r]] /\ run'[r] \in RunRecord
      /\ run'[r].status = "queued" /\ JobStart[run'[r].pc] = run'[r].pc
      /\ Established(run'[r], npm, image)
  <2>1. /\ run' = [run EXCEPT ![r] = run'[r]]
        /\ run'[r] = [sha |-> run[r].sha, actor |-> run[r].actor, status |-> "queued", pc |-> 1,
                      half |-> FALSE, artifact |-> NoArtifact, digest |-> None, missing |-> {}]
    BY Anew, Zenon DEF RerunAll
  <2> QED
    BY <1>1, <2>1, NewRun
<1>3. /\ UNCHANGED <<controlVars, main, package, npm, builds, image, page>>
      /\ tag' \in Tarball /\ tagger' \in Tarball /\ disturbed' \in BOOLEAN
      /\ run[r].status # "none"
  BY DEF RerunAll, world, Inv, TypeOK
<1> QED
  BY <1>2, <1>3, WaitingStep

\* Pushing the tag, which starts a run, keeps the invariant and everything published.
LEMMA PushTagKeeps ==
  ASSUME Inv, NEW actor \in User, PushTag(actor)
  PROVE  Inv' /\ Kept
<1>1. tagger \in Commit /\ tag' \in Tarball /\ tagger' \in Tarball /\ disturbed' \in BOOLEAN
  BY DEF PushTag, Inv, TypeOK, Tarball
<1>2. UNCHANGED <<controlVars, main, package, npm, builds, image, page>>
  BY DEF PushTag
<1>3. PICK r \in Run : /\ \A q \in 1 .. r - 1 : run[q].status # "none"
                       /\ run' = [run EXCEPT ![r] = [NoRun EXCEPT !.sha = tagger,
                                    !.actor = actor, !.status = "queued"]]
  BY DEF PushTag
<1>4. /\ run' = [run EXCEPT ![r] = run'[r]] /\ run'[r] \in RunRecord
      /\ run'[r].status = "queued" /\ JobStart[run'[r].pc] = run'[r].pc
      /\ Established(run'[r], npm, image)
  <2>1. /\ run' = [run EXCEPT ![r] = run'[r]]
        /\ run'[r] = [sha |-> tagger, actor |-> actor, status |-> "queued", pc |-> 1,
                      half |-> FALSE, artifact |-> NoArtifact, digest |-> None, missing |-> {}]
    BY <1>3, Anew, Zenon
  <2> QED
    BY <1>1, <2>1, NewRun
<1> QED
  BY <1>1, <1>2, <1>3, <1>4, WaitingStep

\* The places of the live checks.
LEMMA LivePlaces ==
  ASSUME Inv, NEW r \in Run, \E step \in LiveStep : AtStep(r, step)
  PROVE  /\ run[r].status = "running"
         /\ run[r].pc \in {3, 7, 8, 10, 14, 15, 20, 25, 28, 31, 35}
         /\ AtStep(r, "release/live-publish") => run[r].pc = 35
<1>1. PICK step \in LiveStep : AtStep(r, step)
  OBVIOUS
<1>2. run[r].status = "running" /\ run[r].pc = Position(step)
  BY <1>1, Running
<1> QED
  BY <1>2, Places, Running DEF LiveStep

\* A live check reads the tag or main; when it fails before the page is published, the
\* draft may go.
LEMMA LiveFails ==
  ASSUME Inv, NEW r \in Run, \E step \in LiveStep : AtStep(r, step), FailRun(r),
         page' \in DraftAfter(r, FALSE),
         UNCHANGED <<controlVars, main, tag, tagger, package, npm, builds, image, disturbed>>
  PROVE  Inv' /\ Kept
<1>1. run[r].status = "running" /\ (AtStep(r, "release/live-publish") => run[r].pc = 35)
  BY LivePlaces
<1>2. CASE AtStep(r, "release/live-publish")
  <2>1. page.state = "draft"
    BY <1>1, <1>2, Running, Places DEF Holds, On
  <2>2. page' \in {page, NoPage}
    BY DEF DraftAfter
  <2> QED
    BY <1>1, <2>1, <2>2, FailPageStep DEF PageOnly, controlVars
<1>3. CASE ~AtStep(r, "release/live-publish")
  BY <1>1, <1>3, FailStep DEF DraftAfter, world, controlVars
<1> QED
  BY <1>2, <1>3

\* The live check of the tag keeps the invariant and everything published.
LEMMA LiveTagKeeps ==
  ASSUME Inv, NEW r \in Run, LiveTag(r)
  PROVE  Inv' /\ Kept
<1>1. CASE tag # run[r].sha
  BY <1>1, LiveFails DEF LiveTag
<1>2. CASE tag = run[r].sha
  <2>1. /\ run[r].status = "running" /\ run[r] \in RunRecord /\ run \in [Run -> RunRecord]
        /\ run[r].pc \in 1 .. 37 /\ run[r].pc \in DOMAIN Flow
        /\ Holds(run[r], image, page)
    BY Running, FlowPlaces DEF LiveTag
  <2>2. run' = [run EXCEPT ![r] = [run[r] EXCEPT !.half = TRUE]]
    BY <1>2, <2>1 DEF LiveTag
  <2>3. /\ Turn(r) /\ Stays(r) /\ run'[r] \in RunRecord /\ run'[r].missing = run[r].missing
        /\ run'[r].pc = run[r].pc /\ run'[r].status = "running"
    BY <2>1, <2>2 DEF Turn, Stays, RunRecord
  <2>4. Established(run'[r], npm, image)
    BY <2>1, <2>3, Standing
  <2>5. Holds(run'[r], image, page)
    BY <2>1, <2>3 DEF Holds, On, Turn, Stays
  <2>6. UNCHANGED <<controls, setup, drift, late, world, disturbed, faults>>
    BY <1>2 DEF LiveTag, DraftAfter, controlVars, world
  <2> QED
    BY <2>1, <2>3, <2>4, <2>5, <2>6, QuietStep
<1> QED
  BY <1>1, <1>2

\* The live check of main keeps the invariant and everything published.
LEMMA LiveMainKeeps ==
  ASSUME Inv, NEW r \in Run, LiveMain(r)
  PROVE  Inv' /\ Kept
<1>1. CASE main # run[r].sha
  BY <1>1, LiveFails DEF LiveMain
<1>2. CASE main = run[r].sha
  <2>1. /\ run[r].status = "running" /\ run[r] \in RunRecord /\ run \in [Run -> RunRecord]
        /\ Holds(run[r], image, page)
    BY Running DEF LiveMain
  <2>2. /\ run[r].pc \in {3, 7, 8, 10, 14, 15, 20, 25, 28, 31, 35}
        /\ run[r].pc + 1 \in DOMAIN Flow
    BY LivePlaces, FlowPlaces DEF LiveMain
  <2>3. run' = [run EXCEPT ![r] = [run[r] EXCEPT !.half = FALSE, !.pc = run[r].pc + 1]]
    BY <1>2, <2>1 DEF LiveMain
  <2>4. /\ Turn(r) /\ Stays(r) /\ run'[r] \in RunRecord /\ run'[r].missing = run[r].missing
        /\ run'[r].pc = run[r].pc + 1 /\ run'[r].status = "running"
    BY <2>1, <2>2, <2>3 DEF Turn, Stays, RunRecord
  <2>5. Established(run'[r], npm, image)
    BY <2>1, <2>2, <2>4, GoingOn
  <2>6. Holds(run'[r], image, page)
    BY <2>1, <2>2, <2>4, Places DEF Holds, On, Turn, Stays
  <2>7. UNCHANGED <<controls, setup, drift, late, world, disturbed, faults>>
    BY <1>2 DEF LiveMain, DraftAfter, controlVars, world
  <2> QED
    BY <2>1, <2>4, <2>5, <2>6, <2>7, QuietStep
<1> QED
  BY <1>1, <1>2

\* An approval keeps the invariant and everything published.
LEMMA ApproveKeeps ==
  ASSUME Inv, NEW r \in Run, Approve(r)
  PROVE  Inv' /\ Kept
<1>1. PICK step \in ApproveStep : AtStep(r, step)
  BY DEF Approve
<1>2. run[r].status = "running" /\ run[r].pc \in {6, 12, 19, 24}
  BY <1>1, Running, Places DEF ApproveStep
<1> QED
  BY <1>2, NextStep DEF Approve, Quiet, controlVars

\* A step that ends well or fails and leaves everything else as it is.
LEMMA CheckKeeps ==
  ASSUME Inv, NEW r \in Run, NEW step, AtStep(r, step), Advance(r) \/ FailRun(r),
         Quiet, Position(step) \notin {1, 5, 9, 18, 23, 21, 29, 32, 33, 37}
  PROVE  Inv' /\ Kept
<1>1. run[r].status = "running" /\ run[r].pc = Position(step)
  BY Running
<1>2. UNCHANGED <<controls, setup, drift, late, world, disturbed, faults>>
  BY DEF Quiet, controlVars
<1> QED
  BY <1>1, <1>2, NextStep, FailStep

\* Verifying the downloaded artifact keeps the invariant and everything published.
LEMMA CheckArtifactKeeps ==
  ASSUME Inv, NEW r \in Run, CheckArtifact(r)
  PROVE  Inv' /\ Kept
<1>1. PICK step \in {"publish/artifact", "release/artifact"} : AtStep(r, step)
  BY DEF CheckArtifact
<1>2. Advance(r) \/ FailRun(r)
  BY DEF CheckArtifact, Check
<1>3. Position(step) \in {13, 26} /\ Quiet
  BY Places DEF CheckArtifact
<1> QED
  BY <1>1, <1>2, <1>3, CheckKeeps

\* The check that the commit is on main keeps the invariant and everything published.
LEMMA VerifyMainKeeps ==
  ASSUME Inv, NEW r \in Run, VerifyMain(r)
  PROVE  Inv' /\ Kept
<1>1. AtStep(r, "verify/main") /\ (Advance(r) \/ FailRun(r)) /\ Quiet
  BY DEF VerifyMain, Check
<1>2. Position("verify/main") = 2
  BY Places
<1> QED
  BY <1>1, <1>2, CheckKeeps

\* The readiness check keeps the invariant and everything published.
LEMMA VerifyReadyKeeps ==
  ASSUME Inv, NEW r \in Run, VerifyReady(r)
  PROVE  Inv' /\ Kept
<1>1. AtStep(r, "verify/ready") /\ (Advance(r) \/ FailRun(r)) /\ Quiet
  BY DEF VerifyReady, Check
<1>2. Position("verify/ready") = 4
  BY Places
<1> QED
  BY <1>1, <1>2, CheckKeeps

\* The release job's check of the tag keeps the invariant and everything published.
LEMMA ReleaseTagKeeps ==
  ASSUME Inv, NEW r \in Run, ReleaseTag(r)
  PROVE  Inv' /\ Kept
<1>1. AtStep(r, "release/tag") /\ (Advance(r) \/ FailRun(r)) /\ Quiet
  BY DEF ReleaseTag, Check
<1>2. Position("release/tag") = 27
  BY Places
<1> QED
  BY <1>1, <1>2, CheckKeeps

\* The pull without credentials keeps the invariant and everything published.
LEMMA PublicPullKeeps ==
  ASSUME Inv, NEW r \in Run, PublicPull(r)
  PROVE  Inv' /\ Kept
<1>1. AtStep(r, "public/pull") /\ (Advance(r) \/ FailRun(r)) /\ Quiet
  BY DEF PublicPull, Check
<1>2. Position("public/pull") = 11
  BY Places
<1> QED
  BY <1>1, <1>2, CheckKeeps

\* Going on after the docker tags were pushed keeps the invariant and everything published.
LEMMA PushedKeeps ==
  ASSUME Inv, NEW r \in Run, Pushed(r)
  PROVE  Inv' /\ Kept
<1>1. AtStep(r, "promote/push") /\ (Advance(r) \/ FailRun(r)) /\ Quiet
  BY DEF Pushed, Check
<1>2. Position("promote/push") = 22
  BY Places
<1> QED
  BY <1>1, <1>2, CheckKeeps

\* The check of the tag's version keeps the invariant and everything published.
LEMMA VerifyTagKeeps ==
  ASSUME Inv, NEW r \in Run, VerifyTag(r)
  PROVE  Inv' /\ Kept
<1>1. /\ run[r].status = "running" /\ run[r].pc = 1 /\ run[r] \in RunRecord
      /\ UNCHANGED <<controls, setup, drift, late, world, disturbed, faults>>
      /\ Established(run[r], npm, image)
  BY Running, Places DEF VerifyTag, Quiet, controlVars
<1>2. CASE FailRun(r)
  BY <1>1, <1>2, FailStep
<1>3. CASE run[r].sha \in Versioned /\ Advance(r)
  <2>1. /\ Turn(r) /\ Stays(r) /\ run'[r] \in RunRecord
        /\ run'[r].pc = 2 /\ run'[r].status = "running"
    BY <1>1, <1>3, AdvanceTurn DEF Inv
  <2>2. Established(run'[r], npm, image) /\ Holds(run'[r], image, page)
    BY <1>1, <1>3, <2>1, Places DEF Established, Holds, Past, On, Turn
  <2> QED
    BY <1>1, <2>1, <2>2, QuietStep
<1> QED
  BY <1>2, <1>3 DEF VerifyTag, Check

\* Packing the tarball of the run's commit keeps the invariant and everything published.
LEMMA PackKeeps ==
  ASSUME Inv, NEW r \in Run, Pack(r)
  PROVE  Inv' /\ Kept
<1>1. /\ run[r].status = "running" /\ run[r].pc = 5 /\ run[r] \in RunRecord
      /\ run \in [Run -> RunRecord]
      /\ UNCHANGED <<controls, setup, drift, late, world, disturbed, faults>>
      /\ Established(run[r], npm, image)
  BY Running, Places DEF Pack, Quiet, controlVars
<1>2. /\ Packed(run[r].sha) \in Artifact /\ Packed(run[r].sha).tarball = run[r].sha
      /\ run[r].pc + 1 \in DOMAIN Flow /\ run[r].pc + 1 = 6
  BY <1>1, FlowPlaces DEF Packed, ReleaseSums, ReleaseSbom, Artifact, RunRecord
<1>3. run' = [run EXCEPT ![r] = [run[r] EXCEPT !.pc = run[r].pc + 1, !.artifact = Packed(run[r].sha)]]
  BY <1>1 DEF Pack
<1>4. /\ Turn(r) /\ run'[r] \in RunRecord /\ run'[r].pc = 6 /\ run'[r].status = "running"
      /\ run'[r].artifact = Packed(run[r].sha)
  BY <1>1, <1>2, <1>3 DEF Turn, RunRecord
<1>5. Established(run'[r], npm, image) /\ Holds(run'[r], image, page)
  BY <1>1, <1>2, <1>4, Places DEF Established, Holds, Past, On, Turn
<1> QED
  BY <1>1, <1>4, <1>5, QuietStep

\* An artifact that was damaged on the way keeps the invariant and everything published.
LEMMA CheckCorruptKeeps ==
  ASSUME Inv, NEW r \in Run, CheckCorrupt(r)
  PROVE  Inv' /\ Kept
<1>1. /\ run[r].status = "running" /\ run[r].pc \in {13, 26} /\ run[r] \in RunRecord
      /\ run \in [Run -> RunRecord]
      /\ UNCHANGED <<controls, setup, drift, late, world, disturbed>> /\ Fault
      /\ Established(run[r], npm, image)
  BY Running, Places DEF CheckCorrupt, Fault
<1>2. CASE FailRun(r)
  BY <1>1, <1>2, FailStep
<1>3. CASE ~FailRun(r)
  <2>1. PICK c \in Commit \ {run[r].sha} :
        \E a \in {[tarball |-> c, sbom |-> c, sums |-> <<c, c>>]} \cup
                 {[run[r].artifact EXCEPT ![part] = c] : part \in Parts} :
          /\ ArtifactVerified(a, run[r].sha)
          /\ run' = [run EXCEPT ![r].pc = @ + 1, ![r].artifact = a]
    BY <1>3 DEF CheckCorrupt
  <2>2. PICK a \in {[tarball |-> c, sbom |-> c, sums |-> <<c, c>>]} \cup
                 {[run[r].artifact EXCEPT ![part] = c] : part \in Parts} :
          /\ ArtifactVerified(a, run[r].sha)
          /\ run' = [run EXCEPT ![r].pc = @ + 1, ![r].artifact = a]
    BY <2>1
  <2>3. a \in Artifact
    <3>1. run[r].artifact \in Artifact /\ c \in Tarball
      BY <1>1 DEF RunRecord, Tarball
    <3>2. CASE a = [tarball |-> c, sbom |-> c, sums |-> <<c, c>>]
      BY <3>1, <3>2 DEF Artifact
    <3>3. CASE a = [run[r].artifact EXCEPT !["tarball"] = c]
      BY <3>1, <3>3 DEF Artifact
    <3>4. CASE a = [run[r].artifact EXCEPT !["sbom"] = c]
      BY <3>1, <3>4 DEF Artifact
    <3> QED
      BY <2>2, <3>2, <3>3, <3>4 DEF Parts
  <2>4. a.tarball = run[r].sha /\ run[r].pc + 1 \in DOMAIN Flow
    BY <1>1, <2>2, FlowPlaces DEF ArtifactVerified, PackedMatches
  <2>5. run' = [run EXCEPT ![r] = [run[r] EXCEPT !.pc = run[r].pc + 1, !.artifact = a]]
    BY <1>1, <2>2
  <2>6. /\ Turn(r) /\ run'[r] \in RunRecord /\ run'[r].pc = run[r].pc + 1
        /\ run'[r].status = "running" /\ run'[r].artifact.tarball = run[r].sha
        /\ run'[r].digest = run[r].digest
    BY <1>1, <2>3, <2>4, <2>5 DEF Turn, RunRecord
  <2>7. Established(run'[r], npm, image) /\ Holds(run'[r], image, page)
    BY <1>1, <2>6, Places DEF Established, Holds, Past, On, Turn
  <2> QED
    BY <1>1, <2>6, <2>7, QuietStep
<1> QED
  BY <1>2, <1>3

\* Building and pushing the staging image keeps the invariant and everything published.
LEMMA StagePushKeeps ==
  ASSUME Inv, NEW r \in Run, StagePush(r)
  PROVE  Inv' /\ Kept
<1>1. /\ run[r].status = "running" /\ run[r].pc = 9 /\ run[r] \in RunRecord
      /\ run \in [Run -> RunRecord] /\ Established(run[r], npm, image)
  BY Running, Places DEF StagePush
<1>2. /\ UNCHANGED <<controls, setup, drift, late, faults, npm, image, page, disturbed,
                     main, tag, tagger, package>>
      /\ builds' = builds + 1 /\ builds \in Nat /\ builds' \in Nat /\ builds' >= builds
  BY DEF StagePush, controlVars, Inv, TypeOK
<1>3. run[r].sha \in Commit /\ run[r].pc + 1 \in DOMAIN Flow
  BY <1>1, Places, FlowPlaces DEF Established, Past, RunRecord, Tarball
<1>4. PICK d : d = [of |-> run[r].sha, build |-> builds']
  OBVIOUS
<1>5. d \in Digest' /\ d # None /\ d.of = run[r].sha
  BY <1>2, <1>3, <1>4, ReleaseAssumption DEF Digest
<1>6. run' = [run EXCEPT ![r] = [run[r] EXCEPT !.pc = run[r].pc + 1, !.digest = d]]
  BY <1>1, <1>4 DEF StagePush
<1>7. Digest \subseteq Digest' /\ RunRecord \subseteq RunRecord'
  BY <1>2, DigestGrows
<1>8. /\ Turn(r) /\ run'[r].pc = 10 /\ run'[r].status = "running" /\ run'[r].digest = d
      /\ run'[r].artifact = run[r].artifact
  BY <1>1, <1>6 DEF Turn, RunRecord
<1>9. run'[r] \in RunRecord'
  <2>1. run[r] \in RunRecord'
    BY <1>1, <1>7
  <2>2. run'[r] = [run[r] EXCEPT !.pc = run[r].pc + 1, !.digest = d]
    BY <1>1, <1>6
  <2> QED
    BY <1>3, <1>5, <2>1, <2>2 DEF RunRecord
<1>10. Established(run'[r], npm', image') /\ Holds(run'[r], image', page')
  BY <1>1, <1>2, <1>5, <1>8, Places DEF Established, Holds, Past, On, Turn
<1>11. ControlsTypeOK' /\ Kept /\ PublicAgree'
  BY <1>2, FaultTypes DEF Inv, TypeOK, Kept, PublicAgree
<1>12. /\ npm' \in Tarball /\ image' \in [Ref -> Digest'] /\ main' \in Commit
       /\ tag' \in Tarball /\ tagger' \in Tarball /\ disturbed' \in BOOLEAN
       /\ page' \in [state : {"none", "draft", "published"}, of : Tarball, assets : 0 .. 3]
       /\ package' \in [exists : BOOLEAN,
                        boot : {"idle", "checked", "published", "refused", "done"},
                        latest : {"none", "placeholder", "this", "other"}]
  BY <1>2, <1>7 DEF Inv, TypeOK
<1>13. \A q \in Run : run[q].status = "running" => q = r
  BY <1>1 DEF Inv, OneAtATime
<1> QED
  BY <1>1, <1>2, <1>8, <1>9, <1>10, <1>11, <1>12, <1>13, JobStep DEF Turn

\* Looking the docker tags up keeps the invariant and everything published.
LEMMA LookupKeeps ==
  ASSUME Inv, NEW r \in Run, Lookup(r)
  PROVE  Inv' /\ Kept
<1>1. /\ run[r].status = "running" /\ run[r].pc = 21 /\ run[r] \in RunRecord
      /\ run \in [Run -> RunRecord] /\ image \in [Ref -> Digest]
      /\ UNCHANGED <<controls, setup, drift, late, world, disturbed, faults>>
      /\ Established(run[r], npm, image)
  BY Running, Places DEF Lookup, Quiet, controlVars, Inv, TypeOK
<1>2. CASE FailRun(r)
  BY <1>1, <1>2, FailStep
<1>3. CASE ~FailRun(r)
  <2>1. PICK m : m = {ref \in DOMAIN image : image[ref] = None}
    OBVIOUS
  <2>2. /\ \A ref \in Ref : image[ref] \in {None, run[r].digest}
        /\ run' = [run EXCEPT ![r] = [run[r] EXCEPT !.pc = run[r].pc + 1, !.missing = m]]
    BY <1>1, <1>3, <2>1 DEF Lookup
  <2>3. m \subseteq Ref /\ run[r].pc + 1 \in DOMAIN Flow
    BY <1>1, <2>1, FlowPlaces
  <2>4. /\ Turn(r) /\ Stays(r) /\ run'[r] \in RunRecord /\ run'[r].pc = run[r].pc + 1
        /\ run'[r].status = "running" /\ run'[r].missing = m
    BY <1>1, <2>2, <2>3 DEF Turn, Stays, RunRecord
  <2>5. Established(run'[r], npm, image)
    BY <1>1, <2>4, GoingOn
  <2>6. Holds(run'[r], image, page)
    BY <1>1, <2>1, <2>2, <2>4, Places DEF Holds, On, Stays
  <2> QED
    BY <1>1, <2>4, <2>5, <2>6, QuietStep
<1> QED
  BY <1>2, <1>3

\* Pushing a docker tag that was missing keeps the invariant and everything published.
LEMMA PushImageKeeps ==
  ASSUME Inv, NEW r \in Run, NEW ref \in DOMAIN image, PushImage(r, ref)
  PROVE  Inv' /\ Kept
<1>1. /\ run[r].status = "running" /\ run[r].pc = 22 /\ run[r] \in RunRecord
      /\ run \in [Run -> RunRecord] /\ image \in [Ref -> Digest]
      /\ Established(run[r], npm, image) /\ Holds(run[r], image, page)
      /\ ref \in Ref /\ ref \in run[r].missing
  BY Running, Places DEF PushImage, Inv, TypeOK
<1>2. /\ UNCHANGED <<controls, setup, drift, late, main, tag, tagger, package, npm, builds, page, disturbed>>
      /\ UNCHANGED faults \/ Fault
      /\ image' = [image EXCEPT ![ref] = run[r].digest]
  BY DEF PushImage, Fault
<1>3. /\ run[r].digest \in Digest /\ run[r].digest # None /\ run[r].digest.of = run[r].sha
      /\ npm = run[r].sha /\ image[ref] = None
  BY <1>1, Places DEF Established, Holds, Past, On, RunRecord
<1>4. /\ Turn(r) /\ Stays(r) /\ run'[r] \in RunRecord /\ run'[r].pc = 22
      /\ \/ run'[r].status = "failed"
         \/ run'[r].status = "running" /\ run'[r].missing = run[r].missing \ {ref}
  <2>1. CASE FailRun(r)
    BY <1>1, <2>1, FailTurn DEF Inv
  <2>2. CASE run' = [run EXCEPT ![r].missing = @ \ {ref}]
    <3>1. run' = [run EXCEPT ![r] = [run[r] EXCEPT !.missing = run[r].missing \ {ref}]]
      BY <1>1, <2>2
    <3> QED
      BY <1>1, <3>1 DEF Turn, Stays, RunRecord
  <2> QED
    BY <2>1, <2>2 DEF PushImage
<1>5. Established(run'[r], npm', image')
  BY <1>1, <1>2, <1>4, Places DEF Established, Past, Turn, Stays
<1>6. run'[r].status = "running" => Holds(run'[r], image', page')
  BY <1>1, <1>2, <1>4, Places DEF Holds, On, Stays
<1>7. Kept
  BY <1>1, <1>2, <1>3 DEF Kept
<1>8. PublicAgree'
  <2>1. PublicAgree /\ page.state # "published"
    BY <1>1, <1>3 DEF PublicAgree, Inv, Ref
  <2> QED
    BY <1>1, <1>2, <1>3, <2>1 DEF PublicAgree
<1>9. /\ ControlsTypeOK' /\ image' \in [Ref -> Digest'] /\ run'[r] \in RunRecord'
  BY <1>1, <1>2, <1>3, <1>4, FaultTypes
     DEF Inv, TypeOK, Digest, RunRecord, Artifact, Tarball, Commit, Ref
<1>10. /\ npm' \in Tarball /\ builds' \in Nat /\ builds' >= builds /\ main' \in Commit
       /\ tag' \in Tarball /\ tagger' \in Tarball /\ disturbed' \in BOOLEAN
       /\ page' \in [state : {"none", "draft", "published"}, of : Tarball, assets : 0 .. 3]
       /\ package' \in [exists : BOOLEAN,
                        boot : {"idle", "checked", "published", "refused", "done"},
                        latest : {"none", "placeholder", "this", "other"}]
  BY <1>2 DEF Inv, TypeOK
<1>11. \A q \in Run : run[q].status = "running" => q = r
  BY <1>1 DEF Inv, OneAtATime
<1> QED
  BY <1>1, <1>2, <1>4, <1>5, <1>6, <1>7, <1>8, <1>9, <1>10, <1>11, JobStep DEF Turn

\* Checking both docker tags keeps the invariant and everything published.
LEMMA CheckImageKeeps ==
  ASSUME Inv, NEW r \in Run, CheckImage(r)
  PROVE  Inv' /\ Kept
<1>1. /\ run[r].status = "running" /\ run[r].pc = 23 /\ run[r] \in RunRecord
      /\ UNCHANGED <<controls, setup, drift, late, world, disturbed, faults>>
      /\ Established(run[r], npm, image) /\ DOMAIN image = Ref
  BY Running, Places DEF CheckImage, Quiet, controlVars, Inv, TypeOK
<1>2. CASE FailRun(r)
  BY <1>1, <1>2, FailStep
<1>3. CASE (\A ref \in Ref : image[ref] = run[r].digest) /\ Advance(r)
  <2>1. /\ Turn(r) /\ Stays(r) /\ run'[r] \in RunRecord
        /\ run'[r].pc = 24 /\ run'[r].status = "running"
    BY <1>1, <1>3, AdvanceTurn DEF Inv
  <2>2. Established(run'[r], npm, image) /\ Holds(run'[r], image, page)
    BY <1>1, <1>3, <2>1, Places DEF Established, Holds, Past, On, Turn, Stays
  <2> QED
    BY <1>1, <2>1, <2>2, QuietStep
<1> QED
  BY <1>1, <1>2, <1>3 DEF CheckImage, Check

\* Asking npm for the version keeps the invariant and everything published.
LEMMA QueryKeeps ==
  ASSUME Inv, NEW r \in Run, NEW answer, Query(r, answer)
  PROVE  Inv' /\ Kept
<1>1. /\ run[r].status = "running" /\ run[r].pc = 16 /\ run[r] \in RunRecord
      /\ UNCHANGED <<controls, setup, drift, late, world, disturbed, faults>>
      /\ Established(run[r], npm, image)
  BY Running, Places DEF Query, Quiet, controlVars
<1>2. CASE answer = "match"
  <2>1. NpmState(r) = "match" /\ Goto(r, "promote/approve")
    BY <1>2 DEF Query
  <2>2. npm = run[r].artifact.tarball
    BY <2>1 DEF NpmState
  <2>3. /\ Turn(r) /\ Stays(r) /\ run'[r] \in RunRecord
        /\ run'[r].pc = 19 /\ run'[r].status = "running"
    BY <1>1, <2>1, GotoTurn, Places, FlowPlaces DEF Inv
  <2>4. Established(run'[r], npm, image) /\ Holds(run'[r], image, page)
    BY <1>1, <2>2, <2>3, Places DEF Established, Holds, Past, On, Turn, Stays
  <2> QED
    BY <1>1, <2>3, <2>4, QuietStep
<1>3. CASE answer = "mismatch"
  BY <1>1, <1>3, FailStep DEF Query
<1>4. CASE answer \notin {"match", "mismatch"}
  BY <1>1, <1>4, NextStep DEF Query
<1> QED
  BY <1>2, <1>3, <1>4

\* Publishing the tarball keeps the invariant and everything published.
LEMMA PublishKeeps ==
  ASSUME Inv, NEW r \in Run, Publish(r)
  PROVE  Inv' /\ Kept
<1>1. /\ run[r].status = "running" /\ run[r].pc = 17 /\ run[r] \in RunRecord
      /\ run \in [Run -> RunRecord] /\ Established(run[r], npm, image)
  BY Running, Places DEF Publish
<1>2. /\ UNCHANGED <<controls, setup, drift, late, main, tag, tagger, builds, image, page, disturbed>>
      /\ UNCHANGED faults \/ Fault
  BY DEF Publish, Fault
<1>3. CASE UNCHANGED <<npm, package>>
  BY <1>1, <1>2, <1>3, NextStep DEF Publish, world
<1>4. CASE /\ npm = None /\ npm' = run[r].artifact.tarball
           /\ package' = [package EXCEPT !.latest = "this"]
  <2>1. /\ Turn(r) /\ Stays(r) /\ run'[r] \in RunRecord
        /\ run'[r].pc = 18 /\ run'[r].status = "running"
    BY <1>1, AdvanceTurn DEF Publish, Inv
  <2>2. npm' = run[r].sha /\ npm' \in Versioned /\ npm' \in Tarball
    BY <1>1, <1>4, Places DEF Established, Past, RunRecord
  <2>3. Established(run'[r], npm', image') /\ Holds(run'[r], image', page')
    BY <1>1, <1>2, <2>1, Places DEF Established, Holds, Past, On, Turn, Stays
  <2>4. Kept
    BY <1>2, <1>4 DEF Kept
  <2>5. PublicAgree'
    <3>1. \A ref \in Ref : image[ref] = None
      <4> SUFFICES ASSUME NEW ref \in Ref, image[ref] # None PROVE FALSE
        OBVIOUS
      <4>1. image[ref] \in [of : Commit, build : 1 .. builds] /\ image[ref].of = None
        BY <1>4 DEF Inv, TypeOK, Digest, PublicAgree
      <4> QED
        BY <4>1, ReleaseAssumption
    <3>2. page.state # "published"
      BY <1>4 DEF Inv, PublicAgree
    <3>3. DOMAIN image = Ref
      BY DEF Inv, TypeOK
    <3> QED
      BY <1>2, <2>2, <3>1, <3>2, <3>3 DEF PublicAgree
  <2>6. /\ ControlsTypeOK' /\ run'[r] \in RunRecord' /\ image' \in [Ref -> Digest']
    BY <1>2, <2>1, FaultTypes DEF Inv, TypeOK, RunRecord, Digest, Artifact, Tarball, Commit, Ref
  <2>7. /\ builds' \in Nat /\ builds' >= builds /\ main' \in Commit
        /\ tag' \in Tarball /\ tagger' \in Tarball /\ disturbed' \in BOOLEAN
        /\ page' \in [state : {"none", "draft", "published"}, of : Tarball, assets : 0 .. 3]
    BY <1>2 DEF Inv, TypeOK
  <2>8. package' \in [exists : BOOLEAN,
                      boot : {"idle", "checked", "published", "refused", "done"},
                      latest : {"none", "placeholder", "this", "other"}]
    BY <1>4 DEF Inv, TypeOK
  <2>9. \A q \in Run : run[q].status = "running" => q = r
    BY <1>1 DEF Inv, OneAtATime
  <2> QED
    BY <1>1, <1>2, <2>1, <2>2, <2>3, <2>4, <2>5, <2>6, <2>7, <2>8, <2>9, JobStep DEF Turn
<1> QED
  BY <1>3, <1>4 DEF Publish

\* Confirming the published tarball keeps the invariant and everything published.
LEMMA ConfirmKeeps ==
  ASSUME Inv, NEW r \in Run, Confirm(r)
  PROVE  Inv' /\ Kept
<1>1. /\ run[r].status = "running" /\ run[r].pc = 18 /\ run[r] \in RunRecord
      /\ UNCHANGED <<controls, setup, drift, late, world, disturbed>> /\ (UNCHANGED faults \/ Fault)
      /\ Established(run[r], npm, image)
  BY Running, Places DEF Confirm, Fault
<1>2. CASE FailRun(r)
  BY <1>1, <1>2, FailStep
<1>3. CASE NpmState(r) = "match" /\ Advance(r)
  <2>1. npm = run[r].artifact.tarball
    BY <1>3 DEF NpmState
  <2>2. /\ Turn(r) /\ Stays(r) /\ run'[r] \in RunRecord
        /\ run'[r].pc = 19 /\ run'[r].status = "running"
    BY <1>1, <1>3, AdvanceTurn DEF Inv
  <2>3. Established(run'[r], npm, image) /\ Holds(run'[r], image, page)
    BY <1>1, <2>1, <2>2, Places DEF Established, Holds, Past, On, Turn, Stays
  <2> QED
    BY <1>1, <2>2, <2>3, QuietStep
<1> QED
  BY <1>2, <1>3 DEF Confirm, Check

Page == [state : {"none", "draft", "published"}, of : Tarball, assets : 0 .. 3]

\* Creating the draft keeps the invariant and everything published.
LEMMA PostDraftKeeps ==
  ASSUME Inv, NEW r \in Run, PostDraft(r)
  PROVE  Inv' /\ Kept
<1>1. /\ run[r].status = "running" /\ run[r].pc \in {29, 32} /\ run[r] \in RunRecord
      /\ Established(run[r], npm, image) /\ PageOnly /\ (UNCHANGED faults \/ Fault)
      /\ page = NoPage /\ page' = Draft
  BY Running, Places DEF PostDraft
<1>2. page.state # "published" /\ page' \in Page /\ page'.state = "draft" /\ page'.assets = 0
  BY <1>1 DEF NoPage, Draft, Page, Tarball
<1>3. CASE FailRun(r)
  BY <1>1, <1>2, <1>3, FailPageStep
<1>4. CASE Goto(r, "release/upload")
  <2>1. /\ Turn(r) /\ Stays(r) /\ run'[r] \in RunRecord
        /\ run'[r].pc = 33 /\ run'[r].status = "running"
    BY <1>1, <1>4, GotoTurn, Places, FlowPlaces DEF Inv
  <2>2. Established(run'[r], npm, image) /\ Holds(run'[r], image, page')
    BY <1>1, <1>2, <2>1, Places DEF Established, Holds, Past, On, Turn, Stays
  <2> QED
    BY <1>1, <1>2, <2>1, <2>2, PageStep DEF Page
<1> QED
  BY <1>3, <1>4 DEF PostDraft

\* Finding a release for the tag keeps the invariant and everything published.
LEMMA ExistingReleaseKeeps ==
  ASSUME Inv, NEW r \in Run, ExistingRelease(r)
  PROVE  Inv' /\ Kept
<1>1. /\ run[r].status = "running" /\ run[r].pc = 29 /\ run[r] \in RunRecord
      /\ Established(run[r], npm, image) /\ 29 \in DOMAIN Flow
      /\ UNCHANGED <<controls, setup, drift, late, world, disturbed, faults>>
  BY Running, Places, FlowPlaces DEF ExistingRelease, Quiet, controlVars
<1>2. CASE FailRun(r)
  BY <1>1, <1>2, FailStep
<1>3. CASE Finish(r)
  <2>1. /\ Turn(r) /\ Stays(r) /\ run'[r] \in RunRecord
        /\ run'[r].pc = 29 /\ run'[r].status = "done"
    BY <1>1, <1>3, FinishTurn DEF Inv
  <2>2. Established(run'[r], npm, image)
    BY <1>1, <2>1, Standing
  <2> QED
    BY <1>1, <2>1, <2>2, QuietStep
<1>4. CASE page.state = "draft" /\ Goto(r, "release/delete")
  <2>1. /\ Turn(r) /\ Stays(r) /\ run'[r] \in RunRecord
        /\ run'[r].pc = 30 /\ run'[r].status = "running"
    BY <1>1, <1>4, GotoTurn, Places, FlowPlaces DEF Inv
  <2>2. Established(run'[r], npm, image) /\ Holds(run'[r], image, page)
    BY <1>1, <1>4, <2>1, Places DEF Established, Holds, Past, On, Turn, Stays
  <2> QED
    BY <1>1, <2>1, <2>2, QuietStep
<1> QED
  BY <1>2, <1>3, <1>4 DEF ExistingRelease

\* Deleting an old draft keeps the invariant and everything published.
LEMMA DeleteDraftKeeps ==
  ASSUME Inv, NEW r \in Run, DeleteDraft(r)
  PROVE  Inv' /\ Kept
<1>1. /\ run[r].status = "running" /\ run[r].pc = 30 /\ run[r] \in RunRecord
      /\ Holds(run[r], image, page) /\ PageOnly /\ (UNCHANGED faults \/ Fault)
      /\ page' = NoPage
  BY Running, Places DEF DeleteDraft
<1>2. page.state # "published" /\ page' \in Page /\ page'.state # "published"
  BY <1>1, Places DEF NoPage, Page, Tarball, Holds, On
<1>3. CASE FailRun(r)
  BY <1>1, <1>2, <1>3, FailPageStep
<1>4. CASE Advance(r)
  <2>1. /\ Turn(r) /\ Stays(r) /\ run'[r] \in RunRecord
        /\ run'[r].pc = 31 /\ run'[r].status = "running"
    BY <1>1, <1>4, AdvanceTurn DEF Inv
  <2>2. Established(run'[r], npm, image)
    BY <1>1, <2>1, GoingOn
  <2>3. Holds(run'[r], image, page')
    BY <2>1, Places DEF Holds, On
  <2> QED
    BY <1>1, <1>2, <2>1, <2>2, <2>3, PageStep DEF Page
<1> QED
  BY <1>3, <1>4 DEF DeleteDraft

\* Uploading the assets keeps the invariant and everything published.
LEMMA UploadKeeps ==
  ASSUME Inv, NEW r \in Run, Upload(r)
  PROVE  Inv' /\ Kept
<1>1. /\ run[r].status = "running" /\ run[r].pc = 33 /\ run[r] \in RunRecord
      /\ run \in [Run -> RunRecord]
      /\ Established(run[r], npm, image) /\ Holds(run[r], image, page)
      /\ PageOnly /\ (UNCHANGED faults \/ Fault)
  BY Running, Places DEF Upload
<1>2. /\ page \in Page /\ page.state = "draft" /\ page.assets < 3
      /\ run[r].artifact.tarball = run[r].sha /\ run[r].sha \in Tarball
  BY <1>1, Places DEF Inv, TypeOK, Page, Holds, On, Established, Past, RunRecord
<1>3. CASE page' \in {page, NoPage} /\ FailRun(r)
  BY <1>1, <1>2, <1>3, FailPageStep
<1>4. CASE /\ page' = [page EXCEPT !.of = run[r].artifact.tarball, !.assets = @ + 1]
           /\ IF page'.assets = 3 THEN Advance(r) ELSE UNCHANGED run
  <2>1. /\ page' \in Page /\ page'.state = "draft" /\ page'.of = run[r].sha
        /\ page'.assets = page.assets + 1
    <3>1. page.assets \in 0 .. 3 /\ page.assets + 1 \in 0 .. 3
      BY <1>2 DEF Page
    <3>2. page' = [page EXCEPT !.of = run[r].sha, !.assets = page.assets + 1]
      BY <1>2, <1>4
    <3> QED
      BY <1>2, <3>1, <3>2 DEF Page
  <2>2. CASE page'.assets = 3
    <3>1. /\ Turn(r) /\ Stays(r) /\ run'[r] \in RunRecord
          /\ run'[r].pc = 34 /\ run'[r].status = "running"
      BY <1>1, <1>4, <2>2, AdvanceTurn DEF Inv
    <3>2. Established(run'[r], npm, image)
      BY <1>1, <3>1, GoingOn
    <3>3. page' = [state |-> "draft", of |-> run[r].sha, assets |-> 3]
      BY <2>1, <2>2 DEF Page
    <3>4. Holds(run'[r], image, page')
      BY <3>1, <3>3, Places DEF Holds, On, Turn
    <3> QED
      BY <1>1, <1>2, <2>1, <3>1, <3>2, <3>4, PageStep DEF Page
  <2>3. CASE page'.assets # 3
    <3>1. UNCHANGED run
      BY <1>4, <2>3
    <3>2. /\ Turn(r) /\ run'[r] \in RunRecord
          /\ run'[r].pc = 33 /\ run'[r].status = "running"
      BY <1>1, <3>1 DEF Turn
    <3>3. Established(run'[r], npm, image)
      BY <1>1, <3>1
    <3>4. Holds(run'[r], image, page')
      BY <2>1, <2>3, <3>2, <1>2, Places DEF Holds, On, Page
    <3> QED
      BY <1>1, <1>2, <2>1, <3>2, <3>3, <3>4, PageStep DEF Page
  <2> QED
    BY <2>2, <2>3
<1> QED
  BY <1>3, <1>4 DEF Upload

\* Comparing the uploaded assets keeps the invariant and everything published.
LEMMA MatchAssetsKeeps ==
  ASSUME Inv, NEW r \in Run, MatchAssets(r)
  PROVE  Inv' /\ Kept
<1>1. /\ run[r].status = "running" /\ run[r].pc = 34 /\ run[r] \in RunRecord
      /\ Holds(run[r], image, page) /\ PageOnly /\ (UNCHANGED faults \/ Fault)
  BY Running, Places DEF MatchAssets
<1>2. page.state = "draft"
  BY <1>1, Places DEF Holds, On
<1>3. CASE page' \in {page, NoPage} /\ FailRun(r)
  BY <1>1, <1>2, <1>3, FailPageStep
<1>4. CASE Advance(r) /\ UNCHANGED <<page, faults>>
  BY <1>1, <1>4, NextStep DEF PageOnly, world
<1> QED
  BY <1>3, <1>4 DEF MatchAssets

\* Publishing the release keeps the invariant and everything published.
LEMMA PublishPageKeeps ==
  ASSUME Inv, NEW r \in Run, PublishPage(r)
  PROVE  Inv' /\ Kept
<1>1. /\ run[r].status = "running" /\ run[r].pc = 36 /\ run[r] \in RunRecord
      /\ Established(run[r], npm, image) /\ Holds(run[r], image, page)
      /\ PageOnly /\ (UNCHANGED faults \/ Fault) /\ 36 \in DOMAIN Flow
  BY Running, Places, FlowPlaces DEF PublishPage
<1>2. page \in Page /\ page.state = "draft" /\ page.of = run[r].sha /\ page.assets = 3
  BY <1>1, Places DEF Holds, On, Inv, TypeOK, Page
<1>3. CASE page' \in {page, NoPage} /\ FailRun(r)
  BY <1>1, <1>2, <1>3, FailPageStep
<1>4. CASE page' = [page EXCEPT !.state = "published"] /\ (Advance(r) \/ Finish(r))
  <2>1. /\ Turn(r) /\ Stays(r) /\ run'[r] \in RunRecord
        /\ \/ run'[r].pc = 37 /\ run'[r].status = "running"
           \/ run'[r].pc = 36 /\ run'[r].status = "done"
    BY <1>1, <1>4, AdvanceTurn, FinishTurn DEF Inv
  <2>2. Established(run'[r], npm, image)
    BY <1>1, <2>1, GoingOn, Standing
  <2>3. run'[r].status = "running" => Holds(run'[r], image, page')
    BY <2>1, Places DEF Holds, On
  <2>4. /\ page' \in Page /\ page'.of = run[r].sha /\ page'.assets = 3
    BY <1>2, <1>4 DEF Page
  <2>5. /\ npm = run[r].sha /\ npm # None
        /\ image["vX.Y.Z"] = image["X.Y.Z"] /\ image["X.Y.Z"] # None
    BY <1>1, Places DEF Established, Past, Ref
  <2> QED
    BY <1>1, <1>2, <2>1, <2>2, <2>3, <2>4, <2>5, PageStep DEF Page
<1> QED
  BY <1>3, <1>4 DEF PublishPage

\* Comparing a published release keeps the invariant and everything published.
LEMMA PublishedMatchesKeeps ==
  ASSUME Inv, NEW r \in Run, PublishedMatches(r)
  PROVE  Inv' /\ Kept
<1>1. /\ run[r].status = "running" /\ run[r].pc = 37 /\ run[r] \in RunRecord
      /\ UNCHANGED <<controls, setup, drift, late, world, disturbed>> /\ (UNCHANGED faults \/ Fault)
      /\ 37 \in DOMAIN Flow
  BY Running, Places, FlowPlaces DEF PublishedMatches, PageOnly, world
<1>2. CASE FailRun(r)
  BY <1>1, <1>2, FailStep
<1>3. CASE Finish(r)
  <2>1. /\ Turn(r) /\ Stays(r) /\ run'[r] \in RunRecord
        /\ run'[r].pc = 37 /\ run'[r].status = "done"
    BY <1>1, <1>3, FinishTurn DEF Inv
  <2>2. Established(run'[r], npm, image)
    BY <1>1, <2>1, Standing
  <2> QED
    BY <1>1, <2>1, <2>2, QuietStep
<1> QED
  BY <1>2, <1>3 DEF PublishedMatches

\* Every step of a run keeps the invariant and everything published.
LEMMA JobKeeps ==
  ASSUME Inv, NEW r \in Run,
         Job(r) \/ Dies(r) \/ CheckCorrupt(r) \/ Rerun(r) \/ RerunAll(r)
  PROVE  Inv' /\ Kept
BY StartKeeps, LiveTagKeeps, LiveMainKeeps, ApproveKeeps, CheckArtifactKeeps, VerifyTagKeeps,
   VerifyMainKeeps, VerifyReadyKeeps, PackKeeps, StagePushKeeps, PublicPullKeeps, LookupKeeps,
   PushImageKeeps, PushedKeeps, CheckImageKeeps, QueryKeeps, PublishKeeps, ConfirmKeeps,
   ReleaseTagKeeps, PostDraftKeeps, ExistingReleaseKeeps, DeleteDraftKeeps, UploadKeeps,
   MatchAssetsKeeps, PublishPageKeeps, PublishedMatchesKeeps, DiesKeeps, CheckCorruptKeeps,
   RerunKeeps, RerunAllKeeps
   DEF Job

-----------------------------------------------------------------------------
(* The settings *)

\* What the configuration has got done when it is at a step, as long as nobody has changed
\* a setting by hand that it does not read again.  Of what it read at its start it needs
\* that private reporting, once seen enabled, is.
Prepared ==
  /\ setup.at \notin {"idle", "failed", "done"} => setup.seen \in Settings
  /\ ~late =>
       /\ setup.at \notin {"idle", "failed", "done"} /\ "reporting" \in setup.seen.features
            => "reporting" \in controls.features
       /\ setup.at \notin {"idle", "failed", "alerts"} => "alerts" \in controls.features
       /\ setup.at \notin {"idle", "failed", "alerts", "reporting"}
            => "reporting" \in controls.features
       /\ setup.at \notin {"idle", "failed", "alerts", "reporting", "security"}
            => SecurityOn(controls)
       /\ setup.at \in {"policy", "post", "exact", "rulesets", "persisted", "done"}
            => EnvironmentGuarded(controls) /\ CanApprove(controls.env, {setup.operator})
       /\ setup.at \in {"rulesets", "persisted", "done"} => ExactPolicy(controls)
       /\ setup.at = "done" => RulesetsRight(controls)

SetupType ==
  [at : Step, operator : User \cup {None}, reviewers : SUBSET User, seen : Settings \cup {None}]

\* Going on to a step of the configuration script.
LEMMA ToSets ==
  ASSUME setup \in SetupType, NEW step \in Step, To(step)
  PROVE  /\ setup' \in SetupType /\ setup'.at = step /\ setup'.operator = setup.operator
         /\ setup'.seen = setup.seen
BY DEF To, SetupType

\* The configuration script failing.
LEMMA ThrowSets ==
  ASSUME Throw
  PROVE  setup' \in SetupType /\ setup'.at = "failed"
<1>1. NoSetup \in SetupType
  BY DEF NoSetup, SetupType, Step
<1> QED
  BY <1>1 DEF Throw, SetupType, Step

\* The configuration script reporting success.
LEMMA ReportSets ==
  ASSUME setup \in SetupType, Report
  PROVE  setup' \in SetupType /\ setup'.at = "done" /\ setup'.operator = setup.operator
<1>1. NoSetup \in SetupType
  BY DEF NoSetup, SetupType, Step
<1>2. setup.operator \in User \cup {None}
  BY DEF SetupType
<1> QED
  BY <1>1, <1>2 DEF Report, SetupType, Step

\* Where nothing but the step of the script changes.
LEMMA ReadsKeep ==
  ASSUME ControlsTypeOK, Prepared, NEW u \in User, NEW rs \in Wanted, ConfigureReads(u, rs)
  PROVE  ControlsTypeOK' /\ Prepared'
<1>1. /\ setup' = [at |-> "alerts", operator |-> u, reviewers |-> rs, seen |-> controls]
      /\ UNCHANGED <<controls, drift, faults>> /\ late' = FALSE
  BY DEF ConfigureReads
<1>2. setup' \in SetupType /\ setup'.at = "alerts" /\ setup'.seen = controls
  BY <1>1, UserAssumption DEF SetupType, Step, ControlsTypeOK
<1> QED
  BY <1>1, <1>2 DEF ControlsTypeOK, SetupType, Prepared

\* Enabling the alerts keeps what the script has done so far.
LEMMA AlertsKeep ==
  ASSUME ControlsTypeOK, Prepared, EnsureAlerts
  PROVE  ControlsTypeOK' /\ Prepared'
<1>1. /\ controls \in Settings /\ setup \in SetupType /\ setup.at = "alerts"
      /\ UNCHANGED <<drift, late, faults>>
  BY DEF ControlsTypeOK, SetupType, EnsureAlerts, At, NoFault
<1>2. PICK f \in SUBSET {"alerts", "reporting", "scanning"} :
         controls.features \subseteq f /\ controls' = [controls EXCEPT !.features = f]
  BY <1>1 DEF EnsureAlerts, Settings
<1>3. controls' \in Settings /\ controls'.features = f
  BY <1>1, <1>2 DEF Settings
<1>4. /\ setup' \in SetupType
      /\ \/ setup'.at = "failed"
         \/ setup'.at = "reporting" /\ setup'.seen = setup.seen /\ "alerts" \in f
  BY <1>1, <1>3, ToSets, ThrowSets DEF EnsureAlerts, Step
<1> QED
  BY <1>1, <1>2, <1>3, <1>4 DEF ControlsTypeOK, SetupType, Prepared

\* Enabling private reporting keeps what the script has done so far.
LEMMA ReportingKeeps ==
  ASSUME ControlsTypeOK, Prepared, EnsureReporting
  PROVE  ControlsTypeOK' /\ Prepared'
<1>1. /\ controls \in Settings /\ setup \in SetupType /\ setup.at = "reporting"
      /\ UNCHANGED <<drift, late, faults>>
      /\ ~late /\ "reporting" \in setup.seen.features => "reporting" \in controls.features
  BY DEF ControlsTypeOK, SetupType, EnsureReporting, At, NoFault, Prepared
<1>2. PICK f \in SUBSET {"alerts", "reporting", "scanning"} :
         /\ controls.features \subseteq f /\ (~late => "reporting" \in f)
         /\ controls' = [controls EXCEPT !.features = f]
  BY <1>1 DEF EnsureReporting, Settings
<1>3. controls' \in Settings /\ controls'.features = f
  BY <1>1, <1>2 DEF Settings
<1>4. setup' \in SetupType /\ setup'.at = "security" /\ setup'.seen = setup.seen
  BY <1>1, ToSets DEF EnsureReporting, Step
<1> QED
  BY <1>1, <1>2, <1>3, <1>4 DEF ControlsTypeOK, SetupType, Prepared

\* Enabling the security fixes keeps what the script has done so far.
LEMMA SecurityKeeps ==
  ASSUME ControlsTypeOK, Prepared, EnsureSecurity
  PROVE  ControlsTypeOK' /\ Prepared'
<1>1. /\ controls \in Settings /\ setup \in SetupType /\ setup.at = "security"
      /\ UNCHANGED <<drift, late, faults>>
  BY DEF ControlsTypeOK, SetupType, EnsureSecurity, At, NoFault
<1>2. PICK f \in SUBSET {"alerts", "reporting", "scanning"}, x \in {"off", "paused", "on"} :
         /\ controls.features \subseteq f
         /\ controls' = [controls EXCEPT !.features = f, !.fixes = x]
  BY <1>1 DEF EnsureSecurity, Settings
<1>3. controls' \in Settings /\ controls'.features = f
  BY <1>1, <1>2 DEF Settings
<1>4. /\ setup' \in SetupType
      /\ \/ setup'.at = "failed"
         \/ setup'.at = "environment" /\ setup'.seen = setup.seen /\ SecurityOn(controls')
  BY <1>1, <1>3, ToSets, ThrowSets DEF EnsureSecurity, Step
<1> QED
  BY <1>1, <1>2, <1>3, <1>4 DEF ControlsTypeOK, SetupType, Prepared, SecurityOn

\* Creating the environment keeps what the script has done so far.
LEMMA EnvironmentKeeps ==
  ASSUME ControlsTypeOK, Prepared, ConfigureEnvironment
  PROVE  ControlsTypeOK' /\ Prepared'
<1>1. /\ controls \in Settings /\ setup \in SetupType /\ setup.at = "environment"
      /\ setup.reviewers \in SUBSET User /\ UNCHANGED <<drift, late, faults>>
  BY DEF ControlsTypeOK, SetupType, ConfigureEnvironment, At, NoFault
<1>2. PICK e \in Environment \cup {None} : controls' = [controls EXCEPT !.env = e]
  BY <1>1 DEF ConfigureEnvironment, Settings, Environment
<1>3. /\ controls' \in Settings /\ controls'.features = controls.features
      /\ controls'.fixes = controls.fixes
  BY <1>1, <1>2 DEF Settings
<1>4. /\ setup' \in SetupType
      /\ setup'.at = "failed" \/ (setup'.at = "approvers" /\ setup'.seen = setup.seen)
  BY <1>1, <1>3, ToSets, ThrowSets DEF ConfigureEnvironment, Step
<1> QED
  BY <1>1, <1>3, <1>4 DEF ControlsTypeOK, SetupType, Prepared, SecurityOn

\* Setting the approvers keeps what the script has done so far.
LEMMA ApproversKeep ==
  ASSUME ControlsTypeOK, Prepared, ConfigureApprovers
  PROVE  ControlsTypeOK' /\ Prepared'
<1>1. /\ setup \in SetupType /\ setup.at = "approvers" /\ UNCHANGED <<controls, drift, late, faults>>
  BY DEF ControlsTypeOK, SetupType, ConfigureApprovers, At, NoFault
<1>2. /\ setup' \in SetupType
      /\ \/ setup'.at = "failed"
         \/ /\ setup'.at = "policy" /\ setup'.seen = setup.seen
            /\ EnvironmentGuarded(controls) /\ CanApprove(controls.env, {setup'.operator})
  BY <1>1, ToSets, ThrowSets DEF ConfigureApprovers, Step
<1> QED
  BY <1>1, <1>2 DEF ControlsTypeOK, SetupType, Prepared

\* Deleting other deployment policies and adding the one of the tags keeps what the script
\* has done so far.
LEMMA PolicyKeeps ==
  ASSUME ControlsTypeOK, Prepared, EnsurePolicy \/ PostPolicy
  PROVE  ControlsTypeOK' /\ Prepared'
<1>1. /\ controls \in Settings /\ setup \in SetupType /\ setup.at \in {"policy", "post"}
      /\ UNCHANGED <<drift, late, faults>>
  BY DEF ControlsTypeOK, SetupType, EnsurePolicy, PostPolicy, At, NoFault
<1>2. PICK p \in SUBSET {"tag", "branch"} : controls' = [controls EXCEPT !.policies = p]
  BY <1>1 DEF EnsurePolicy, PostPolicy, Settings
<1>3. /\ controls' \in Settings /\ controls'.features = controls.features
      /\ controls'.fixes = controls.fixes /\ controls'.env = controls.env
  BY <1>1, <1>2 DEF Settings
<1>4. To("exact") \/ To("post")
  BY DEF EnsurePolicy, PostPolicy
<1>5. /\ setup' \in SetupType /\ setup'.at \in {"post", "exact"} /\ setup'.seen = setup.seen
      /\ setup'.operator = setup.operator
  BY <1>1, <1>4, ToSets DEF Step
<1> QED
  BY <1>1, <1>3, <1>5
     DEF ControlsTypeOK, SetupType, Prepared, SecurityOn, EnvironmentGuarded, CanApprove

\* The check that no other policy is left keeps what the script has done so far.
LEMMA ExactKeeps ==
  ASSUME ControlsTypeOK, Prepared, ConfigureExact
  PROVE  ControlsTypeOK' /\ Prepared'
<1>1. /\ setup \in SetupType /\ setup.at = "exact" /\ UNCHANGED <<controls, drift, late, faults>>
  BY DEF ControlsTypeOK, SetupType, ConfigureExact, At, NoFault
<1>2. /\ setup' \in SetupType
      /\ \/ setup'.at = "failed"
         \/ /\ setup'.at = "rulesets" /\ setup'.seen = setup.seen
            /\ setup'.operator = setup.operator /\ ExactPolicy(controls)
  BY <1>1, ToSets, ThrowSets DEF ConfigureExact, Step
<1> QED
  BY <1>1, <1>2 DEF ControlsTypeOK, SetupType, Prepared

\* Writing the rulesets keeps what the script has done so far.
LEMMA RulesetsKeep ==
  ASSUME ControlsTypeOK, Prepared, ConfigureRulesets
  PROVE  ControlsTypeOK' /\ Prepared'
<1>1. /\ controls \in Settings /\ setup \in SetupType /\ setup.at = "rulesets"
      /\ UNCHANGED <<drift, late, faults>>
  BY DEF ControlsTypeOK, SetupType, ConfigureRulesets, At, NoFault
<1>2. CASE Throw /\ UNCHANGED controls
  BY <1>1, <1>2, ThrowSets DEF ControlsTypeOK, SetupType, Prepared
<1>3. CASE /\ controls' = [controls EXCEPT !.rules = [n \in {"main", "tag"} |-> "right"]]
           /\ To("persisted")
  <2>1. /\ controls' \in Settings /\ controls'.features = controls.features
        /\ controls'.fixes = controls.fixes /\ controls'.env = controls.env
        /\ controls'.policies = controls.policies
    BY <1>1, <1>3 DEF Settings
  <2>2. /\ setup' \in SetupType /\ setup'.at = "persisted" /\ setup'.seen = setup.seen
        /\ setup'.operator = setup.operator
    BY <1>1, <1>3, ToSets DEF Step
  <2> QED
    BY <1>1, <2>1, <2>2
       DEF ControlsTypeOK, SetupType, Prepared, SecurityOn, EnvironmentGuarded, CanApprove,
           ExactPolicy
<1> QED
  BY <1>2, <1>3 DEF ConfigureRulesets

\* The script's last look at what was stored establishes what it reports.
LEMMA PersistedKeeps ==
  ASSUME ControlsTypeOK, Prepared, ConfigurePersisted
  PROVE  ControlsTypeOK' /\ Prepared'
<1>1. /\ setup \in SetupType /\ setup.at = "persisted" /\ UNCHANGED <<controls, drift, late, faults>>
  BY DEF ControlsTypeOK, SetupType, ConfigurePersisted, At, NoFault
<1>2. /\ setup' \in SetupType
      /\ \/ setup'.at = "failed"
         \/ /\ setup'.at = "done" /\ setup'.operator = setup.operator /\ RulesetsRight(controls)
  BY <1>1, ReportSets, ThrowSets DEF ConfigurePersisted
<1> QED
  BY <1>1, <1>2 DEF ControlsTypeOK, SetupType, Prepared

\* A request of the script that fails keeps what it has done so far.
LEMMA FailsKeeps ==
  ASSUME ControlsTypeOK, Prepared, ConfigureFails
  PROVE  ControlsTypeOK' /\ Prepared'
<1>1. /\ UNCHANGED <<controls, drift, late>> /\ faults' \in 0 .. MaxFaults
      /\ setup' \in SetupType /\ setup'.at = "failed"
  BY ThrowSets, UserAssumption DEF ConfigureFails, ControlsTypeOK
<1> QED
  BY <1>1 DEF ControlsTypeOK, SetupType, Prepared

\* What the setting changed by hand is, the others are as they were.
Others(what) ==
  /\ what # "rules" => controls'.rules = controls.rules
  /\ what # "policies" => controls'.policies = controls.policies
  /\ what # "reviewers" => controls'.env = controls.env
  /\ controls'.fixes = controls.fixes
  /\ \A f \in {"alerts", "reporting", "scanning"} \ {what} :
       f \in controls.features => f \in controls'.features

\* A change by hand changes one setting.
LEMMA DriftOfOne ==
  ASSUME controls \in Settings, NEW what \in DOMAIN Before, DriftOf(what)
  PROVE  controls' \in Settings /\ Others(what)
<1>1. CASE what = "rules" /\ controls' = [controls EXCEPT !.rules["tag"] = "wrong"]
  BY <1>1 DEF Settings, Others
<1>2. CASE what = "policies" /\ controls' = [controls EXCEPT !.policies = @ \cup {"branch"}]
  BY <1>2 DEF Settings, Others
<1>3. ASSUME what = "reviewers", controls.env # None, NEW u \in User,
             controls' = [controls EXCEPT !.env.reviewers = @ \ {u}]
      PROVE  controls' \in Settings /\ Others(what)
  <2>1. controls.env \in Environment
    BY <1>3 DEF Settings
  <2>2. [controls.env EXCEPT !.reviewers = @ \ {u}] \in Environment
    BY <2>1 DEF Environment
  <2>3. controls' = [controls EXCEPT !.env = [controls.env EXCEPT !.reviewers = @ \ {u}]]
    BY <1>3
  <2> QED
    BY <1>3, <2>2, <2>3 DEF Settings, Others
<1>4. CASE /\ what \in {"alerts", "reporting", "scanning"}
           /\ controls' = [controls EXCEPT !.features = @ \ {what}]
  BY <1>4 DEF Settings, Others
<1>5. controls.env # None => controls.env.reviewers \subseteq User
  BY DEF Settings, Environment
<1> QED
  BY <1>1, <1>2, <1>3, <1>4, <1>5 DEF DriftOf

\* A change by hand comes too late, or before the script has claimed anything of the setting.
LEMMA DriftKeeps ==
  ASSUME ControlsTypeOK, Prepared, Drift
  PROVE  ControlsTypeOK' /\ Prepared'
<1>1. /\ controls \in Settings /\ UNCHANGED <<setup, faults>> /\ late \in BOOLEAN
      /\ drift' \in 0 .. MaxDrift
  BY UserAssumption DEF ControlsTypeOK, Drift
<1>2. PICK what \in DOMAIN Before : DriftOf(what) /\ late' = (late \/ ~Rereads(what))
  BY DEF Drift
<1>3. controls' \in Settings /\ Others(what)
  BY <1>1, <1>2, DriftOfOne
<1>4. ControlsTypeOK'
  BY <1>1, <1>2, <1>3 DEF ControlsTypeOK
<1>5. Prepared'
  <2>1. CASE late'
    BY <1>1, <2>1 DEF Prepared
  <2>2. CASE ~late'
    <3>1. ~late /\ Rereads(what)
      BY <1>1, <1>2, <2>2
    <3>2. what \in {"alerts", "reporting", "scanning", "reviewers", "policies", "rules"}
      BY DEF Before
    <3>3. /\ what = "alerts" => setup.at = "alerts"
          /\ what = "reporting" => setup.at \in {"alerts", "reporting"} /\ "reporting" \notin setup.seen.features
          /\ what = "scanning" => setup.at \in {"alerts", "reporting", "security"}
          /\ what = "reviewers" => setup.at \in {"alerts", "reporting", "security", "environment", "approvers"}
          /\ what = "policies" => setup.at \notin {"rulesets", "persisted", "done"}
          /\ what = "rules" => setup.at # "done"
          /\ setup.at \in Step \ {"idle", "failed"}
      BY <3>1, <3>2 DEF Rereads, Before, Step
    <3>4. setup' = setup /\ ~late'
      BY <1>1, <2>2
    <3>5. setup.at \notin {"idle", "failed", "done"} => setup.seen \in Settings
      BY DEF Prepared
    <3>6. /\ setup.at \notin {"done"} /\ "reporting" \in setup.seen.features => "reporting" \in controls'.features
          /\ setup.at \notin {"alerts"} => "alerts" \in controls'.features
          /\ setup.at \notin {"alerts", "reporting"} => "reporting" \in controls'.features
      BY <1>3, <3>1, <3>3 DEF Prepared, Others
    <3>7. setup.at \notin {"alerts", "reporting", "security"} => SecurityOn(controls')
      BY <1>3, <3>1, <3>3 DEF Prepared, Others, SecurityOn
    <3>8. setup.at \in {"policy", "post", "exact", "rulesets", "persisted", "done"}
            => EnvironmentGuarded(controls') /\ CanApprove(controls'.env, {setup.operator})
      BY <1>3, <3>1, <3>3 DEF Prepared, Others, EnvironmentGuarded
    <3>9. /\ setup.at \in {"rulesets", "persisted", "done"} => ExactPolicy(controls')
          /\ setup.at = "done" => RulesetsRight(controls')
      BY <1>3, <3>1, <3>3 DEF Prepared, Others, ExactPolicy, RulesetsRight
    <3> QED
      BY <3>3, <3>4, <3>5, <3>6, <3>7, <3>8, <3>9 DEF Prepared
  <2> QED
    BY <2>1, <2>2
<1> QED
  BY <1>4, <1>5

\* Every step of the configuration script keeps what it has done so far.
LEMMA ConfigureKeeps ==
  ASSUME ControlsTypeOK, Prepared, Configure
  PROVE  ControlsTypeOK' /\ Prepared'
BY ReadsKeep, AlertsKeep, ReportingKeeps, SecurityKeeps, EnvironmentKeeps, ApproversKeep,
   PolicyKeeps, ExactKeeps, RulesetsKeep, PersistedKeeps, FailsKeeps
   DEF Configure

-----------------------------------------------------------------------------
(* The specification *)

\* What others do to main, to the tag and to the package keeps the invariant and everything
\* published.
LEMMA OthersKeep ==
  ASSUME Inv, \/ PushMain \/ CreateReleaseTag \/ DeleteTag \/ BootstrapChecks
              \/ (\E l \in {"none", "placeholder"} : BootstrapPublish(l)) \/ BootstrapVerify
              \/ OtherRelease
  PROVE  Inv' /\ Kept
<1> DEFINE P == [exists : BOOLEAN, boot : {"idle", "checked", "published", "refused", "done"},
                 latest : {"none", "placeholder", "this", "other"}]
<1>1. /\ UNCHANGED <<controls, drift, late, setup, faults, npm, builds, image, page, run>>
  BY DEF PushMain, CreateReleaseTag, DeleteTag, BootstrapChecks, BootstrapPublish,
         BootstrapVerify, OtherRelease, Package, controlVars
<1>2. /\ main \in Commit /\ tag \in Tarball /\ tagger \in Tarball /\ package \in P
      /\ disturbed \in BOOLEAN /\ main \in Tarball /\ None \in Tarball
  BY DEF Inv, TypeOK, Tarball
<1>3. package' \in P
  <2>1. CASE BootstrapChecks
    BY <1>2, <2>1 DEF BootstrapChecks, Package
  <2>2. CASE \E l \in {"none", "placeholder"} : BootstrapPublish(l)
    BY <1>2, <2>2 DEF BootstrapPublish, Package
  <2>3. CASE BootstrapVerify
    BY <1>2, <2>3 DEF BootstrapVerify, Package
  <2>4. CASE OtherRelease
    BY <1>2, <2>4 DEF OtherRelease
  <2>5. CASE PushMain \/ CreateReleaseTag \/ DeleteTag
    BY <1>2, <2>5 DEF PushMain, CreateReleaseTag, DeleteTag
  <2> QED
    BY <2>1, <2>2, <2>3, <2>4, <2>5
<1>4. main' \in Commit
  BY <1>2, ReleaseAssumption DEF PushMain, CreateReleaseTag, DeleteTag, BootstrapChecks,
     BootstrapPublish, BootstrapVerify, OtherRelease, Package, Commit
<1>5. tag' \in Tarball /\ tagger' \in Tarball /\ disturbed' \in BOOLEAN
  BY <1>2 DEF PushMain, CreateReleaseTag, DeleteTag, BootstrapChecks,
     BootstrapPublish, BootstrapVerify, OtherRelease, Package
<1>6. ControlsTypeOK'
  BY <1>1, FaultTypes DEF Inv, TypeOK
<1> QED
  BY <1>1, <1>3, <1>4, <1>5, <1>6, WorldStep

\* A change of the settings, by the script or by hand, keeps the invariant and everything
\* published.
LEMMA SettleKeeps ==
  ASSUME Inv, Prepared, Settle
  PROVE  Inv' /\ Kept /\ Prepared'
<1>1. ControlsTypeOK' /\ Prepared'
  BY ConfigureKeeps, DriftKeeps DEF Settle, Inv, TypeOK
<1>2. /\ UNCHANGED <<main, tag, tagger, package, npm, builds, image, page, run>>
      /\ disturbed' \in BOOLEAN
  BY DEF Settle, world
<1> QED
  BY <1>1, <1>2, WorldStep DEF Inv, TypeOK

\* Nothing in the release changes the settings.
LEMMA OnlySettle ==
  ASSUME Next, ~Settle
  PROVE  UNCHANGED <<controls, setup, drift, late>>
<1>1. CASE \E r \in Run : Job(r)
  BY <1>1 DEF Job, Start, LiveTag, LiveMain, Approve, CheckArtifact, VerifyTag, VerifyMain,
     VerifyReady, Pack, StagePush, PublicPull, Lookup, PushImage, Pushed, CheckImage, Query,
     Publish, Confirm, ReleaseTag, PostDraft, ExistingRelease, DeleteDraft, Upload, MatchAssets,
     PublishPage, PublishedMatches, Quiet, PageOnly, controlVars
<1>2. CASE ~\E r \in Run : Job(r)
  BY <1>2 DEF Next, PushMain, CreateReleaseTag, PushTag, DeleteTag, BootstrapChecks,
     BootstrapPublish, BootstrapVerify, OtherRelease, Package, Dies, CheckCorrupt, Rerun,
     RerunAll, Quiet, controlVars
<1> QED
  BY <1>1, <1>2

\* The invariant holds before the release.
LEMMA InitInv ==
  ASSUME Init
  PROVE  Inv /\ Prepared
<1>1. ControlsTypeOK
  <2>1. NoSetup \in SetupType
    BY DEF NoSetup, SetupType, Step
  <2>2. late \in BOOLEAN
    BY DEF Init, ControlsInit
  <2>3. drift \in 0 .. MaxDrift /\ faults \in 0 .. MaxFaults /\ controls \in Settings /\ setup \in SetupType
    BY <2>1, SetupsAssumption, UserAssumption DEF Init, ControlsInit
  <2> QED
    BY <2>2, <2>3 DEF ControlsTypeOK, SetupType
<1>2. Prepared
  BY DEF Init, ControlsInit, NoSetup, Prepared
<1>3. /\ NoRun \in RunRecord /\ NoRun.status = "none" /\ NoRun.pc = 1
  <2>1. NoArtifact \in Artifact
    BY DEF NoArtifact, Artifact, Tarball
  <2> QED
    BY <2>1, FlowPlaces DEF NoRun, RunRecord, Status, Tarball, Digest
<1>4. TypeOK
  <2>1. main \in Commit /\ tag \in Tarball /\ tagger \in Tarball /\ npm \in Tarball
    BY ReleaseAssumption DEF Init, Commit, Tarball
  <2>2. package \in [exists : BOOLEAN, boot : {"idle", "checked", "published", "refused", "done"},
                     latest : {"none", "placeholder", "this", "other"}]
    <3>1. \/ package = [exists |-> FALSE, boot |-> "idle", latest |-> "none"]
          \/ package = [exists |-> TRUE, boot |-> "done", latest |-> "none"]
      BY DEF Init
    <3>2. CASE package = [exists |-> FALSE, boot |-> "idle", latest |-> "none"]
      BY <3>2
    <3>3. CASE package = [exists |-> TRUE, boot |-> "done", latest |-> "none"]
      BY <3>3
    <3> QED
      BY <3>1, <3>2, <3>3
  <2>3. image \in [Ref -> Digest] /\ builds \in Nat /\ disturbed \in BOOLEAN
    BY DEF Init, Ref, Digest
  <2>4. page \in [state : {"none", "draft", "published"}, of : Tarball, assets : 0 .. 3]
    BY DEF Init, NoPage, Tarball
  <2>5. run \in [Run -> RunRecord]
    BY <1>3 DEF Init
  <2> QED
    BY <1>1, <2>1, <2>2, <2>3, <2>4, <2>5 DEF TypeOK
<1>5. \A r \in Run : run[r].status = "none" /\ run[r].pc = 1
  BY <1>3 DEF Init
<1>6. OneAtATime /\ RunsInOrder
  BY <1>5 DEF OneAtATime, RunsInOrder
<1>7. RunsAgree
  BY <1>5, Places DEF RunsAgree, Established, Past
<1>8. PublicAgree
  BY DEF Init, PublicAgree, NoPage
<1> QED
  BY <1>2, <1>4, <1>6, <1>7, <1>8 DEF Inv

\* Every step keeps the invariant and everything published.
LEMMA NextKeeps ==
  ASSUME Inv, Prepared, [Next]_vars
  PROVE  Inv' /\ Prepared' /\ (Kept \/ UNCHANGED vars)
<1>1. CASE Settle
  BY <1>1, SettleKeeps
<1>2. CASE Next /\ ~Settle
  <2>1. Inv' /\ Kept
    BY <1>2, JobKeeps, OthersKeep, PushTagKeeps DEF Next
  <2>2. Prepared'
    BY <1>2, OnlySettle DEF Prepared
  <2> QED
    BY <2>1, <2>2
<1>3. CASE UNCHANGED vars
  <2>1. /\ UNCHANGED <<controls, setup, drift, late, faults, npm, builds, image, page, run, main, tag,
                       tagger, package, disturbed>>
    BY <1>3 DEF vars, controlVars, releaseVars, world
  <2>2. Prepared'
    BY <2>1 DEF Prepared
  <2>3. ControlsTypeOK'
    BY <2>1, FaultTypes DEF Inv, TypeOK
  <2>4. Inv'
    BY <2>1, <2>3, WorldStep DEF Inv, TypeOK
  <2> QED
    BY <1>3, <2>2, <2>4
<1> QED
  BY <1>1, <1>2, <1>3

\* The inductive invariant holds in every reachable state.
LEMMA AlwaysInv == Spec => [](Inv /\ Prepared)
<1>1. Init => Inv /\ Prepared
  BY InitInv
<1>2. Inv /\ Prepared /\ [Next]_vars => (Inv /\ Prepared)'
  BY NextKeeps
<1> QED
  BY <1>1, <1>2, PTL DEF Spec

\* Every variable of the release and of its settings keeps its type, whatever is pushed,
\* changed by hand, lost or run again.
THEOREM ReleaseTypes == Spec => []TypeOK
<1>1. Inv => TypeOK
  BY DEF Inv
<1> QED
  BY <1>1, AlwaysInv, PTL

\* Whatever moves, dies or is run again, what the scripts make public under one version -
\* publish-release-artifact.mjs to npm, publish-docker-image.mjs to the registry,
\* create-github-release.mjs on GitHub - comes from one commit that carries the version, in
\* that order, and both docker tags name one image.
THEOREM PublicAlwaysAgrees == Spec => []PublicAgree
<1>1. Inv => PublicAgree
  BY DEF Inv
<1> QED
  BY <1>1, AlwaysInv, PTL

\* No step of any run replaces a published tarball, moves a docker tag that exists or
\* touches a published release: reconciling and re-running only ever add what is missing.
THEOREM PublicNeverChanges == Spec => PublicImmutable
<1>1. Inv /\ Prepared /\ [Next]_vars =>
        [/\ npm # None => npm' = npm
         /\ \A ref \in DOMAIN image : image[ref] # None => image'[ref] = image[ref]
         /\ page.state = "published" => page' = page]_vars
  BY NextKeeps DEF Kept
<1> QED
  BY <1>1, AlwaysInv, PTL DEF Spec, PublicImmutable

\* What configure-github-release-controls.mjs reports as done is what
\* check-release-readiness.mjs asks for when the same account pushes the tag, from whatever
\* settings it started, wherever its earlier tries failed and whatever was changed by hand
\* before its last look at it; unless the preflight token, which only the readiness check
\* knows, is missing or belongs to the only other reviewer.
THEOREM ConfiguredStaysReady == Spec => []ConfiguredIsReady
<1>1. ASSUME Prepared
      PROVE  ConfiguredIsReady
  <2> SUFFICES ASSUME setup.at = "done", ~late, controls.token # "missing",
                      ~(controls.env.reviewers \subseteq {setup.operator, controls.token})
               PROVE  SettingsReady(controls, setup.operator)
    BY DEF ConfiguredIsReady
  <2>1. CanApprove(controls.env, {setup.operator, controls.token})
    BY <1>1 DEF Prepared, CanApprove
  <2> QED
    BY <1>1, <2>1 DEF Prepared, SettingsReady
<1> QED
  BY <1>1, AlwaysInv, PTL
=============================================================================
