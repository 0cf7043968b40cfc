# A TLA+ verification of IOSForge

IOSForge clones a mobile app: from an App Store link and an archive of the
original it derives a specification, lets a coding agent generate a Flutter app
task by task, checks the app against the original, publishes it to GitHub and
starts CodeMagic builds. The work is done by Celery tasks that run for hours, on
workers that die, over PostgreSQL, Redis, an S3 store and several outside
services. What can go wrong between two of these steps is what this project
models.

## 1. The system

| Component | Source (`iosforge/`) | State | Operations | Talks to |
|---|---|---|---|---|
| admin job routes | `admin/routes_jobs.py` | none of its own; reads and writes `Job` and its rows | create, build, rework, build-settings, verify-web, codemagic-build, icon, slides, listing, metadata, signing | enqueues tasks, reads rows the tasks write |
| message queue | `common/queue.py` | messages, retries, dead letters | deliver, acknowledge late, retry with backoff, redeliver after a death | one worker process per queue (`--concurrency=1`) |
| job pipeline tasks | `worker/run_job.py` | `Job.state`, `result_version`, `WalkthroughResult`, `GenerationResult`, `StageTimeline`, the sources object | `run_job`, `build_frontend`, `rework_frontend`, `reverify_web`, `run_codemagic_build`, and the store tasks | task runner, compliance, GitHub, CodeMagic; run_job enqueues build_frontend, which enqueues run_codemagic_build |
| codegen checkpoint | `mvp/codegen_checkpoint.py` | three storage objects: progress, plan, workspace | save, load, clear | called by build_frontend around every task of the runner |
| task runner | `mvp/claude_gen.py` | a workspace, the set of done tasks, git worktrees | run the layers of the plan, merge screens, compile gate | the agent as a subprocess; the checkpoint hook |
| analysis, decomposition | `mvp/analyze.py` | `app_spec.json`, `tasks.json` | analyze, decompose, topo_layers | the agent |
| compliance | `mvp/compliance.py` | the tree, the page built from it, screenshots, the judge's file, frozen screens | refine_web_until_complete | browser, judge, agent |
| CodeMagic | `mvp/codemagic_*.py` | remote builds, `CodemagicBuild` rows | integrate, start, poll | outside service |
| App Store Connect | `mvp/asc_*.py` | two key files per job and a shared pair | store (admin), load and push (worker) | outside service |
| store assets, slides | `mvp/store_assets.py`, `slide_contract.py`, `image_slides.py` | a page, a picture and an iPad picture per slide, contracts, a review | generate, edit, redraw, re-frame, delete | agents, chromium, storage |
| app icon | `mvp/app_icon.py`, `icon_stage.py`, `admin/thumbs.py` | the versions of one object, cached previews | generate, stage, choose, delete, show | image service, storage |
| store listing, legal pages | `mvp/store_listing.py`, `legal_pages.py` | the draft, the URLs on record, the branch gh-pages | generate, save, publish, push | agent, GitHub, App Store Connect |
| storage | `storage/client.py` | objects and versions | put, get, delete, versions | everything |
| session, login, rate limit | `admin/auth.py`, `session.py`, `ratelimit.py` | signed cookies, attempt windows | login, verify, limit | routes |
| hermes codegen, providers, generators, CLI, config | the rest | see `PROJECT.json` | | |

The hard behaviours: a task is acknowledged only after it returns, so every step
of it may be repeated after a death; every exception is retried; rows are
committed between steps, and what is checked at the start of a task is used
hours later; saves and deletes of several objects are not atomic; the job's
state is written by four tasks, their error handlers and no owner.

What must hold, per component: the checkpoint loses at most what a torn save
tore, mixes no two plans, and the build ends; a job is built once and its
versions match its rows; no rework is lost; a tree that failed the gate is not
published; a verdict is about the tree that is delivered; CodeMagic builds what
is stored; the queue drains; a job at rest is in a final state; pictures, pages
and reviews of a listing belong together and keep the operator's edits; texts
and settings arrive whole, where they belong; an icon remains.

## 2. Plan

Order of work, most important first. Done:

1. **CodegenCheckpoint** with the abstract specification **ResumableBuild**.
2. **JobPipeline**: the tasks of the codegen queue, the routes, crashes, retries.
3. **TaskRunner**: layers, parallel screens in worktrees, attempts, merges.
4. **CodemagicBuild**: builds beside reworks that push; it consumes what `Send` of
   JobPipeline emits.
5. **RefineLoop**: the verification loop; its outcomes are those of `Verify` and
   `RenderFails` in JobPipeline.
6. The store tasks on a common **StoreWorker**: **StoreSlides**, and **StoreDesk**,
   which composes **IconVersions**, **SigningKey**, **StoreListing** and
   **SourceMetadata**.

Every one of them has a module of proofs (section 6). Next:

7. An abstract at-least-once queue that the brokers of JobPipeline,
   CodegenCheckpoint and StoreWorker implement, with the redelivery of a task that
   outlives `visibility_timeout` (`queue.py:235`); the refinement as a theorem.
8. The crawler of the APK path, should the UI offer that path again.

## 3. Modules

### CodegenCheckpoint

One build of one job by `build_frontend`. The storage objects are `hasProgress`
and `progress` (progress.json), `planObj` (tasks.json) and `wsObj`
(workspace.tar.gz). A workspace is a set of works `<<plan, task>>`, because
`decompose` asks a language model and gives a new plan every time. The worker's
memory is `plan`, `completed` and `built`; it is lost at every end of an attempt.
`analysis` is what `run_job` has stored so far: nothing, the walkthrough, or
`app_spec.json` too. A message of the build-settings route may come before it is
complete. `turned` tells that the attempt returned for want of it.

| Code | Actions |
|---|---|
| guards of build_frontend: a walkthrough, no GenerationResult | `Deliver`, `NoWalkthrough`, `SkipExisting` |
| download of the screenshots and of app_spec.json; the return without a retry | `ReadAnalysis`, `NoSpec` |
| `load`, else `decompose` | `LoadNothing`, `LoadCheckpoint`, `MisreadProgress`, `MisreadWorkspace`, `LoadRaises` |
| `save`, put by put | `SaveProgress`, `SaveTasks`, `SaveWorkspace`, `PutFails` |
| `generate_from_tasks` | `RunTask`, `CheckPasses`, `CheckFails` |
| `clear`, delete by delete | `DeleteObject`, `DeleteFails` |
| compile gate, upload, commit | `Publish`; any exception is `AttemptFails` |
| autoretry, dead letters, late ack, worker death | `Raise`, `Ack`, `Crash` |
| run_job, routes build and build-settings | `Enqueue` |
| run_job stores the walkthrough, then app_spec.json | `AnalysisGoesOn` |

`Before[t]` is what the runner completes before task t: the layers below it and,
for serial tasks, the tasks in front of it. A screen of a parallel layer is one
step, its merge; the agents' concurrent work in worktrees has no other effect
on the state modelled here. The runner is strict (`codegen.py:64`). A put or a
delete of one object is atomic, as S3's is. `tears`, `botched` and `misreads`
count the saves, clears and reads that went wrong; the properties relate losses
to them.

### ResumableBuild

What the checkpoint promises: finished tasks stay finished until an attempt
holds the complete app, and only a complete app is delivered. `CodegenCheckpoint`
implements it under `finished <- Restorable`, when no save or clear is
interrupted.

### TaskRunner

What one `RunTask` step of CodegenCheckpoint stands for: `generate_from_tasks`,
with a save as one step. A tree maps each file to the tasks whose edits it
holds; there is one file per screen directory, one for `assets` and one for the
rest (pubspec, main.dart, router). `th` says where each task is: submitted, with
an agent, succeeded, failed.

| Code | Actions |
|---|---|
| topo_layers, `_on_plan` | `TopoLayers`, `Start` |
| the loop over the layers, skips | `EnterLayer`, `NextLayer`, `Finish` |
| `_run_serial` | `StartSerial`, `SerialDone` |
| `_run_screen_layer`: base commit, pool, merges, cleanup | `StartPool`, `AddWorktree`, `Merge`, `EndPool` |
| `_run_task_attempts`, in a worktree or in flutter_app | `ScreenDone`, `AttemptFails`, `TimesOut` |
| retry, death, `load` | `Retry`, `Crash`, `Reload` |

An agent edits nothing, its own screen, or shared files too; the scaffold also
writes the screens' stubs (`Edits`). Two
screen tasks that list the same screen are not modelled; nothing in the code
forbids them. `shown` are the rows of the progress panel. `DoneInOrder` is what
`Before` of CodegenCheckpoint says.

### JobPipeline

One App Store job. A task is a sequence of steps named by `pc`; a step ends at a
commit, an object write or an outside call. `Stages` and `StartStage` are
`_start_stage`; `Verify` and `RenderFails` are `_run_web_verify`; the steps
`archive`, `commit`, `push`, `finish`, `send` are shared by the three frontend
tasks, which do the same there, and `AfterCommit` and `Finish` hold what differs.
A tree keeps how often each rework request was applied to it, its last
verdict and whether attribution, iOS compliance, icon and audio have been staged
in it. `build_frontend` stages them after it has archived the sources and before it
pushes, `rework_frontend` before it archives, `reverify_web` not at all; so the
tree pushed is not the tree stored, and `Holds` compares the two. `Fail` is the `except` of the tasks with the retry, `SendFails` the
broker error outside the `try` of rework and reverify, `Crash` the death of the
worker with redelivery. The five settings that change the flow are constants.

The order of delivery is free: retries wait for a backoff, redelivered messages
change places. The one worker is the documented deployment (`README.md:101`).
Database errors are not modelled, other than as the death of the worker.
`Job` rows are written whole at each commit. The APK path of run_job is left out:
`jobs_create` only makes App Store jobs.

### CodemagicBuild

The iOS builds of one job whose repository is connected. Two workers run at the
same time, the one of the queue "codegen" (reworks) and the one of the queue
"delivery" (builds), over one branch on GitHub and one CodeMagic application.
What an iOS build depends on is reduced to three versions: of the tree, of the
settings compiled into it (`made`) and of the settings in codemagic.yaml (`yaml`,
0 when the file is not there). The contents API lags a push, as two comments of the
code say: `past` holds the codemagic.yaml of all heads before, and `YamlGet` may be
shown any of them. `lagged` tells that the newest task was shown another one
than the head has.

| Code | Actions |
|---|---|
| rework and build-settings routes, the build button | `RouteRework`, `RouteButton` |
| rework_frontend: edit, force-push, enqueue the build; its repetition | `ReworkEdit`, `ReworkPush`, `ReworkSend`, `ReworkAgain` |
| run_codemagic_build up to the identity; exceptions before the build | `Deliver`, `Raise` |
| ensure_codemagic_yaml: contents API read, write | `YamlGet`, `YamlPut`, `YamlFails` |
| start_build, the row | `Start`, `StartFails`, `InsertRow` |
| the polling loop and its deadline | `Poll`, `PollFails`, `TimeOut` |
| late ack, worker death | `Ack`, `Crash` |
| CodeMagic (external) | `Remote` |

The waiting messages are counted by their retries, because they differ in
nothing else. A job that is not connected is left out: its task returns at once.
The upload of signing material changes nothing the properties speak of; its
exception is `Raise`. The statuses before the end (queued, building, ...) are
one. How a rework fails is JobPipeline's subject; here it pushes, or it is
repeated.

### RefineLoop

`refine_web_until_complete` under `_run_web_verify`, for one app. flutter, chromium
and the judge run with `check=False`, so that a failure leaves the file of an
earlier iteration in place. The model keeps the chain of copies apart: `tree`, `web`
(the page built from it), `png` (the screenshots), `judge` (what the judge
wrote). A screen has one of four looks and a score that follows from the look
alone; the routers and calls an agent may write are a set of navigations. The target
`Interpolated` stands for one with a `$`, which the audit skips, because it is put
together when the app runs. `Spec` starts from any tree, `GatedSpec` from one that
has come through the compile gate.

| Code | Actions |
|---|---|
| build_web | `Build`, `BuildFails` |
| render_web, evaluate | `Render`, `Judge`, `JudgeFails` |
| nav_audit, aggregate, `_apply_freeze` | `NavAudit`, `Held`, `IsGate`, `CloneRisk` |
| the gate and the stop reasons | `Pass`, `LastIteration`, `Plateau`, `GoOn` |
| diffs_to_tasks, apply_corrective | `TasksNow`, `Correct`, `CorrectFails` |
| timeouts, unreadable JSON | `TimesOut` |
| what becomes of the job | `Settle` |

### StoreWorker and StoreSlides

All tasks around the App Store listing run on the queue "codegen" with its one
worker. StoreWorker is that worker: the waiting messages, the running task with
its memory `mem`, retries, dead messages, deaths. StoreSlides adds the objects of
the screenshots. A page is a number and how many edits of the operator it holds;
a picture, the page it shows; a review, its verdict and the page that it saw. The
numbers of pages that nothing shows any more are used again, which only merges
states (`Current` names all places a page can be; they are seven, so eight
numbers are enough, and FreeNumber of the proofs says so).

| Code | Actions |
|---|---|
| generate_store_assets: download, contracts | `Gather`, `Analyse` |
| the image engine | `Draw` |
| resumable_slides, restore_pages, build_slide_pages, render_pages | `Restore`, `Build`, `Render` |
| review_slides, refine_slides and what ends their loop | `Review`, `Refine`, `LoopFails` |
| `_store_slides`, put by put | `StorePng`, `StorePage`, `StoreContracts`, `StoreReview` |
| regenerate_store_slide | `EditSlide`, `Unread`, `EditUnseen`, `PutPage`, `PutPng` |
| generate_store_slide, generate_ipad_slides | `DrawSlide`, `Reframe` |
| routes | `SlideRequest`, `DeleteSlide` |

Which engine an attempt uses is free, because the setting and the token may change
between attempts.

### StoreDesk and its parts

The rest of what an operator does to one job, with the threads of the admin beside
the worker:

| Module | Code | Actions |
|---|---|---|
| IconVersions | generate_app_icon, `_stage_app_icon` | `DrawIcon`, `LookForIcon`, `StageIcon` and their failures |
| | icon routes, thumbs | `AskDelete`, `DeleteVersion`, `AskSelect`, `SelectVersion`, `AskPreview` |
| SigningKey | jobs_signing, asc_credentials.store and load | `AskUpload`, `Upload` (file by file, emptied and written), `ReadEnv`, `ReadKey` |
| StoreListing | publish_legal_pages | `GatherFacts`, `PushPages`, `EnablePages`, `RecordUrls` |
| | generate_store_listing and the form | `ReadLegal`, `PutDraft`, `AskSave`, `PutSave` |
| | push_store_listing | `ReadDraft`, `FindTarget`, `WriteVersion`, `NameLocked`, `WriteInfo` (each may find no localisation) |
| | autofill_store_metadata, set_review_contact | `BeginFill`, `BeginContact`, `Fill` |
| SourceMetadata | build-settings route | `AskSettings`, `CommitSettings`, `EnqueueRebuild`, `EnqueueFails` |
| | run_job: ingest, walkthrough, analysis, the automatic build | `BeginIngest`, `Ingest`, `StoreWalk`, `Analyse`, `EndAnalysis` |
| | the tasks that read settings; the returns without a retry | `BeginBuild`, `BeginRework`, `StoreSources`; `TurnAway` |

`jobs_signing` is `async`, so uploads follow each other; the other routes are plain
functions and overlap. A key stands for the account that it opens. An account holds
the draft of its version texts, of its app info and of its name, three parts that a push
writes apart and may leave apart. StoreDesk
joins the parts: one queue, `AdminDies` ends all requests of the admin where they
are. `run_job`, `build_frontend` and `rework_frontend` are here only what they do to
the settings; JobPipeline has the rest.

## 4. Runs

| Run | Shows | Bounds |
|---|---|---|
| ckpt_safety | losses are bounded by torn saves, one plan is delivered, progress only grows, a finished build is not repeated, the message ends acknowledged or dead | 4 tasks in three layers with a parallel one, 2 plans, 2 retries, 3 exceptions (more than the retries), 2 deaths, 2 torn saves, 1 botched clear, 1 misread, 1 further message |
| ckpt_resume | without torn saves it implements ResumableBuild, and a message leads to the app or was turned away for want of an analysis | 2 exceptions (no more than the retries), 2 deaths, 1 further message |
| pipe_auto | rows, versions, reworks, gate, timeline, CodeMagic, resting states | default settings and the verification loop, 2 requests, 2 failures, 1 death, 1 retry |
| pipe_manual | a job in DONE has pushed the app it stores; every message is used up | automatic builds off, 3 requests, 2 failures, 1 death |
| task_runner | layers are right, agents start on what they need, finished work is merged, kept and saved in order, rows are true, runs end | 4 tasks, all graphs of three tasks under a fourth one and six plans with screens, 2 threads (fewer than screens), 2 attempts, 2 failures, 1 retry, 1 death |
| codemagic | the last build is made from the head with the current settings (in codemagic.yaml unless the contents API lagged), one build per message, no build without a row but for deaths and lost answers, final rows are true, polling ends | 1 request, 1 failure, 1 death, 1 retry, 2 polls before the deadline, with and without the automatic first build |
| refine_loop | what a report, a passed gate and a frozen score mean when every tool may leave an old file behind; an iteration has something to correct; the loop ends | 2 screens, 1 edge, 4 looks of the app, 6 routers (whole, without the edge, with a dead link, with an interpolated one, without a screen, with a catch-all), 3 iterations (a rise, a fall and the last one), 2 failures |
| store_slides | pictures, pages and review that are stored belong together; a listing keeps the operator's edits to slides that passed | 2 slides (one that passes beside one that fails), 2 review iterations (one refinement), 2 requests of any kind, 1 retry, 1 failure, 1 death |
| store_desk | an icon remains, previews show what they name, a push is whole, the privacy link stays and is served, a task writes to its own account, settings reach the app | 2 requests out of all, 2 image sizes, a shared key and one per upload, 1 retry, 1 failure, 1 death of worker or admin |
| ckpt_stuck, pipe_built_failed, refine_stale | one finding each, see below | the least bounds that reach it |

The bounds count misfortunes, not steps. Each property can be violated, in a
wrong version of the code, by one or two misfortunes and one or two messages, as
the mutants kept beside the definitions show; the bounds of the pipeline runs
allow one more than that, those of the store runs just that (StoreDesk has five
million states with it). The theorems of section 6 cover the other values. The task
plan has a first task, a layer of two and a task after it, the shapes
topo_layers produces. Two plans are enough to tell "the" plan from "another".
Deadlock is not checked: a job at rest has nothing to do.

Several properties name the exceptions that the code leaves open, as history
variables. Each is a case in which the property does not hold of the code:

| Variable | What happened | Property |
|---|---|---|
| `turned` | `build_frontend` returned without a walkthrough, without app_spec.json or without an answer of storage for it; the message is acknowledged | EventuallyBuilt, SettingsReachApp |
| `badPushes`, `badRenders`, `walks` | a failed push, a verification that could not render, a repeated analysis | DoneMeansPushed, KnownGapsNotPublished |
| `lagged` | the contents API showed the codemagic.yaml of an older head | LatestBuilt |
| `timeouts`, `lostAnswers` | the polling deadline; CodeMagic's answer to a start was lost | BuildsAccounted |
| `missed` | a tool failed in the last iteration | ReportFresh |
| `overlap` | an upload was incomplete while a task loaded the key | OwnAccountKept |
| `crowded` | two deletions of icons at a time | IconRemains |
| `unread` | storage failed while a build staged the icon; it ships with the default icon of Flutter | IconRemains |
| `clash` | a form was saved over a draft that it had not read | LegalLinkKept |
| `refused` | GitHub did not switch Pages on | LinkedPageServed |
| `kept`, `moved` | the last push found no localisation of the version or of the app info, or left the name; a key was uploaded meanwhile | PushedWhole |
| `unseen`, `unasked` | settings written over others or saved during the first build; saved without the rebuild | SettingsReachApp |

The property says what holds in all other cases that the model has. PreviewTrue
excepts two generated images of the same length, though the comment at
`thumbs.py:42-44` takes the length to tell them apart. PassedEditsKept is about which
page a listing stores: that the agent which refines a page keeps the edits in it
is an assumption (`Revised` of StoreSlides).

Fairness is weak fairness of the worker's own steps together (`WF_vars(Worker)`):
a running Celery worker continues its task and takes the next message. Nothing
is assumed of exceptions, deaths or admin requests. In JobPipeline `Worker`
contains `Fail`, and Runner of TaskRunner the failed attempts, whose number is
bounded. CodemagicBuild has two workers, and each continues its own tasks
(`WF_vars(Codegen)`, `WF_vars(Delivery)`); CodeMagic need never answer with a final
state. RefineLoop is one sequential function: some step of it is always taken
(`WF_vars(Next)`), whichever it is. The store modules state safety only; that their
messages are used up is the same argument as in JobPipeline.

## 5. Findings

Runs that expect a violation check a statement of the repository.

1. `ckpt_stuck`: clear deletes the workspace before the progress; a death in
   between makes the job unbuildable, because every attempt skips every task.
2. `pipe_built_failed`: an exception after the commit leaves the job FAILED and
   unpublished for good, although the retried task succeeds.
3. `refine_stale`: the verification is given a tree that compiles; a correction closes a
   gap in the navigation and breaks the compilation, is judged by the page of the tree
   before, passes, and is published. Nothing analyses it again.

Also visible in the models, without a run of their own.

Checkpoint and runner: load raises when progress.json is there without
tasks.json (after a save cut short), and goes on raising until the retries are
used up, although "a checkpoint failure never fails the build"; an error of storage
while app_spec.json is downloaded fails the job without any retry (`NoSpec`); save writes the
completed set before the workspace, so a torn save makes the next attempt skip a
task whose files are missing (`CheckpointInv` counts these losses). The checkpoint is
cleared before the GenerationResult exists, so a failed upload restarts the build
from zero. "Disjoint ownership keeps merges conflict-free" (`claude_gen.py:757`)
does not hold for `assets`, which every screen owns: a screen merged later puts
its base version of an asset back (`Overwritten` in TaskRunner is this case, and
EditsKept says that it is the only one). When a restart leaves one screen of a
layer, it is built without the whitelist of paths.

Pipeline: with the default settings the job rests in CODEMAGIC_INTEGRATION;
nothing sets DONE after the CodeMagic build, the pages treat the job as busy and
verify-web refuses it. A redelivered rework is applied to its own result. A retried
analysis adds a second WalkthroughResult; a reverification that cannot render
publishes the tree (`badRenders` in KnownGapsNotPublished); a gated job becomes DONE
when a retry of run_job runs after the build that build-settings has started;
after a death of the delivery worker, or at the polling deadline, the
CodemagicBuild row stays open, and no code closes it (`BuildsAccounted` counts
these rows). Errors that the compile gate cannot fix are only logged
(`run_job.py:758`), and the tree is published.
A reverification of an app that was never reworked unpacks the sources that were
stored before attribution, compliance keys, icon and audio were staged, and force-pushes
them, so that the CodeMagic build that follows lacks what "must ride along"
(`run_job.py:833-834`); CodemagicBuildsStored names this case. The contents API may still
show the codemagic.yaml that a rework's push has removed; it counts as up to date,
nothing writes it, and the last build clones a branch without a workflow, though no call
failed and `resolved_workflow_id` is there so that it "always references an existing
workflow" (`codemagic_integration.py:398`); `lagged` of LatestBuilt is this case.

Store: settings that are saved while the first build runs enqueue another build,
which finds the app built and returns, so that they never reach the app; so do
settings whose rebuild could not be enqueued (`routes_jobs.py:231`: "... then
rebuild"). An upload of a key empties the files before it writes them; a task that
loads them meanwhile takes the shared account or mixes two keys. find_app looks
for the bundle id of the source app and falls back to the first app of the account, and
`_pick_editable` to the newest version, in review or not. A push that finds no
localisation of the version, or of the app info, writes the other half and succeeds, so that
an account shows the texts of two drafts. Two deletions at a time remove the
last icon; a build whose read of the icon fails goes on with the default icon of Flutter. The preview of the current icon is cached by the length of the image,
and slides are served with `max-age` of a week under keys that are written again.
Pages, contracts and review are stored at the very end, so a worker that dies in the
first listing leaves nothing to replay, although `store_assets.py:389` says that pages
on record are; an empty review passes the loop but resumes nothing; an edit of a slide
that the review had rejected is authored anew by the next listing; a listing that is delivered
again revives deleted slides. When GitHub refuses to enable Pages, the URL is recorded all the same.

## 6. Proofs

Every safety invariant, every action property and the refinement of the passing runs
is a theorem, so that it holds for all values of the constants and not only on the
instances of section 4; so are the type invariants. What is left to TLC is at the end
of this section.

`CodegenCheckpoint_proofs`, for every number of tasks, every relation `Before`,
every set of plans and all bounds:

- `TypeCorrect`: `Spec => []TypeOK`.
- `CheckpointInvariant`: `Spec => []CheckpointInv`. The losses alone are not
  inductive: whether the next save or load loses work depends on what the
  worker's memory and the objects say of each other. `StoreAgrees` says which
  objects agree at which step (all works stored belong to the stored plan;
  during a save the progress is the worker's), `MemoryLossBounded` that the
  memory misses at most `tears` works, and that inside a save one more may be
  missing from the store. Both hold as long as no clear was botched and no read
  error swallowed. Each step then adds at most one missing work, and only when it
  adds one to `tears`; `MissingAfterTask` and `CardBound` are the facts about
  sets behind that. The bounds on the checkpoint and on the delivered app, and that
  one plan is delivered, are conjuncts of it.
- `ProgressNeverLost`: `Spec => ProgressKept`, from `GrowInv`: the archive holds no
  work of a task that `progress.json` does not name yet, and a runner that has
  resumed has at least what it names, so that the next save can only add to it.
- `BuiltOnlyOnce`: `Spec => BuiltOnce`, from `RowInv`: an attempt that builds has
  found no row.
- `Resumes`: `Undisturbed => (Spec => ImplementsResumableBuild)`, the refinement. The
  hypothesis `Undisturbed` says that no save is torn, no clear botched and no read
  error swallowed, which is when the checkpoint keeps what ResumableBuild promises
  (CkptSafety bounds what is lost otherwise); failures, retries, deaths and
  redeliveries stay. The initial states map to initial states, and each step of the
  four invariants above to a step of ResumableBuild or a stutter.

`JobPipeline_proofs`, for all settings and bounds:

- `OneBuild`: `Spec => []OneBuildManyVersions`. By itself it is not inductive:
  build_frontend checks for a GenerationResult at delivery and inserts one many
  steps later. `PipelineInv` says which steps of which task run with and
  without a row; it holds because one worker runs one task at a time.
- `OpenRows`: `Spec => []OpenRowsAreCrashes`. `TimelineInv` says at which steps
  the running task has an open row and that it has one at most; `PipelineInv`
  is needed for the tasks that reach these steps.

`JobPipelineOutcome_proofs` goes on from there. `TaskInv` (rework and reverify run on an
app that is there) and `RequestInv` (a request number names one message) carry the rest:

- `BuildsStored`: `Spec => []CodemagicBuildsStored`. `TreeInv`: from the archive on the
  directory holds the app that is stored, and so does what a task has published.
  `AssetInv`: which steps have a staged tree, and that the stored sources are staged
  from the first rework on.
- `GapsKeptBack`: `Spec => []KnownGapsNotPublished`. `GateInv`: on each of the three
  paths a tree with known gaps is gated before it reaches the upload.
- `ReworkNeverLost`: `Spec => []ReworkKept`. `ReworkInv` counts: a request whose archive
  is stored is in the sources one more time than its task was retried or died, at most.
- `QuietSettled`: `Spec => []QuietJobSettled`. `SettledInv` says for each step which
  states the job may be in, and that a state that is not final has a `FollowUp`.
- `DonePushed`: `Spec => []DoneMeansPushed`. `DoneInv`: no task rewrites rows, sources
  or the repository while the job is DONE, and what finishes with a repository has
  pushed.
- `TypeCorrect`: `Spec => []TypeOK`.

`CodemagicBuild_proofs`, for all bounds:

- `RowsTrue`: `Spec => []RowsTellTruth`. `RowInv` adds which build the worker
  holds at which step and that it has a row exactly from `InsertRow` on; CodeMagic
  changes only builds that have not ended.
- `NothingForgotten`: `Spec => []BuildsAccounted`. The counts hold between tasks
  only; `AccountInv` leaves out the row and the build that the worker is still
  going to deal with, and each death, deadline or lost answer adds one element to
  one of the two sets.
- `OneBuildEach`: `Spec => []OneBuildPerMessage`. `CountInv`: builds, waiting messages
  and a task that has not started its build are together no more than messages sent and
  deaths. `Waiting` makes the messages, which the model only counts, a finite set of
  pairs with a cardinality.
- `LatestIsBuilt`: `Spec => []LatestBuilt`. While nothing failed, `ReworkInv` says that
  the last rework in the queue compiles the newest settings into the app, and
  `LatestInv` what the task after the last push has done at each step, with what the contents
  API has shown it: `ShownHead` and `FileFromHead` for a task that was shown the head.
- `TypeCorrect`: `Spec => []TypeOK`; `PastInv`: heads before have no newer settings than the
  job; `VersionsInv` and `ClonesInv` are about the
  versions of the settings that the branch, the builds and the workers have.

`TaskRunner_proofs`, for every plan and all bounds:

- `PanelTrue`: `Spec => []DoneIsSaved`, and `InOrder`: `Spec => DoneInOrder`, from
  one invariant `RunInv`: `Threads` (which stages tasks are in, by the place of the
  runner; in the serial loop only the least pending task has an agent, in the pool
  exactly the pending screens are submitted), `Rows` and `Below` (the layers below are
  finished).
- `LayersCorrect`: `Spec => []LayersRight`, what topo_layers computes, for every graph.
  That its recursive definition defines a function (`ResolvedExists`) and what the
  function computes (`TopoLayered`) take induction over the layers, which `Upwards`
  gets from the least element of a set of naturals (`WFMin`), as no predicate can be a
  parameter. A graph that is refused leaves a set of tasks each of which waits for
  another of the set (`RefusedIsCyclic`), and the lowest task of such a set can be in no
  layer (`PlannedIsAcyclic`).
- `EditsStayed`: `Spec => []EditsKept`. `EditsInv`: the app and the checkpoint hold the
  finished work and nothing of an unfinished task, except in the serial loop and
  after a failure for good.
- `DepsThere`: `Spec => []DepsBuilt`. `WorktreesInv`: a worktree misses only the work of
  the screens that are merged `Behind` its back, which are of its own layer.
- `TypeCorrect`: `Spec => []TypeOK`.

`RefineLoop_proofs`, for every finite set of screens, every graph, every set of
looks and routers and all bounds: `RefineTypes` (`Spec => []TypeOK`) and `RefineFresh`,
`RefineShown`, `RefineClosed`, `RefineWorks` (the four invariants of the run).
`HistoryInv` says that a good look in a screenshot or in the judge's file has been shown
in this run, and that what is frozen has been and is rendered; `CopiesInv` how far down
the chain tree, page, screenshots and scores agree when nothing failed. `AuditEmpty`
turns "no open findings", a sum of cardinalities, into "every set is empty"; what an empty
`DeadLinks` says leaves the interpolated targets open.

`StoreDesk_proofs`, for all bounds, sets of sizes and with or without a shared
key, from one invariant `DeskInv` (invariant by `DeskCorrect`):

- `OwnAccountAlways`: `KeyInv` tells from the ids of the begun and the completed
  upload which file is from which; `LoadInv` that a load without overlap has read
  the completed one.
- `LegalLinkAlways`: `DraftInv` relates the draft, the record of the URLs, the
  running task and the open forms.
- `LinkedPageAlways`: `PagesInv`.
- `PushedWholeAlways`: an account may hold the texts of two drafts between the two
  writes of a push, or when a push failed there. `PushInv` says that this is
  the account of the key that is there now, and that a push is then still to
  come, unless one is dead or a key was uploaded meanwhile; everywhere else the account
  is `Whole` but for the parts in `kept`.
- `IconAlways`: `Spec => []IconRemains`. `Remaining`: as long as two deletions
  never overlap, the one that runs has found two versions and leaves one; so a build that
  began with an icon and staged none has had an error of storage.
- `PreviewAlways`: `Spec => []PreviewTrue`. `VersionCached`: a preview under a version's
  key shows that version, whose number is never given to another;
  `CurrentCached`: under the key of the current icon, which is the length of the file,
  it shows some image of that length.
- `SettingsAlways`: `Spec => []SettingsReachApp`. `Rebuilding`: the settings that were
  saved last are in the sources or on their way into them: with the running task, in a
  message that rebuilds the app (a build when there is none, a rework when there is
  one), or in a form that has committed and is about to send one; or there are no
  sources and a build was turned away.

`StoreSlides_proofs`, for every finite set of slides and all bounds:

- `PassedEditsAlways`. `CarriedInv`: from the restoring of the pages to their storing,
  the page in hand of a carried slide has at least the edits of the stored one,
  because the one worker runs no edit in between. `FreeNumber` shows that eight page
  numbers are enough.
- `ListingTogether`: `Spec => []ListingHangsTogether`. `HangInv`: `Building` and `Putting`
  say what a listing has in hand and which of the slides it has stored, and
  `Repaired` that a slide whose page, picture and score do not belong together has a
  listing still to come, or the edit that has changed the page.

The proofs assume only the named assumptions of the modules: `N` is positive,
plans are graphs over the tasks, `Before[t]` contains smaller tasks only, there is
a plan, screens and slides are finite sets and not empty, bounds are natural
numbers, settings are Booleans, and the names for "nothing" (`NoPage`, `NoFile`,
`NoDraft`, `NoMessage`, `NoTree`, `NoVersion`, `NoApp`, `Mixed`, ...) are none of the
values they stand beside. `Undisturbed` of `Resumes` is a hypothesis of that theorem
only.

Only model-checked: the liveness properties MessageUsedUp, EventuallyBuilt,
QueueDrains, DeliveryDrains, RunEnds and LoopEnds, because liveness under fairness is out of
TLAPS' reach; and the counterexamples of section 5. The type invariants are theorems
and not listed with the runs, because they say little about the code; TLC
checks them on the same instances when `INVARIANT TypeOK` is added to the
configurations. StoreDesk and StoreSlides have no type invariant of their own: the
invariants of their proofs hold the types that they need.

## 7. Not modelled, and why

`PROJECT.json` lists every component with its status and the reason. In short:

- Prompting, parsing, rendering, templates and generated code: their correctness
  is not a matter of state. Pure functions of one document (spec contract, design,
  build identity).
- hermes codegen: one subprocess call without steps of its own. The dispatcher
  and the provider registry: a choice by name.
- The APK path of run_job with the crawler and the emulator: `jobs_create` makes App
  Store jobs only. `walk` of the crawler is a greedy exploration bounded by
  `max_steps`; its screens' `from` links may form a cycle, because going back to
  the root gives the root a parent.
- Sessions, login and its limiter: they share no state with the pipeline.
- Redelivery of a task that runs longer than the visibility timeout of six hours
  while it is still running: the models have one delivery of a message at a time.
- Databases that fail other than with the worker; the generation of the
  certificate key, which three requests may do at once.
