----------------------------- MODULE JobPipeline -----------------------------
(***************************************************************************)
(* The life of one App Store job: the tasks run_job, build_frontend,       *)
(* rework_frontend and reverify_web (worker/run_job.py), the admin routes  *)
(* that enqueue them (admin/routes_jobs.py) and the queue "codegen", which *)
(* one worker process consumes (common/queue.py).                          *)
(*                                                                         *)
(* A step of a task ends at a commit, at a write to object storage or at a *)
(* call of an outside service, because the worker may die between any two  *)
(* of these.  The codegen checkpoint inside "generate" is the subject of   *)
(* CodegenCheckpoint; the messages sent to the queue "delivery" are not    *)
(* followed here.                                                          *)
(*                                                                         *)
(* Of a source tree the model keeps how often each rework request has been *)
(* applied to it, what the last structural verification said of it, and    *)
(* whether the attribution files, compliance keys, icon and audio          *)
(* envelopes have been staged in it.                                       *)
(***************************************************************************)
EXTENDS Naturals, Sequences

CONSTANTS
    AutoBuildFrontend,   \* settings.auto_build_frontend
    VerifyLoop,          \* settings.pipeline_web_verify_loop
    HardGate,            \* settings.web_verify_hard_gate
    GithubPublish,       \* settings.github_publish, and a token is there
    CodemagicIntegration,\* settings.codemagic_integration, and a token is there
    CodemagicAutoBuild,  \* settings.codemagic_auto_build
    NoTree,              \* no sources, or no repository
    MaxRetries,          \* PipelineTask.max_retries
    MaxRequests,         \* bound: messages enqueued by the admin routes
    MaxFailures,         \* bound: exceptions, failed pushes and failed renders
    MaxCrashes           \* bound: deaths of the worker process

ASSUME SettingsAssumption ==
    {AutoBuildFrontend, VerifyLoop, HardGate, GithubPublish,
     CodemagicIntegration, CodemagicAutoBuild} \subseteq BOOLEAN
ASSUME BoundsAssumption ==
    /\ MaxRetries \in Nat /\ MaxRequests \in Nat
    /\ MaxFailures \in Nat /\ MaxCrashes \in Nat

VARIABLES
    \* database
    state,        \* Job.state
    version,      \* Job.result_version
    walks,        \* number of WalkthroughResult rows
    gens,         \* GenerationResult rows in the order of created_at
    openRows,     \* StageTimeline rows without finished_at
    \* object storage and GitHub
    specStored,   \* app_spec.json exists
    sources,      \* the tree in sources/flutter_app.zip
    repo,         \* the tree at the head of the repository of the job
    \* broker
    msgs,         \* every message sent to the queue "codegen"
    \* memory of the worker
    pc,           \* the next step of the running task
    cur,          \* the index in msgs of the running task, 0 when idle
    tree,         \* the flutter_app directory
    gated,        \* the verdict of _run_web_verify
    published,    \* the push of this task has succeeded
    rowOpen,      \* stage_row is a row that is not finished
    \* history
    requests, failures, crashes, badPushes, badRenders

database == <<state, version, walks, gens, openRows>>
durable  == <<specStored, sources, repo>>
locals   == <<tree, gated, published, rowOpen>>
history  == <<requests, failures, crashes, badPushes, badRenders>>
vars     == <<database, durable, msgs, pc, cur, locals, history>>

Requests == 1..MaxRequests
States   == {"queued", "walkthrough", "analysis", "codegen", "verify", "github_upload",
             "codemagic_integration", "done", "needs_input", "failed"}
Terminal == {"done", "needs_input", "failed"}
TaskNames == {"run_job", "build_frontend", "rework_frontend", "reverify_web"}
Verdicts == {"unknown", "closed", "gaps"}
Trees    == [applied : [Requests -> Nat], verdict : Verdicts, staged : BOOLEAN]
Gens     == [by : TaskNames, repo : BOOLEAN, cm : BOOLEAN]
Messages == [task : TaskNames, req : 0..MaxRequests, status : {"queued", "acked", "dead"},
             retries : 0..MaxRetries]

ASSUME TreeAssumption == NoTree \notin Trees

\* The steps at which _start_stage opens a timeline row and sets the state.
Stages ==
    [walkStart    |-> [state |-> "walkthrough",           next |-> "walk"],
     analyseStart |-> [state |-> "analysis",              next |-> "analyse"],
     codeStart    |-> [state |-> "codegen",               next |-> "generate"],
     editStart    |-> [state |-> "codegen",               next |-> "edit"],
     verifyStart  |-> [state |-> "verify",                next |-> "verify"],
     uploadStart  |-> [state |-> "github_upload",         next |-> "push"],
     cmStart      |-> [state |-> "codemagic_integration", next |-> "integrate"]]
Pcs == DOMAIN Stages \cup {Stages[p].next : p \in DOMAIN Stages}
       \cup {"idle", "handoff", "chain", "chainSend", "hydrate", "archive", "rearchive", "commit",
             "stage", "pushed", "finish", "send", "ack"}

TypeOK ==
    /\ state \in States /\ version \in Nat /\ walks \in Nat /\ openRows \in Nat
    /\ gens \in Seq(Gens) /\ msgs \in Seq(Messages)
    /\ specStored \in BOOLEAN
    /\ {sources, repo, tree} \subseteq Trees \cup {NoTree}
    /\ pc \in Pcs /\ cur \in 0..Len(msgs)
    /\ gated \in BOOLEAN /\ published \in BOOLEAN /\ rowOpen \in BOOLEAN
    /\ requests \in 0..MaxRequests /\ failures \in 0..MaxFailures /\ crashes \in 0..MaxCrashes
    /\ badPushes \in 0..failures /\ badRenders \in 0..failures

-----------------------------------------------------------------------------
Message(task, req) == [task |-> task, req |-> req, status |-> "queued", retries |-> 0]
Task    == msgs[cur].task
LastGen == gens[Len(gens)]

\* jobs_create: the job and its archive are stored, then run_job is enqueued;
\* when the broker is down the job stays queued without a message.
Init ==
    /\ state = "queued" /\ version = 1 /\ walks = 0 /\ gens = <<>> /\ openRows = 0
    /\ specStored = FALSE /\ sources = NoTree /\ repo = NoTree
    /\ msgs \in {<<>>, <<Message("run_job", 0)>>}
    /\ pc = "idle" /\ cur = 0
    /\ tree = NoTree /\ gated = FALSE /\ published = FALSE /\ rowOpen = FALSE
    /\ requests = 0 /\ failures = 0 /\ crashes = 0 /\ badPushes = 0 /\ badRenders = 0

\* The task ends: its temporary directory and its variables are gone.
Forget ==
    /\ pc' = "idle" /\ cur' = 0
    /\ tree' = NoTree /\ gated' = FALSE /\ published' = FALSE /\ rowOpen' = FALSE

\* One of the failures a run may have.
Misfortune == failures < MaxFailures /\ failures' = failures + 1

\* autoretry_for: the message is queued again until max_retries is used up.
RetryOrDie ==
    msgs' = IF msgs[cur].retries < MaxRetries
            THEN [msgs EXCEPT ![cur].retries = @ + 1]
            ELSE [msgs EXCEPT ![cur].status = "dead"]

-----------------------------------------------------------------------------
(***************************************************************************)
(* The admin routes.  A request that finds the broker down is lost without *)
(* any effect.                                                             *)
(***************************************************************************)
Request(task) ==
    /\ requests < MaxRequests /\ requests' = requests + 1
    /\ msgs' = Append(msgs, Message(task, requests'))
    /\ UNCHANGED <<database, durable, pc, cur, locals, failures, crashes, badPushes, badRenders>>

RouteBuild  == walks > 0 /\ gens = <<>> /\ state = "done" /\ Request("build_frontend")
RouteRework == gens # <<>> /\ Request("rework_frontend")
RouteVerify == gens # <<>> /\ state \in {"done", "needs_input"} /\ Request("reverify_web")
\* build-settings augments an existing app and builds a missing one, in any state.
RouteBuildSettings == RouteRework \/ (gens = <<>> /\ Request("build_frontend"))

Routes == RouteBuild \/ RouteRework \/ RouteVerify \/ RouteBuildSettings

-----------------------------------------------------------------------------
(***************************************************************************)
(* Delivery.  The broker may deliver any queued message next: retries wait *)
(* for their backoff and redelivered messages change places.               *)
(***************************************************************************)

\* Mutant of TakesOver: build_frontend does not look for a GenerationResult.
TakesOverUnchecked(task) ==
    CASE task = "run_job"         -> "walkStart"
      [] task = "build_frontend"  -> IF walks = 0 THEN "ack" ELSE "hydrate"
      [] task = "rework_frontend" -> IF walks = 0 \/ gens = <<>> THEN "ack" ELSE "editStart"
      [] task = "reverify_web"    -> IF walks = 0 \/ gens = <<>> THEN "ack" ELSE "hydrate"
\* The first step of a task, "ack" when its guards make it return at once.
TakesOver(task) ==
    CASE task = "run_job"         -> "walkStart"
      [] task = "build_frontend"  -> IF walks = 0 \/ gens # <<>> THEN "ack" ELSE "hydrate"
      [] task = "rework_frontend" -> IF walks = 0 \/ gens = <<>> THEN "ack" ELSE "editStart"
      [] task = "reverify_web"    -> IF walks = 0 \/ gens = <<>> THEN "ack" ELSE "hydrate"

\* A build without an analysis fails the job and still succeeds as a task.
Deliver ==
    /\ pc = "idle"
    /\ \E m \in DOMAIN msgs :
          /\ msgs[m].status = "queued"
          /\ cur' = m /\ pc' = TakesOver(msgs[m].task)
          /\ state' = IF msgs[m].task = "build_frontend" /\ walks = 0 THEN "failed" ELSE state
    /\ UNCHANGED <<version, walks, gens, openRows, durable, msgs, locals, history>>

\* Mutant of Ack: a task whose guards made it return is not acknowledged.
AckWorkOnly ==
    /\ pc = "ack"
    /\ msgs' = IF tree = NoTree THEN msgs ELSE [msgs EXCEPT ![cur].status = "acked"]
    /\ Forget
    /\ UNCHANGED <<database, durable, history>>
\* The task returns and its message is acknowledged.
Ack ==
    /\ pc = "ack"
    /\ msgs' = [msgs EXCEPT ![cur].status = "acked"]
    /\ Forget
    /\ UNCHANGED <<database, durable, history>>

StartStage ==
    /\ pc \in DOMAIN Stages
    /\ state' = Stages[pc].state
    /\ openRows' = openRows + 1 /\ rowOpen' = TRUE
    /\ pc' = Stages[pc].next
    /\ UNCHANGED <<version, walks, gens, durable, msgs, cur, tree, gated, published, history>>

\* _finish_stage.
FinishStage == openRows' = openRows - 1 /\ rowOpen' = FALSE

-----------------------------------------------------------------------------
(***************************************************************************)
(* run_job.                                                                *)
(***************************************************************************)

\* The archive is ingested; the WalkthroughResult and the end of the stage
\* are one commit.
Walk ==
    /\ pc = "walk"
    /\ walks' = walks + 1 /\ FinishStage
    /\ pc' = "analyseStart"
    /\ UNCHANGED <<state, version, gens, durable, msgs, cur, tree, gated, published, history>>

\* The analysis is done and app_spec.json is uploaded; the handoff follows.
Analyse ==
    /\ pc = "analyse"
    /\ specStored' = TRUE
    /\ pc' = "handoff"
    /\ UNCHANGED <<database, sources, repo, msgs, cur, locals, history>>

Handoff ==
    /\ pc = "handoff"
    /\ FinishStage
    /\ pc' = "chain"
    /\ UNCHANGED <<state, version, walks, gens, durable, msgs, cur, tree, gated, published, history>>

Chain ==
    /\ pc = "chain"
    /\ state' = IF AutoBuildFrontend THEN "codegen" ELSE "done"
    /\ pc' = IF AutoBuildFrontend THEN "chainSend" ELSE "ack"
    /\ UNCHANGED <<version, walks, gens, openRows, durable, msgs, cur, locals, history>>

ChainSend ==
    /\ pc = "chainSend"
    /\ msgs' = Append(msgs, Message("build_frontend", 0))
    /\ pc' = "ack"
    /\ UNCHANGED <<database, durable, cur, locals, history>>

-----------------------------------------------------------------------------
(***************************************************************************)
(* build_frontend, rework_frontend and reverify_web.                       *)
(***************************************************************************)

\* build_frontend needs app_spec.json; a reverification needs the sources only.
Hydrate ==
    /\ pc = "hydrate"
    /\ Task = "build_frontend" => specStored
    /\ pc' = IF Task = "build_frontend" THEN "codeStart" ELSE "verifyStart"
    /\ tree' = IF Task = "build_frontend" THEN NoTree ELSE sources
    /\ UNCHANGED <<database, durable, msgs, cur, gated, published, rowOpen, history>>

\* app_spec.json is not there, or cannot be read now: the job fails, the task
\* returns normally.
NoSpec ==
    /\ pc = "hydrate" /\ Task = "build_frontend"
    /\ IF specStored THEN Misfortune ELSE UNCHANGED failures
    /\ state' = "failed"
    /\ pc' = "ack"
    /\ UNCHANGED <<version, walks, gens, openRows, durable, msgs, cur, locals,
                   requests, crashes, badPushes, badRenders>>

\* decompose, codegen and the compile gate.
Generate ==
    /\ pc = "generate"
    /\ tree' = [applied |-> [r \in Requests |-> 0], verdict |-> "unknown", staged |-> FALSE]
    /\ pc' = "archive"
    /\ UNCHANGED <<database, durable, msgs, cur, gated, published, rowOpen, history>>

\* Mutant of Edit: the rework starts from a fresh tree.
EditFresh ==
    /\ pc = "edit"
    /\ tree' = [applied |-> [r \in Requests |-> IF r = msgs[cur].req THEN 1 ELSE 0],
                verdict |-> "unknown", staged |-> TRUE]
    /\ pc' = "archive"
    /\ UNCHANGED <<database, durable, msgs, cur, gated, published, rowOpen, history>>
\* The stored sources are unpacked, the agent applies the request to them, and the
\* assets are staged before the tree is archived.
Edit ==
    /\ pc = "edit"
    /\ tree' = [sources EXCEPT !.applied[msgs[cur].req] = @ + 1, !.verdict = "unknown",
                               !.staged = TRUE]
    /\ pc' = "archive"
    /\ UNCHANGED <<database, durable, msgs, cur, gated, published, rowOpen, history>>

\* The tree is stored again; build_frontend has its row by now.
AfterVerify == IF Task = "build_frontend" THEN "rearchive" ELSE "archive"

\* _run_web_verify: every gap is closed, or gaps remain and the hard gate hands
\* the job to a human.
Verify ==
    /\ pc = "verify"
    /\ \E v \in {"closed", "gaps"} :
          /\ tree' = [tree EXCEPT !.verdict = v]
          /\ gated' = (HardGate /\ v = "gaps")
    /\ state' = IF gated' THEN "needs_input" ELSE state
    /\ FinishStage
    /\ pc' = AfterVerify
    /\ UNCHANGED <<version, walks, gens, durable, msgs, cur, published, history>>

\* A build or render failure does not gate; the loop may have changed the tree.
RenderFails ==
    /\ pc = "verify"
    /\ Misfortune /\ badRenders' = badRenders + 1
    /\ \E v \in {tree.verdict, "unknown"} : tree' = [tree EXCEPT !.verdict = v]
    /\ FinishStage
    /\ pc' = AfterVerify
    /\ UNCHANGED <<state, version, walks, gens, durable, msgs, cur, gated, published,
                   requests, crashes, badPushes>>

\* _archive_and_upload_sources replaces the one sources object of the job;
\* build_frontend calls it again after VERIFY.
Archive ==
    /\ pc \in {"archive", "rearchive"}
    /\ sources' = tree
    /\ pc' = IF pc = "archive" THEN "commit" ELSE "stage"
    /\ UNCHANGED <<database, specStored, repo, msgs, cur, locals, history>>

\* Mutant of AfterCommit: a rework is stored but not pushed.
AfterCommitNoPush(hasRepo) ==
    CASE Task = "build_frontend"  -> IF VerifyLoop THEN "verifyStart" ELSE "stage"
      [] Task = "rework_frontend" -> "finish"
      [] Task = "reverify_web"    -> IF hasRepo /\ ~gated THEN "uploadStart" ELSE "finish"
\* Where a task goes once its row is committed.
AfterCommit(hasRepo) ==
    CASE Task = "build_frontend"  -> IF VerifyLoop THEN "verifyStart" ELSE "stage"
      [] Task = "rework_frontend" -> IF hasRepo THEN "uploadStart" ELSE "finish"
      [] Task = "reverify_web"    -> IF hasRepo /\ ~gated THEN "uploadStart" ELSE "finish"

\* The new GenerationResult; rework and reverify copy the repository and the
\* CodeMagic application of the previous one and count a new version.
Commit ==
    LET old == IF gens = <<>> THEN [repo |-> FALSE, cm |-> FALSE] ELSE LastGen
    IN  /\ pc = "commit"
        /\ gens' = Append(gens, [by |-> Task, repo |-> old.repo, cm |-> old.cm])
        /\ version' = IF Task = "build_frontend" THEN version ELSE version + 1
        /\ IF rowOpen THEN FinishStage ELSE UNCHANGED <<openRows, rowOpen>>
        /\ pc' = AfterCommit(old.repo)
        /\ UNCHANGED <<state, walks, durable, msgs, cur, tree, gated, published, history>>

\* Mutant of StageAssets: the gate does not keep the app from GitHub.
StageUngated ==
    /\ pc = "stage"
    /\ tree' = [tree EXCEPT !.staged = TRUE]
    /\ pc' = IF GithubPublish THEN "uploadStart" ELSE "finish"
    /\ UNCHANGED <<database, durable, msgs, cur, gated, published, rowOpen, history>>
\* build_frontend stages the assets in the tree that it is going to push; the sources
\* object has been stored before, without them.
StageAssets ==
    /\ pc = "stage"
    /\ tree' = [tree EXCEPT !.staged = TRUE]
    /\ pc' = IF GithubPublish /\ ~gated THEN "uploadStart" ELSE "finish"
    /\ UNCHANGED <<database, durable, msgs, cur, gated, published, rowOpen, history>>

\* publish creates the repository, push_existing forces a commit to it.
Push ==
    /\ pc = "push"
    /\ repo' = tree
    /\ pc' = "pushed"
    /\ UNCHANGED <<database, specStored, sources, msgs, cur, locals, history>>

RecordPush ==
    /\ pc = "pushed"
    /\ gens' = [gens EXCEPT ![Len(gens)].repo = TRUE]
    /\ published' = TRUE /\ FinishStage
    /\ pc' = IF Task = "build_frontend" /\ CodemagicIntegration THEN "cmStart" ELSE "finish"
    /\ UNCHANGED <<state, version, walks, durable, msgs, cur, tree, gated, history>>

\* A failed push does not lose the app: the row is closed with an error.
PushFails ==
    /\ pc = "push"
    /\ Misfortune /\ badPushes' = badPushes + 1
    /\ FinishStage
    /\ pc' = "finish"
    /\ UNCHANGED <<state, version, walks, gens, durable, msgs, cur, tree, gated, published,
                   requests, crashes, badRenders>>

Integrate ==
    /\ pc = "integrate"
    /\ \/ /\ gens' = [gens EXCEPT ![Len(gens)].cm = TRUE]
          /\ UNCHANGED failures
       \/ /\ Misfortune       \* both attempts failed
          /\ UNCHANGED gens
    /\ FinishStage
    /\ pc' = "finish"
    /\ UNCHANGED <<state, version, walks, durable, msgs, cur, tree, gated, published,
                   requests, crashes, badPushes, badRenders>>

\* A CodeMagic build follows a push; build_frontend then leaves the state as it
\* is, the other two tasks set DONE first.
Follows == LastGen.cm /\ published /\ (Task = "build_frontend" => CodemagicAutoBuild)
\* Mutant of Finish: the CodeMagic build follows a failed push as well.
FinishUnpublished ==
    /\ pc = "finish"
    /\ state' = IF gated \/ (Task = "build_frontend" /\ Follows) THEN state ELSE "done"
    /\ pc' = IF LastGen.cm /\ ~gated THEN "send" ELSE "ack"
    /\ UNCHANGED <<version, walks, gens, openRows, durable, msgs, cur, locals, history>>
\* Mutant of Finish: no task sets DONE when a CodeMagic build follows.
FinishInBuild ==
    /\ pc = "finish"
    /\ state' = IF gated \/ Follows THEN state ELSE "done"
    /\ pc' = IF Follows THEN "send" ELSE "ack"
    /\ UNCHANGED <<version, walks, gens, openRows, durable, msgs, cur, locals, history>>
\* build_frontend, rework_frontend and reverify_web end their try here.
Finish ==
    /\ pc = "finish"
    /\ state' = IF gated \/ (Task = "build_frontend" /\ Follows) THEN state ELSE "done"
    /\ pc' = IF Follows THEN "send" ELSE "ack"
    /\ UNCHANGED <<version, walks, gens, openRows, durable, msgs, cur, locals, history>>

\* run_codemagic_build.apply_async.
Send ==
    /\ pc = "send"
    /\ pc' = "ack"
    /\ UNCHANGED <<database, durable, msgs, cur, locals, history>>

-----------------------------------------------------------------------------
(***************************************************************************)
(* Exceptions and death.                                                   *)
(***************************************************************************)

\* The steps that can raise inside the try of their task: agents, storage,
\* staging, and the broker.
Raising == {"walk", "analyse", "handoff", "chainSend", "hydrate", "generate", "edit",
            "archive", "rearchive", "stage"}

\* Mutant of Fail: the attempt that raised leaves its row open.
FailOpen ==
    /\ \/ pc \in Raising
       \/ pc = "send" /\ Task = "build_frontend"
    /\ Misfortune
    /\ state' = "failed"
    /\ RetryOrDie /\ Forget
    /\ UNCHANGED <<version, walks, gens, openRows, durable, requests, crashes, badPushes, badRenders>>
\* The job is marked FAILED, the row is closed with the error, and the task is
\* retried.
Fail ==
    /\ \/ pc \in Raising
       \/ pc = "send" /\ Task = "build_frontend"
    /\ Misfortune
    /\ state' = "failed"
    /\ openRows' = IF rowOpen THEN openRows - 1 ELSE openRows
    /\ RetryOrDie /\ Forget
    /\ UNCHANGED <<version, walks, gens, durable, requests, crashes, badPushes, badRenders>>

\* rework_frontend and reverify_web send after their try has ended.
SendFails ==
    /\ pc = "send" /\ Task # "build_frontend"
    /\ Misfortune
    /\ RetryOrDie /\ Forget
    /\ UNCHANGED <<database, durable, requests, crashes, badPushes, badRenders>>

\* The worker dies; the message was not acknowledged and stays in the queue.
Crash ==
    /\ pc # "idle"
    /\ crashes < MaxCrashes /\ crashes' = crashes + 1
    /\ Forget
    /\ UNCHANGED <<database, durable, msgs, requests, failures, badPushes, badRenders>>

RunJob   == Walk \/ Analyse \/ Handoff \/ Chain \/ ChainSend
Frontend == Hydrate \/ NoSpec \/ Generate \/ Edit \/ Verify \/ RenderFails \/ Archive
            \/ Commit \/ StageAssets
Delivery == Push \/ RecordPush \/ PushFails \/ Integrate \/ Finish \/ Send
Worker   == Deliver \/ StartStage \/ RunJob \/ Frontend \/ Delivery \/ Fail \/ SendFails \/ Ack

Next == Worker \/ Crash \/ Routes

Spec == Init /\ [][Next]_vars

\* A started worker keeps working and delivers what is queued.
FairSpec == Spec /\ WF_vars(Worker)

-----------------------------------------------------------------------------
(***************************************************************************)
(* Properties.                                                             *)
(***************************************************************************)

\* Nothing is running and nothing is waiting.
Quiet == pc = "idle" /\ \A m \in DOMAIN msgs : msgs[m].status # "queued"

\* A request that edits the app and the number of times its message may be
\* executed again: once per retry and once per death of the worker.
Reworks == {m \in DOMAIN msgs : msgs[m].task = "rework_frontend"}

\* Redelivered, retried and repeated build messages create one built app, and
\* the version of the job counts the rows that exist, although the two are
\* written by three tasks.
OneBuildManyVersions ==
    /\ \A g \in DOMAIN gens : gens[g].by = "build_frontend" <=> g = 1
    /\ version = IF gens = <<>> THEN 1 ELSE Len(gens)

\* No rework is lost: once its message is acknowledged, the stored sources
\* contain it, whatever was rebuilt, retried or reverified since; and it is
\* applied again only by a retry or after a death of the worker.
ReworkKept ==
    \A m \in Reworks :
        /\ msgs[m].status = "acked" => sources.applied[msgs[m].req] >= 1
        /\ sources # NoTree =>
             sources.applied[msgs[m].req] <= 1 + msgs[m].retries + crashes

\* An app that failed the structural gate is never at the head of the
\* repository, unless a verification could not render it.
KnownGapsNotPublished ==
    HardGate /\ badRenders = 0 /\ repo # NoTree => repo.verdict # "gaps"

\* Every timeline row that stays open is the trace of a worker that died.
OpenRowsAreCrashes == pc = "idle" => openRows <= crashes

\* A tree holds the app of another one, with the assets that are staged in that.
Holds(here, there) ==
    /\ here # NoTree /\ there # NoTree
    /\ here.applied = there.applied /\ here.verdict = there.verdict
    /\ there.staged => here.staged

\* A CodeMagic build is only asked for when the repository it will clone holds the
\* stored app: never after a failed push or a gated verification.  The staged assets
\* are in it as well, unless a reverification has pushed an app that was never reworked.
CodemagicBuildsStored ==
    pc = "send" =>
        /\ Holds(repo, sources)
        /\ repo.staged \/ (Task = "reverify_web"
                           /\ \A g \in DOMAIN gens : gens[g].by # "rework_frontend")

\* A job that is done, without deaths, failed pushes and a repeated analysis, has
\* its repository at the stored sources: every version that reaches DONE was
\* pushed, and a version the gate holds back keeps the job from DONE.
DoneMeansPushed ==
    crashes = 0 /\ badPushes = 0 /\ walks = 1 /\ state = "done" /\ gens # <<>> /\ LastGen.repo
        => Holds(repo, sources)

\* When the queue is empty and no worker has died, the job is in a final state,
\* or it was never enqueued, or it is one of the two cases of the README: a
\* CodeMagic build follows, or a repeated analysis found the app built.
QuietJobSettled ==
    Quiet /\ crashes = 0 /\ state \notin Terminal =>
        \/ state = "queued" /\ msgs = <<>>
        \/ state = "codemagic_integration" /\ LastGen.cm
        \/ state = "codegen" /\ gens # <<>>

\* Every message is used up: acknowledged or, after its retries, dead.
QueueDrains == <>[]Quiet

(***************************************************************************)
(* What the documentation says (see the README, Findings).                 *)
(***************************************************************************)

\* "a failed push must not lose the built app", "verification must not lose the
\* frontend": a build message that was acknowledged after building an app does
\* not leave the job FAILED.
BuiltIsNotFailed ==
    \A m \in DOMAIN msgs :
        Quiet /\ msgs[m].task = "build_frontend" /\ msgs[m].status = "acked" /\ Len(gens) = 1
            => state # "failed"
=============================================================================
