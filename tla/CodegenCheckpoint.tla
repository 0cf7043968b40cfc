-------------------------- MODULE CodegenCheckpoint --------------------------
(***************************************************************************)
(* The resumable frontend build of one job: the build_frontend task        *)
(* (worker/run_job.py) driving the task runner (mvp/claude_gen.py,         *)
(* generate_from_tasks), with the three checkpoint objects of              *)
(* mvp/codegen_checkpoint.py in object storage and the message that Celery *)
(* keeps until the task acknowledges.                                      *)
(*                                                                         *)
(* A worker that dies loses its temporary directory, that is, everything   *)
(* but the storage objects, the GenerationResult row and the message.      *)
(*                                                                         *)
(* A task plan comes from a language model, so two runs of decompose give  *)
(* two different plans.  The work of task t done under plan p is the pair  *)
(* <<p, t>>; a workspace is the set of the works it contains.              *)
(***************************************************************************)
EXTENDS Naturals, FiniteSets

CONSTANTS
    N,             \* tasks of a plan, numbered in the order topo_order gives them
    Before,        \* the tasks the runner completes before it finishes task t
    Plans,         \* the plans decompose may produce
    NoPlan,        \* "there is no tasks.json"
    MaxRetries,    \* PipelineTask.max_retries
    MaxFailures,   \* bound: exceptions of the agent, decompose or storage
    MaxCrashes,    \* bound: deaths of the worker process
    MaxTears,      \* bound: saves that stop halfway
    MaxBotched,    \* bound: clears that stop halfway or fail to delete an object
    MaxMisreads,   \* bound: transient read errors that load swallows
    MaxEnqueues    \* bound: new messages after the first one is used up

ASSUME NAssumption == N \in Nat \ {0}
\* A task waits for the layers below its own; a serial task also waits for the
\* tasks in front of it in its layer, a screen of a parallel layer does not.
ASSUME BeforeAssumption ==
    /\ Before \in [1..N -> SUBSET (1..N)]
    /\ \A t \in 1..N : \A u \in Before[t] : u < t
ASSUME PlansAssumption == NoPlan \notin Plans /\ Plans # {}
ASSUME BoundsAssumption ==
    {MaxRetries, MaxFailures, MaxCrashes, MaxTears, MaxBotched, MaxMisreads, MaxEnqueues}
        \subseteq Nat

VARIABLES
    \* object storage, jobs/{id}/codegen_checkpoint/
    hasProgress,   \* progress.json exists
    progress,      \* the completed set it lists
    planObj,       \* the plan in tasks.json
    wsObj,         \* the works in workspace.tar.gz ({}: no such object)
    analysis,      \* what run_job has stored: "none", "walk" (no app_spec.json), "spec"
    \* the database and the broker
    result,        \* the works in the sources of the GenerationResult ({}: no row)
    resultPlan,
    message,       \* the build_frontend message: "queued", "acked", "dead"
    retries,       \* retries already used by this message
    \* memory and temporary directory of the worker
    pc,
    plan,          \* tasks.json in the run directory
    completed,     \* the completed set
    built,         \* the works in claude_ws/flutter_app ({}: no directory)
    turned,        \* history: this attempt has returned for want of an analysis
    \* history: what went wrong so far
    failures, crashes, tears, botched, misreads, enqueues

storage == <<hasProgress, progress, planObj, wsObj>>
row     == <<result, resultPlan>>
inputs  == <<analysis, turned>>
broker  == <<message, retries, enqueues>>
memory  == <<plan, completed, built>>
harm    == <<tears, botched, misreads>>
vars    == <<storage, row, inputs, broker, memory, pc, failures, crashes, harm>>

Tasks == 1..N
Works == Plans \X Tasks
SaveWindow  == {"saveTasks", "saveWorkspace"}
ClearSteps  == {"clearWorkspace", "clearProgress", "clearTasks"}
\* The steps at which the worker holds a plan.
Working == {"saveProgress", "run", "publish"} \cup SaveWindow \cup ClearSteps
Pcs == Working \cup {"idle", "read", "load", "ack"}
Analyses == {"none", "walk", "spec"}

TypeOK ==
    /\ hasProgress \in BOOLEAN
    /\ progress \in SUBSET Tasks
    /\ planObj \in Plans \cup {NoPlan}
    /\ wsObj \in SUBSET Works
    /\ result \in SUBSET Works
    /\ resultPlan \in Plans \cup {NoPlan}
    /\ analysis \in Analyses /\ turned \in BOOLEAN
    /\ message \in {"queued", "acked", "dead"}
    /\ retries \in 0..MaxRetries
    /\ pc \in Pcs
    /\ plan \in Plans \cup {NoPlan}
    /\ pc \in Working => plan \in Plans
    /\ completed \in SUBSET Tasks
    /\ built \in SUBSET Works
    /\ failures \in 0..MaxFailures
    /\ crashes \in 0..MaxCrashes
    /\ tears \in 0..MaxTears
    /\ botched \in 0..MaxBotched
    /\ misreads \in 0..MaxMisreads
    /\ enqueues \in 0..MaxEnqueues

\* The first message comes from run_job when it has stored the analysis, or from
\* build-settings at any time before.
Init ==
    /\ analysis \in Analyses /\ turned = FALSE
    /\ hasProgress = FALSE /\ progress = {} /\ planObj = NoPlan /\ wsObj = {}
    /\ result = {} /\ resultPlan = NoPlan
    /\ message = "queued" /\ retries = 0
    /\ pc = "idle" /\ plan = NoPlan /\ completed = {} /\ built = {}
    /\ failures = 0 /\ crashes = 0 /\ enqueues = 0
    /\ tears = 0 /\ botched = 0 /\ misreads = 0

-----------------------------------------------------------------------------
(***************************************************************************)
(* How an attempt ends without a result.                                   *)
(***************************************************************************)

\* The temporary directory is removed and the task's memory is gone.
LoseMemory == pc' = "idle" /\ plan' = NoPlan /\ completed' = {} /\ built' = {}

\* Mutant of Raise: the retry does not count.
RaiseUncounted == LoseMemory /\ UNCHANGED broker

\* An exception leaves build_frontend: autoretry_for re-queues the message
\* until max_retries is used up, and then the task goes to the dead letters.
Raise ==
    /\ LoseMemory
    /\ \/ /\ retries < MaxRetries
          /\ retries' = retries + 1
          /\ UNCHANGED message
       \/ /\ retries = MaxRetries
          /\ message' = "dead"
          /\ UNCHANGED retries
    /\ UNCHANGED enqueues

-----------------------------------------------------------------------------
(***************************************************************************)
(* Delivery.                                                               *)
(***************************************************************************)

\* Mutant of Deliver: the check for an existing GenerationResult is missing.
DeliverUnchecked ==
    /\ pc = "idle" /\ message = "queued"
    /\ analysis # "none"
    /\ pc' = "read" /\ turned' = FALSE
    /\ UNCHANGED <<storage, row, analysis, broker, memory, failures, crashes, harm>>

\* A worker takes the message, finds a walkthrough and no GenerationResult.
Deliver ==
    /\ pc = "idle" /\ message = "queued"
    /\ analysis # "none" /\ result = {}
    /\ pc' = "read" /\ turned' = FALSE
    /\ UNCHANGED <<storage, row, analysis, broker, memory, failures, crashes, harm>>

\* No walkthrough: the job is marked FAILED and the task returns.
NoWalkthrough ==
    /\ pc = "idle" /\ message = "queued"
    /\ analysis = "none"
    /\ pc' = "ack" /\ turned' = TRUE
    /\ UNCHANGED <<storage, row, analysis, broker, memory, failures, crashes, harm>>

\* The job is already built: the task returns at once.
SkipExisting ==
    /\ pc = "idle" /\ message = "queued"
    /\ analysis # "none" /\ result # {}
    /\ pc' = "ack" /\ turned' = FALSE
    /\ UNCHANGED <<storage, row, analysis, broker, memory, failures, crashes, harm>>

\* The screenshots and app_spec.json are downloaded, the settings injected.
ReadAnalysis ==
    /\ pc = "read" /\ analysis = "spec"
    /\ pc' = "load"
    /\ UNCHANGED <<storage, row, inputs, broker, memory, failures, crashes, harm>>

\* app_spec.json is missing, or storage fails: the job is marked FAILED and the task
\* returns, so that the message is acknowledged and not retried.
NoSpec ==
    /\ pc = "read"
    /\ IF analysis = "spec" THEN failures < MaxFailures /\ failures' = failures + 1
                            ELSE UNCHANGED failures
    /\ pc' = "ack" /\ turned' = TRUE
    /\ UNCHANGED <<storage, row, analysis, broker, memory, crashes, harm>>

\* The task returned; acks_late removes the message.
Ack ==
    /\ pc = "ack"
    /\ message' = "acked"
    /\ LoseMemory
    /\ UNCHANGED <<storage, row, inputs, retries, enqueues, failures, crashes, harm>>

\* run_job or an admin route enqueues the build again; all require that there is no
\* GenerationResult.
Enqueue ==
    /\ message # "queued" /\ result = {}
    /\ enqueues < MaxEnqueues
    /\ enqueues' = enqueues + 1
    /\ message' = "queued" /\ retries' = 0
    /\ UNCHANGED <<storage, row, inputs, memory, pc, failures, crashes, harm>>

\* run_job, on the same worker: the walkthrough is committed, then app_spec.json stored.
AnalysisGoesOn ==
    /\ pc = "idle"
    /\ \/ analysis = "none" /\ analysis' = "walk"
       \/ analysis = "walk" /\ analysis' = "spec"
    /\ UNCHANGED <<storage, row, turned, broker, memory, pc, failures, crashes, harm>>

-----------------------------------------------------------------------------
(***************************************************************************)
(* codegen_checkpoint.load, and decompose when it returns None.            *)
(***************************************************************************)

Begin(p, done, works) ==
    /\ plan' = p /\ completed' = done /\ built' = works
    /\ pc' = "saveProgress"
    /\ UNCHANGED <<storage, row, inputs, broker, failures, crashes>>

\* No progress.json: a fresh plan.
LoadNothing ==
    /\ pc = "load" /\ ~hasProgress
    /\ \E p \in Plans : Begin(p, {}, {})
    /\ UNCHANGED harm

\* progress.json is there but cannot be read: load returns None all the same.
MisreadProgress ==
    /\ pc = "load" /\ hasProgress
    /\ misreads < MaxMisreads /\ misreads' = misreads + 1
    /\ \E p \in Plans : Begin(p, {}, {})
    /\ UNCHANGED <<tears, botched>>

\* Mutant of LoadCheckpoint: the plan is decomposed again instead of restored.
LoadReplanned ==
    /\ pc = "load" /\ hasProgress /\ planObj # NoPlan
    /\ \E p \in Plans : Begin(p, progress, wsObj)
    /\ UNCHANGED harm
\* Mutant of LoadCheckpoint: the completed set is not handed to the runner.
LoadForgetful ==
    /\ pc = "load" /\ hasProgress /\ planObj # NoPlan
    /\ Begin(planObj, {}, wsObj)
    /\ UNCHANGED harm

\* All three objects are read; a missing workspace is only a warning.
LoadCheckpoint ==
    /\ pc = "load" /\ hasProgress /\ planObj # NoPlan
    /\ Begin(planObj, progress, wsObj)
    /\ UNCHANGED harm

\* The workspace cannot be read: the completed set is returned without it.
MisreadWorkspace ==
    /\ pc = "load" /\ hasProgress /\ planObj # NoPlan /\ wsObj # {}
    /\ misreads < MaxMisreads /\ misreads' = misreads + 1
    /\ Begin(planObj, progress, {})
    /\ UNCHANGED <<tears, botched>>

\* progress.json without tasks.json: the read of tasks.json is not guarded.
LoadRaises ==
    /\ pc = "load" /\ hasProgress /\ planObj = NoPlan
    /\ Raise
    /\ UNCHANGED <<storage, row, inputs, failures, crashes, harm>>

-----------------------------------------------------------------------------
(***************************************************************************)
(* codegen_checkpoint.save: three puts, and the first one that fails ends  *)
(* the save without an error.                                              *)
(***************************************************************************)

SaveProgress ==
    /\ pc = "saveProgress"
    /\ hasProgress' = TRUE /\ progress' = completed
    /\ pc' = "saveTasks"
    /\ UNCHANGED <<planObj, wsObj, row, inputs, broker, memory, failures, crashes, harm>>

\* Mutant of SaveTasks: tasks.json is not stored.
SaveNoTasks ==
    /\ pc = "saveTasks"
    /\ pc' = "saveWorkspace"
    /\ UNCHANGED <<storage, row, inputs, broker, memory, failures, crashes, harm>>

SaveTasks ==
    /\ pc = "saveTasks"
    /\ planObj' = plan
    /\ pc' = "saveWorkspace"
    /\ UNCHANGED <<hasProgress, progress, wsObj, row, inputs, broker, memory, failures, crashes, harm>>

\* There is nothing to archive before the first task has created flutter_app.
SaveWorkspace ==
    /\ pc = "saveWorkspace"
    /\ wsObj' = IF built = {} THEN wsObj ELSE built
    /\ pc' = "run"
    /\ UNCHANGED <<hasProgress, progress, planObj, row, inputs, broker, memory, failures, crashes, harm>>

PutFails ==
    /\ pc \in {"saveProgress"} \cup SaveWindow
    /\ pc = "saveWorkspace" => built # {}
    /\ tears < MaxTears /\ tears' = tears + 1
    /\ pc' = "run"
    /\ UNCHANGED <<storage, row, inputs, broker, memory, failures, crashes, botched, misreads>>

-----------------------------------------------------------------------------
(***************************************************************************)
(* generate_from_tasks.                                                    *)
(***************************************************************************)

\* The agent has done task t, or the screen t is merged from its worktree, and
\* the runner calls the checkpoint hook.  A task in the completed set is skipped.
RunTask(t) ==
    /\ pc = "run"
    /\ t \notin completed /\ Before[t] \subseteq completed
    /\ completed' = completed \cup {t}
    /\ built' = built \cup {<<plan, t>>}
    /\ pc' = "saveProgress"
    /\ UNCHANGED <<storage, row, inputs, broker, plan, failures, crashes, harm>>

\* The download, decompose, a task (strict), or what follows the runner raises.
AttemptFails ==
    /\ \/ pc = "read" \/ (pc = "load" /\ ~hasProgress)
       \/ pc = "run" /\ completed # Tasks
       \/ pc = "publish"
    /\ failures < MaxFailures /\ failures' = failures + 1
    /\ Raise
    /\ UNCHANGED <<storage, row, inputs, crashes, harm>>

\* The first task scaffolds pubspec.yaml and lib/main.dart.
HasScaffold == \E p \in Plans : <<p, 1>> \in built

\* Mutant of CheckPasses: the runner does not wait for the last tasks.
CheckTooEarly ==
    /\ pc = "run" /\ built # {}
    /\ pc' = "clearWorkspace"
    /\ UNCHANGED <<storage, row, inputs, broker, memory, failures, crashes, harm>>

\* Every task is done or skipped and the app looks valid.  A later agent may
\* have written the missing scaffold of an incomplete workspace.
CheckPasses ==
    /\ pc = "run" /\ completed = Tasks
    /\ built # {}
    /\ pc' = "clearWorkspace"
    /\ UNCHANGED <<storage, row, inputs, broker, memory, failures, crashes, harm>>

CheckFails ==
    /\ pc = "run" /\ completed = Tasks
    /\ ~HasScaffold
    /\ Raise
    /\ UNCHANGED <<storage, row, inputs, failures, crashes, harm>>

-----------------------------------------------------------------------------
(***************************************************************************)
(* codegen_checkpoint.clear: three deletes in this order, each of which    *)
(* may fail without an error; then the compile gate, the upload of the     *)
(* sources and the commit of the GenerationResult.                         *)
(***************************************************************************)

AfterClear(step) ==
    CASE step = "clearWorkspace" -> "clearProgress"
      [] step = "clearProgress"  -> "clearTasks"
      [] step = "clearTasks"     -> "publish"

DeleteObject ==
    /\ pc \in ClearSteps
    /\ pc' = AfterClear(pc)
    /\ wsObj' = IF pc = "clearWorkspace" THEN {} ELSE wsObj
    /\ hasProgress' = (hasProgress /\ pc # "clearProgress")
    /\ progress' = IF pc = "clearProgress" THEN {} ELSE progress
    /\ planObj' = IF pc = "clearTasks" THEN NoPlan ELSE planObj
    /\ UNCHANGED <<row, inputs, broker, memory, failures, crashes, harm>>

DeleteFails ==
    /\ pc \in ClearSteps
    /\ botched < MaxBotched /\ botched' = botched + 1
    /\ pc' = AfterClear(pc)
    /\ UNCHANGED <<storage, row, inputs, broker, memory, failures, crashes, tears, misreads>>

Publish ==
    /\ pc = "publish"
    /\ result' = built /\ resultPlan' = plan
    /\ pc' = "ack"
    /\ UNCHANGED <<storage, inputs, broker, memory, failures, crashes, harm>>

-----------------------------------------------------------------------------
(***************************************************************************)
(* The worker process dies.  The message is not acknowledged, so the       *)
(* broker delivers it again and no retry is used.  Inside a save or a      *)
(* clear the objects are left as the last call made them.                  *)
(***************************************************************************)
Crash ==
    /\ pc # "idle"
    /\ crashes < MaxCrashes /\ crashes' = crashes + 1
    /\ \/ pc \in SaveWindow /\ tears < MaxTears
       \/ pc = "clearProgress" /\ botched < MaxBotched
       \/ pc \notin SaveWindow \cup {"clearProgress"}
    /\ tears' = IF pc \in SaveWindow THEN tears + 1 ELSE tears
    /\ botched' = IF pc = "clearProgress" THEN botched + 1 ELSE botched
    /\ LoseMemory
    /\ UNCHANGED <<storage, row, inputs, broker, failures, misreads>>

Load  == LoadNothing \/ MisreadProgress \/ LoadCheckpoint \/ MisreadWorkspace \/ LoadRaises
Save  == SaveProgress \/ SaveTasks \/ SaveWorkspace \/ PutFails
Tasked == (\E t \in Tasks : RunTask(t)) \/ CheckPasses \/ CheckFails
Finish == DeleteObject \/ DeleteFails \/ Publish \/ Ack
Start  == Deliver \/ NoWalkthrough \/ SkipExisting \/ ReadAnalysis \/ NoSpec
Worker == Start \/ Load \/ Save \/ Tasked \/ Finish

Next == Worker \/ AttemptFails \/ Crash \/ Enqueue \/ AnalysisGoesOn

Spec == Init /\ [][Next]_vars

\* A started worker keeps working and a queued message is delivered.
FairSpec == Spec /\ WF_vars(Worker)

-----------------------------------------------------------------------------
(***************************************************************************)
(* Properties.                                                             *)
(***************************************************************************)

\* The tasks of the set done whose work is not among the given works.
Missing(done, p, works) == {t \in done : <<p, t>> \notin works}

\* The tasks progress.json calls done whose work is not in the archive.
StoreHoles == IF hasProgress THEN Missing(progress, planObj, wsObj) ELSE {}

\* The tasks whose work is missing from the delivered sources.
ResultHoles == IF result = {} THEN {} ELSE Missing(Tasks, resultPlan, result)

\* Neither a botched clear nor a swallowed read error has happened.
OnlyTears == botched = 0 /\ misreads = 0

\* Outside a running save or clear, every save that stopped halfway costs the
\* checkpoint at most the work of one task: progress.json names no more missing
\* works than there were torn saves, and none when there were none.
CheckpointLossBounded ==
    OnlyTears /\ pc \notin SaveWindow \cup {"clearProgress"}
        => Cardinality(StoreHoles) <= tears

\* The delivered app misses at most one task per torn save.  In particular,
\* however often the worker died between saves, a build without torn saves is
\* delivered with the work of every task.
DeliveryLossBounded == OnlyTears => Cardinality(ResultHoles) <= tears

\* The app is built from one plan: files of an abandoned plan never get into
\* the sources, although decompose gives a new plan every time it runs.
OnePlanDelivered ==
    OnlyTears => \A w \in result : w[1] = resultPlan

\* The inductive invariant behind these three: what the memory of the worker
\* and the storage objects say about each other at each step of an attempt.
StoreAgrees ==
    /\ hasProgress \/ (progress = {} /\ wsObj = {})
    /\ \A w \in wsObj : w[1] = planObj
    /\ pc \in Working /\ plan # planObj => wsObj = {}
    /\ pc = "saveWorkspace" => planObj = plan
    /\ pc \in SaveWindow => hasProgress /\ progress = completed
    /\ pc = "clearProgress" => wsObj = {}
    /\ pc \in {"clearTasks", "publish"} => ~hasProgress
MemoryLossBounded ==
    /\ pc \in Working => /\ \A w \in built : w[1] = plan
                         /\ Cardinality(Missing(completed, plan, built)) <= tears
    /\ pc = "run" => Cardinality(Missing(completed, plan, wsObj)) <= tears
    /\ pc \in {"saveProgress"} \cup SaveWindow
           => Cardinality(Missing(completed, plan, wsObj)) <= tears + 1
    /\ pc \in ClearSteps \cup {"publish"} => completed = Tasks
CheckpointInv ==
    /\ OnlyTears => StoreAgrees /\ MemoryLossBounded
    /\ CheckpointLossBounded /\ DeliveryLossBounded /\ OnePlanDelivered

\* The durable completed set only grows until the runner has finished every
\* task: no retry or redelivery sets it back.
ProgressKept ==
    [][OnlyTears' /\ hasProgress /\ pc \notin ClearSteps
           => hasProgress' /\ progress \subseteq progress']_vars

\* A second delivery, after a crash between the commit and the acknowledgement
\* or of a second message, does not build the app again.
BuiltOnce == [][result # {} => UNCHANGED row]_vars

\* When saves and clears are not interrupted and the agent does not fail more
\* often than the task is retried, every crash is survived: a message leads to the
\* app, unless its attempt found no analysis or could not read app_spec.json, for
\* these return without a retry.
EventuallyBuilt ==
    message = "queued" ~> result # {} \/ (message = "acked" /\ turned)

\* Every message is used up: whatever fails, the build ends acknowledged or in
\* the dead letters and does not retry for ever.
MessageUsedUp == <>[](message # "queued")

-----------------------------------------------------------------------------
(***************************************************************************)
(* The build as the documentation describes it: the tasks whose work a new *)
(* attempt would find are never forgotten before the app is complete, and  *)
(* the delivered app is complete.  It holds when no save or clear is       *)
(* interrupted (MaxTears = MaxBotched = MaxMisreads = 0).                  *)
(***************************************************************************)
Restorable ==
    IF hasProgress THEN {t \in progress : <<planObj, t>> \in wsObj} ELSE {}

Abstract == INSTANCE ResumableBuild
    WITH finished  <- Restorable,
         complete  <- pc \in ClearSteps \cup {"publish"},
         delivered <- {t \in Tasks : <<resultPlan, t>> \in result}

\* Storage, retries and redeliveries implement the resumable build: a task once
\* restorable stays so until the app is complete.
ImplementsResumableBuild == Abstract!Spec
=============================================================================
