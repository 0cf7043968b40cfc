------------------------------ MODULE TaskRunner ------------------------------
(***************************************************************************)
(* generate_from_tasks of mvp/claude_gen.py: a coding agent builds an app  *)
(* task by task in the layers of the task plan.  Several screens of a      *)
(* layer are built at the same time, each in a git worktree, and merged.   *)
(* A run that raises or dies is repeated from the checkpoint of the last   *)
(* finished task (a save is one step here; CodegenCheckpoint opens it up). *)
(*                                                                         *)
(* A tree maps every file to the set of tasks whose edits it contains; a   *)
(* file without edits is not there.  The runner is strict.                 *)
(***************************************************************************)
EXTENDS Naturals, FiniteSets

CONSTANTS
    N,            \* tasks of the plan, numbered in the order of tasks.json
    Plans,        \* [deps : Tasks -> SUBSET Tasks, screens : SUBSET Tasks]
    MaxParallel,  \* settings.codegen_max_parallel
    MaxAttempts,  \* settings.codegen_task_max_attempts
    MaxRetries,   \* PipelineTask.max_retries
    MaxFailures,  \* bound: failures of the agent and of git worktree add
    MaxCrashes    \* bound: deaths of the worker

Tasks == 1..N
ASSUME PlansAssumption ==
    N \in Nat \ {0} /\ Plans \subseteq [deps : [Tasks -> SUBSET Tasks], screens : SUBSET Tasks]
ASSUME BoundsAssumption ==
    /\ {MaxParallel, MaxAttempts} \subseteq Nat \ {0}
    /\ {MaxRetries, MaxFailures, MaxCrashes} \subseteq Nat

\* lib/features/<screen> is the file with the number of the screen's task; the rest
\* of lib/, with pubspec.yaml and main.dart, is one file.
Assets == N + 1
Core   == N + 2
Files  == 1..(N + 2)
Tree   == [Files -> SUBSET Tasks]
Empty  == [f \in Files |-> {}]

VARIABLES
    plan, layers,    \* tasks.json; what topo_layers makes of it
    pc, layer,
    done, app,       \* the completed set; claude_ws/flutter_app
    head, wt,        \* the commit HEAD of its repository; the worktrees
    th,              \* what happens to a task: a worker thread, or the serial loop
    tries,           \* failed attempts of it
    shown,           \* its CodegenTask row
    saved,           \* the checkpoint, [done, app]
    wrote, par,      \* history: the files a task has delivered; the tasks that were merged
    retries, failures, crashes

memory  == <<layers, layer, done, app, head, wt, th, tries>>
history == <<wrote, par>>
harm    == <<retries, failures, crashes>>
vars    == <<plan, pc, memory, shown, saved, history, harm>>

TypeOK ==
    /\ plan \in [deps : [Tasks -> SUBSET Tasks], screens : SUBSET Tasks]
    /\ layers \in [1..N -> SUBSET Tasks] /\ layer \in 1..(N + 1)
    /\ pc \in {"start", "enter", "layer", "pool", "end", "built", "raised", "refused", "dead"}
    /\ done \in SUBSET Tasks /\ app \in Tree /\ head \in Tree /\ wt \in [Tasks -> Tree]
    /\ th \in [Tasks -> {"none", "waiting", "building", "ok", "failed"}]
    /\ tries \in [Tasks -> 0..(MaxAttempts - 1)]
    /\ shown \in [Tasks -> {"none", "running", "failed", "done"}]
    /\ saved \in [done : SUBSET Tasks, app : Tree]
    /\ wrote \in [Tasks -> SUBSET Files] /\ par \in SUBSET Tasks
    /\ retries \in 0..MaxRetries /\ failures \in 0..MaxFailures /\ crashes \in 0..MaxCrashes

Init ==
    /\ plan \in Plans /\ layers = [n \in 1..N |-> {}] /\ layer = 1
    /\ pc = "start"
    /\ done = {} /\ app = Empty /\ head = Empty /\ wt = [t \in Tasks |-> Empty]
    /\ th = [t \in Tasks |-> "none"] /\ tries = [t \in Tasks |-> 0]
    /\ shown = [t \in Tasks |-> "none"]
    /\ saved = [done |-> {}, app |-> Empty]
    /\ wrote = [t \in Tasks |-> {}] /\ par = {}
    /\ retries = 0 /\ failures = 0 /\ crashes = 0

-----------------------------------------------------------------------------
(***************************************************************************)
(* topo_layers.                                                            *)
(***************************************************************************)
Ready(deps, resolved) == {t \in Tasks \ resolved : deps[t] \subseteq resolved}

\* Mutant of TopoLayers: a task that has been put into the layer counts as resolved
\* for the tasks after it.
TopoLayersEager(deps) ==
    LET eager[t \in 0..N, R \in SUBSET Tasks] ==
            IF t = 0 THEN R
            ELSE LET S == eager[t - 1, R] IN IF deps[t] \subseteq S THEN S \cup {t} ELSE S
        resolved[n \in 0..N] == IF n = 0 THEN {} ELSE eager[N, resolved[n - 1]]
    IN  [n \in 1..N |-> resolved[n] \ resolved[n - 1]]
\* Layer n has the tasks whose dependencies are all in the layers below; behind the
\* last layer, or the last one before a cycle, all are empty.
TopoLayers(deps) ==
    LET resolved[n \in 0..N] ==
            IF n = 0 THEN {} ELSE resolved[n - 1] \cup Ready(deps, resolved[n - 1])
    IN  [n \in 1..N |-> Ready(deps, resolved[n - 1])]

Planned(ls) == UNION {ls[n] : n \in 1..N}
Layer   == layers[layer]

\* The first task of a set in the order of tasks.json.
IsLeast(t, S) == t \in S /\ \A u \in S : t <= u

-----------------------------------------------------------------------------
(***************************************************************************)
(* A run, from the checkpoint to the app or to an exception.               *)
(***************************************************************************)

\* One of the failures a run may have.
Misfortune == failures < MaxFailures /\ failures' = failures + 1

\* topo_layers raises on a cycle; decompose has called it too, so that such a plan is
\* not kept, and the next attempt has another.  Otherwise _on_plan deletes the rows of
\* the last run.
Start ==
    /\ pc = "start"
    /\ layers' = TopoLayers(plan.deps)
    /\ IF Planned(layers') = Tasks
       THEN pc' = "enter" /\ layer' = 1 /\ shown' = [t \in Tasks |-> "none"]
       ELSE pc' = "refused" /\ UNCHANGED <<layer, shown>>
    /\ UNCHANGED <<plan, done, app, head, wt, th, tries, saved, history, harm>>

\* The finished tasks of the layer are reported, the others are pending.
EnterLayer ==
    /\ pc = "enter"
    /\ IF layer <= N
       THEN pc' = "layer" /\ shown' = [t \in Tasks |-> IF t \in Layer \cap done THEN "done"
                                                                             ELSE shown[t]]
       ELSE pc' = "end" /\ UNCHANGED shown
    /\ UNCHANGED <<plan, memory, saved, history, harm>>

Pending  == Layer \ done
Screens  == Pending \cap plan.screens
Parallel == MaxParallel > 1 /\ Cardinality(Screens) > 1

\* Mutant of Serial: the layer is worked off in the order of tasks.json.
SerialInOrder == IF Parallel /\ \E t \in Screens : IsLeast(t, Pending) THEN {} ELSE Pending
\* What is built in flutter_app itself, one after the other: the tasks that are not
\* screens, then the screens if they are not built in parallel.
Serial ==
    IF Pending \ Screens # {} THEN Pending \ Screens ELSE IF Parallel THEN {} ELSE Screens

\* _run_serial calls the agent.
StartSerial ==
    /\ pc = "layer" /\ \A t \in Tasks : th[t] = "none"
    /\ \E t \in Serial :
          /\ IsLeast(t, Serial)
          /\ th' = [th EXCEPT ![t] = "building"]
          /\ shown' = [shown EXCEPT ![t] = "running"]
    /\ UNCHANGED <<plan, pc, layers, layer, done, app, head, wt, tries, saved, history, harm>>

\* _run_screen_layer commits what is there and submits the screens; without
\* flutter_app there is no directory to run git in.
StartPool ==
    /\ pc = "layer" /\ Pending # {} /\ Serial = {}
    /\ IF app = Empty
       THEN pc' = "raised" /\ UNCHANGED <<head, th>>
       ELSE /\ pc' = "pool" /\ head' = app
            /\ th' = [t \in Tasks |-> IF t \in Screens THEN "waiting" ELSE "none"]
    /\ UNCHANGED <<plan, layers, layer, done, app, wt, tries, shown, saved, history, harm>>

NextLayer ==
    /\ pc = "layer" /\ Pending = {}
    /\ pc' = "enter" /\ layer' = layer + 1
    /\ UNCHANGED <<plan, layers, done, app, head, wt, th, tries, shown, saved, history, harm>>

\* The tasks that are in some stage of being built.
In(stage) == {t \in Tasks : th[t] = stage}

\* A thread of the pool takes the next screen: git worktree add, then the agent.
AddWorktree ==
    /\ pc = "pool" /\ Cardinality(In("building")) < MaxParallel
    /\ \E t \in In("waiting") :
          /\ IsLeast(t, In("waiting"))
          /\ \/ /\ wt' = [wt EXCEPT ![t] = head]
                /\ th' = [th EXCEPT ![t] = "building"]
                /\ shown' = [shown EXCEPT ![t] = "running"]
                /\ UNCHANGED failures
             \/ /\ Misfortune
                /\ th' = [th EXCEPT ![t] = "failed"]
                /\ UNCHANGED <<wt, shown>>
    /\ UNCHANGED <<plan, pc, layers, layer, done, app, head, tries, saved, history, retries,
                   crashes>>

-----------------------------------------------------------------------------
(***************************************************************************)
(* The agent.                                                              *)
(***************************************************************************)

\* An agent may write nothing at all, its own files, or others too; the scaffold
\* writes a stub for every screen.
Edits(t) ==
    {{}} \cup IF t \in plan.screens THEN {{t}, {t, Assets, Core}} ELSE {{Assets, Core}, Files}
Edited(tree, t, F) == [f \in Files |-> IF f \in F THEN tree[f] \cup {t} ELSE tree[f]]
Touched(tree, t)   == {f \in Files : t \in tree[f]}

\* on_task_done saves the checkpoint.
Complete(t) == done' = done \cup {t} /\ saved' = [done |-> done', app |-> app']

\* An attempt in flutter_app has succeeded; the first task has to make a project.
SerialDone(t) ==
    /\ pc = "layer" /\ th[t] = "building"
    /\ \E F \in Edits(t) : app' = Edited(app, t, F)
    /\ IsLeast(t, layers[1]) => app'[Core] # {}
    /\ Complete(t)
    /\ wrote' = [wrote EXCEPT ![t] = Touched(app', t)]
    /\ th' = [th EXCEPT ![t] = "none"] /\ tries' = [tries EXCEPT ![t] = 0]
    /\ shown' = [shown EXCEPT ![t] = "done"]
    /\ UNCHANGED <<plan, pc, layers, layer, head, wt, par, harm>>

\* An attempt in a worktree has succeeded, and is committed to its branch.
ScreenDone(t) ==
    /\ pc = "pool" /\ th[t] = "building"
    /\ \E F \in Edits(t) : wt' = [wt EXCEPT ![t] = Edited(@, t, F)]
    /\ th' = [th EXCEPT ![t] = "ok"] /\ tries' = [tries EXCEPT ![t] = 0]
    /\ shown' = [shown EXCEPT ![t] = "done"]
    /\ UNCHANGED <<plan, pc, layers, layer, done, app, head, saved, history, harm>>

\* What is left when task t has failed for good: the serial loop raises at once, the
\* pool goes on with the other screens.
GiveUp(t) ==
    /\ th' = [th EXCEPT ![t] = "failed"] /\ tries' = [tries EXCEPT ![t] = 0]
    /\ pc' = IF pc = "pool" THEN "pool" ELSE "raised"

\* An attempt has failed, whatever it has written is left; there may be another.
AttemptFails(t) ==
    /\ th[t] = "building" /\ Misfortune
    /\ \E F \in Edits(t) :
          IF pc = "pool" THEN wt' = [wt EXCEPT ![t] = Edited(@, t, F)] /\ UNCHANGED app
                         ELSE app' = Edited(app, t, F) /\ UNCHANGED wt
    /\ IF tries[t] + 1 < MaxAttempts
       THEN tries' = [tries EXCEPT ![t] = @ + 1] /\ UNCHANGED <<pc, th, shown>>
       ELSE GiveUp(t) /\ shown' = [shown EXCEPT ![t] = "failed"]
    /\ UNCHANGED <<plan, layers, layer, done, head, saved, history, retries, crashes>>

\* subprocess.run raises TimeoutExpired, which is no failed attempt: the task is
\* given up at once, and its row is left as it is.
TimesOut(t) ==
    /\ th[t] = "building" /\ Misfortune
    /\ GiveUp(t)
    /\ UNCHANGED <<plan, layers, layer, done, app, head, wt, shown, saved, history, retries,
                   crashes>>

-----------------------------------------------------------------------------
(***************************************************************************)
(* The end of a layer of screens, of a run, of the worker.                 *)
(***************************************************************************)
Owned(t) == {t, Assets}

PoolDone == pc = "pool" /\ In("waiting") = {} /\ In("building") = {}

\* Mutant of Merged: the branch is merged as a whole.
MergedWhole(t) == [f \in Files |-> IF wt[t][f] # {} THEN wt[t][f] ELSE app[f]]
\* git checkout <branch> -- <path> for the owned paths: a file of the branch replaces
\* the app's, a file the branch does not have is left alone.
Merged(t) == [f \in Files |-> IF f \in Owned(t) /\ wt[t][f] # {} THEN wt[t][f] ELSE app[f]]

\* The screens that succeeded are merged in the order of the plan.
Merge ==
    /\ PoolDone
    /\ \E t \in In("ok") :
          /\ IsLeast(t, In("ok"))
          /\ app' = Merged(t) /\ head' = app'
          /\ Complete(t)
          /\ wrote' = [wrote EXCEPT ![t] = Touched(wt[t], t) \cap Owned(t)]
          /\ par' = par \cup {t}
          /\ th' = [th EXCEPT ![t] = "none"]
          /\ wt' = [wt EXCEPT ![t] = Empty]
    /\ UNCHANGED <<plan, pc, layers, layer, tries, shown, harm>>

\* Mutant of EndPool: a failed screen raises before the others are merged.
EndPoolFirst ==
    /\ PoolDone /\ (In("failed") # {} \/ In("ok") = {})
    /\ IF In("failed") # {} THEN pc' = "raised" /\ UNCHANGED layer
                            ELSE pc' = "enter" /\ layer' = layer + 1
    /\ UNCHANGED <<plan, layers, done, app, head, wt, th, tries, shown, saved, history, harm>>
\* _cleanup_worktrees; a failed screen raises, now that the others are merged.
EndPool ==
    /\ PoolDone /\ In("ok") = {}
    /\ IF In("failed") # {} THEN pc' = "raised" /\ UNCHANGED layer
                            ELSE pc' = "enter" /\ layer' = layer + 1
    /\ UNCHANGED <<plan, layers, done, app, head, wt, th, tries, shown, saved, history, harm>>

\* flutter_app is handed over if it is a project.
Finish ==
    /\ pc = "end"
    /\ pc' = IF app[Core] # {} THEN "built" ELSE "raised"
    /\ UNCHANGED <<plan, memory, shown, saved, history, harm>>

\* Mutant of Reload: the completed set without the workspace.
ReloadSetOnly ==
    /\ done' = saved.done /\ app' = Empty
    /\ layers' = [n \in 1..N |-> {}] /\ layer' = 1
    /\ head' = Empty /\ wt' = [t \in Tasks |-> Empty]
    /\ th' = [t \in Tasks |-> "none"] /\ tries' = [t \in Tasks |-> 0]
\* The next attempt of build_frontend, in a new directory: load.
Reload ==
    /\ done' = saved.done /\ app' = saved.app
    /\ layers' = [n \in 1..N |-> {}] /\ layer' = 1
    /\ head' = Empty /\ wt' = [t \in Tasks |-> Empty]
    /\ th' = [t \in Tasks |-> "none"] /\ tries' = [t \in Tasks |-> 0]

\* Mutant of Retry: no limit.
RetryForever ==
    /\ pc = "raised"
    /\ pc' = "start" /\ Reload /\ UNCHANGED retries
    /\ UNCHANGED <<plan, shown, saved, history, failures, crashes>>
\* The message is retried, or dead.
Retry ==
    /\ pc = "raised"
    /\ IF retries < MaxRetries
       THEN pc' = "start" /\ Reload /\ retries' = retries + 1
       ELSE pc' = "dead" /\ UNCHANGED <<memory, retries>>
    /\ UNCHANGED <<plan, shown, saved, history, failures, crashes>>

Crash ==
    /\ pc \notin {"built", "raised", "refused", "dead"}
    /\ crashes < MaxCrashes /\ crashes' = crashes + 1
    /\ pc' = "start" /\ Reload
    /\ UNCHANGED <<plan, shown, saved, history, retries, failures>>

Agent(t) == SerialDone(t) \/ ScreenDone(t) \/ AttemptFails(t) \/ TimesOut(t)

Runner ==
    \/ Start \/ EnterLayer \/ StartSerial \/ StartPool \/ NextLayer \/ AddWorktree
    \/ \E t \in Tasks : Agent(t)
    \/ Merge \/ EndPool \/ Finish \/ Retry

Next == Runner \/ Crash

Spec == Init /\ [][Next]_vars

\* The worker goes on, and an agent ends: it runs under a timeout.
FairSpec == Spec /\ WF_vars(Runner)

-----------------------------------------------------------------------------
(***************************************************************************)
(* Properties.                                                             *)
(***************************************************************************)

\* topo_layers finds a cycle exactly if some tasks all wait for one another, and
\* puts every other task one layer above the highest of its dependencies.
LayersRight ==
    LET cyclic == \E S \in (SUBSET Tasks) \ {{}} : \A t \in S : plan.deps[t] \cap S # {}
    IN  /\ pc = "refused" => cyclic
        /\ cyclic => pc \in {"start", "refused"}
        /\ \A n \in 1..N : \A t \in layers[n] :
              /\ \A m \in 1..N : t \in layers[m] => m = n
              /\ \A d \in plan.deps[t] : \E m \in 1..(n - 1) : d \in layers[m]
              /\ n = 1 \/ plan.deps[t] \cap layers[n - 1] # {}

SameLayer(t, u) == \E n \in 1..N : {t, u} \subseteq TopoLayers(plan.deps)[n]

\* The one way to lose an edit: assets belong to every screen, and a screen of the
\* same layer that is merged later brings its own copy of them.
Overwritten(t, f) ==
    f = Assets /\ t \in par /\ \E u \in par : u > t /\ SameLayer(t, u)

Holds(tree, t) == \A f \in wrote[t] : t \in tree[f] \/ Overwritten(t, f)

\* An agent starts on a tree that holds the work of all tasks its task depends on,
\* in flutter_app and in a worktree, also after a restart from the checkpoint.
DepsBuilt ==
    \A t \in In("building") :
        \A d \in plan.deps[t] :
            d \in done /\ Holds(IF pc = "pool" THEN wt[t] ELSE app, d)

\* The app holds what every finished task has delivered, whichever threads, merges,
\* failures and restarts came after; so does the checkpoint.  What a screen writes outside
\* its own paths in a worktree never reaches the app.
EditsKept ==
    /\ \A t \in done : Holds(app, t)
    /\ \A t \in saved.done : Holds(saved.app, t)
    /\ \A t \in par : Touched(saved.app, t) \subseteq Owned(t)

\* A task that the admin's panel shows as done is in the checkpoint when the run has
\* ended, even if others failed beside it: no finished agent's work is paid for twice.
DoneIsSaved ==
    /\ pc \in {"raised", "dead"} => \A t \in Tasks : shown[t] = "done" => t \in saved.done
    /\ pc = "built" => saved.done = Tasks /\ \A t \in Tasks : shown[t] = "done"

\* A step that finishes task t finishes nothing else.
OrderedStep ==
    \A t \in saved'.done \ saved.done :
        /\ saved'.done = saved.done \cup {t}
        /\ \A m \in 1..(layer - 1) : layers[m] \subseteq saved.done
        /\ \A u \in Layer \ plan.screens : (t \in plan.screens \/ u < t) => u \in saved.done

\* The checkpoint grows task by task; a task comes after the layers below its own and
\* after the tasks of its layer that are no screens and, unless it is a screen, come
\* before it.  CodegenCheckpoint relies on this order (Before).
DoneInOrder == [][OrderedStep]_vars

\* Every run ends, and so does the sequence of runs.
RunEnds == <>(pc \in {"built", "refused", "dead"})
===============================================================================
