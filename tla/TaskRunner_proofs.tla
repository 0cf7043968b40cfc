--------------------------- MODULE TaskRunner_proofs ---------------------------
(***************************************************************************)
(* For every plan, any number of threads, attempts, failures and restarts: *)
(* the checkpoint grows in the order CodegenCheckpoint relies on; what the *)
(* panel shows as done when a run has ended is in the checkpoint; each     *)
(* graph without a cycle gets its layers; the trees hold the work of the   *)
(* finished tasks.                                                         *)
(***************************************************************************)
EXTENDS TaskRunner, FiniteSetTheorems, WellFoundedInduction, TLAPS

Stages == {"none", "waiting", "building", "ok", "failed"}

Types ==
    /\ pc \in {"start", "enter", "layer", "pool", "end", "built", "raised", "refused", "dead"}
    /\ layers \in [1..N -> SUBSET Tasks] /\ layer \in 1..(N + 1)
    /\ done \in SUBSET Tasks
    /\ th \in [Tasks -> Stages]
    /\ shown \in [Tasks -> {"none", "running", "failed", "done"}]

\* Every addition to the completed set is saved in the same step.
SavedIsDone == saved.done = done

\* Which stages the tasks are in, by the place of the runner.
Threads ==
    /\ pc \in {"start", "enter", "end", "built", "refused"} => \A t \in Tasks : th[t] = "none"
    /\ pc \in {"raised", "dead"} => \A t \in Tasks : th[t] \in {"none", "failed"}
    /\ pc = "layer" => \A t \in Tasks :
          /\ th[t] \in {"none", "building"}
          /\ th[t] = "building" => IsLeast(t, Serial)
    /\ pc = "pool" =>
          /\ Pending \subseteq plan.screens
          /\ \A t \in Tasks : /\ th[t] # "none" <=> t \in Pending
                              /\ th[t] = "ok" => shown[t] = "done"

\* A row that says done belongs to a finished task, or to a screen that waits for its
\* merge; before the first row is written, it may be left from the run before.
Rows ==
    /\ pc # "start" => \A t \in Tasks : shown[t] = "done" => t \in done \/ th[t] = "ok"
    /\ Planned(TopoLayers(plan.deps)) # Tasks =>
          pc \in {"start", "refused"} /\ \A t \in Tasks : shown[t] = "none"

\* The layers below are finished.
Below ==
    /\ pc \in {"enter", "layer", "pool", "end", "built"} =>
          /\ Planned(layers) = Tasks
          /\ \A m \in 1..(layer - 1) : \A t \in layers[m] : t \in done /\ shown[t] = "done"
    /\ pc \in {"layer", "pool"} =>
          layer <= N /\ \A t \in Layer \cap done : shown[t] = "done"
    /\ pc \in {"end", "built"} => layer = N + 1

RunInv == Types /\ SavedIsDone /\ Threads /\ Rows /\ Below

LEMMA RunInvInit == Init => RunInv
<1> SUFFICES ASSUME Init PROVE RunInv
  OBVIOUS
<1>1. Types
  BY PlansAssumption DEF PlansAssumption, Init, Types, Stages
<1>2. SavedIsDone /\ Threads /\ Rows /\ Below
  BY DEF Init, SavedIsDone, Threads, Rows, Below
<1>. QED
  BY <1>1, <1>2 DEF RunInv

\* What the steps of a layer have in common: the layer is one of the plan's.
LEMMA LayerTyped ==
    ASSUME Types, layer <= N
    PROVE  Layer \subseteq Tasks /\ Pending \subseteq Layer /\ Screens \subseteq Pending
           /\ Serial \subseteq Pending
<1>1. layer \in 1..N
  BY PlansAssumption DEF PlansAssumption, Types
<1>. QED
  BY <1>1 DEF Types, Layer, Pending, Screens, Serial

\* If nothing is left for the serial loop, what is pending are screens.
LEMMA OnlyScreens ==
    ASSUME Serial = {}
    PROVE  Pending \subseteq plan.screens /\ Screens = Pending
  BY DEF Serial, Screens

\* The steps that end or restart a run.
LEMMA RestartStep ==
    ASSUME RunInv, Start \/ Retry \/ Crash
    PROVE  RunInv'
<1> USE DEF RunInv
<1>1. CASE Start
  <2>1. layers' = TopoLayers(plan.deps) /\ layers' \in [1..N -> SUBSET Tasks]
    BY <1>1 DEF Start, TopoLayers, Ready
  <2>2. /\ pc = "start" /\ UNCHANGED <<plan, done, th, saved>>
        /\ \/ /\ Planned(layers') = Tasks
              /\ pc' = "enter" /\ layer' = 1 /\ shown' = [t \in Tasks |-> "none"]
           \/ /\ Planned(layers') # Tasks /\ pc' = "refused" /\ UNCHANGED <<layer, shown>>
    BY <1>1 DEF Start
  <2>3. Types'
    BY <2>1, <2>2, PlansAssumption DEF PlansAssumption, Types
  <2>4. SavedIsDone' /\ Threads'
    BY <2>2 DEF SavedIsDone, Threads
  <2>5. Rows'
    BY <2>1, <2>2 DEF Rows
  <2>6. Below'
    BY <2>2 DEF Below
  <2>. QED
    BY <2>3, <2>4, <2>5, <2>6
<1>2. CASE Retry /\ pc' = "dead"
  <2>1. pc = "raised" /\ UNCHANGED <<plan, layers, layer, done, th, shown, saved>>
    BY <1>2 DEF Retry, memory
  <2>. QED
    BY <1>2, <2>1 DEF Types, SavedIsDone, Threads, Rows, Below
<1>3. CASE Reload /\ pc' = "start" /\ UNCHANGED <<plan, shown, saved>>
           /\ pc \notin {"built", "dead"}
  <2>1. /\ done' = saved.done /\ layers' = [n \in 1..N |-> {}] /\ layer' = 1
        /\ th' = [t \in Tasks |-> "none"]
    BY <1>3 DEF Reload
  <2>2. Types'
    BY <1>3, <2>1, PlansAssumption DEF PlansAssumption, Types, SavedIsDone, Stages
  <2>. QED
    BY <1>3, <2>1, <2>2 DEF SavedIsDone, Threads, Rows, Below
<1>. QED
  BY <1>1, <1>2, <1>3 DEF Retry, Crash

\* The steps between two layers, and the end.
LEMMA BetweenLayers ==
    ASSUME RunInv, EnterLayer \/ NextLayer \/ EndPool \/ Finish
    PROVE  RunInv'
<1> USE DEF RunInv
<1>0. N \in Nat /\ layer \in 1..(N + 1)
  BY PlansAssumption DEF PlansAssumption, Types
<1>1. CASE EnterLayer
  <2>1. /\ pc = "enter" /\ UNCHANGED <<plan, layers, layer, done, th, saved>>
        /\ \/ /\ layer <= N /\ pc' = "layer"
              /\ shown' = [t \in Tasks |-> IF t \in Layer \cap done THEN "done" ELSE shown[t]]
           \/ ~(layer <= N) /\ pc' = "end" /\ UNCHANGED shown
    BY <1>1 DEF EnterLayer, memory
  <2>2. Types'
    BY <2>1 DEF Types
  <2>3. SavedIsDone' /\ Threads' /\ Rows'
    BY <2>1 DEF Types, SavedIsDone, Threads, Rows
  <2>4. Below'
    <3>1. layer = N + 1 \/ layer <= N
      BY <1>0
    <3>2. Layer' = Layer /\ (layer <= N => Layer \subseteq Tasks)
      BY <2>1, LayerTyped DEF Layer
    <3>3. \A m \in 1..(layer - 1) : \A t \in layers[m] : t \in done /\ shown[t] = "done"
      BY <2>1 DEF Below
    <3>4. \A m \in 1..(layer - 1) : layers[m] \subseteq Tasks
      BY <1>0 DEF Types
    <3>5. \A t \in Tasks : shown[t] = "done" => shown'[t] = "done"
      BY <2>1
    <3>6. layer <= N => \A t \in Layer \cap done : shown'[t] = "done"
      BY <2>1, <3>2
    <3>. QED
      BY <2>1, <3>1, <3>2, <3>3, <3>4, <3>5, <3>6 DEF Below
  <2>. QED
    BY <2>2, <2>3, <2>4
<1>2. CASE pc' = "enter" /\ layer' = layer + 1 /\ pc \in {"layer", "pool"} /\ Pending = {}
           /\ (\A t \in Tasks : th[t] = "none") /\ UNCHANGED <<plan, layers, done, th, shown, saved>>
  <2>1. layer <= N /\ \A t \in Layer : t \in done /\ shown[t] = "done"
    BY <1>2 DEF Below, Pending
  <2>2. Types'
    BY <1>0, <1>2, <2>1 DEF Types
  <2>3. SavedIsDone' /\ Threads' /\ Rows'
    BY <1>2 DEF SavedIsDone, Threads, Rows
  <2>4. \A m \in 1..layer : m \in 1..(layer - 1) \/ m = layer
    BY <1>0
  <2>5. \A m \in 1..layer : \A t \in layers[m] : t \in done /\ shown[t] = "done"
    BY <1>2, <2>1, <2>4 DEF Below, Layer
  <2>6. layer' - 1 = layer
    BY <1>0, <1>2
  <2>7. Below'
    BY <1>2, <2>5, <2>6 DEF Below
  <2>. QED
    BY <2>2, <2>3, <2>7
<1>3. CASE NextLayer
  <2>1. \A t \in Tasks : th[t] = "none"
    BY <1>3 DEF NextLayer, Threads, Serial, Screens, IsLeast
  <2>. QED
    BY <1>2, <1>3, <2>1 DEF NextLayer
<1>4. CASE EndPool /\ In("failed") = {}
  <2>1. \A t \in Tasks : th[t] = "none"
    BY <1>4 DEF EndPool, PoolDone, In, Types, Stages
  <2>2. layer <= N /\ Pending \subseteq Tasks
    BY <1>4, LayerTyped DEF EndPool, PoolDone, Below
  <2>3. Pending = {}
    BY <1>4, <2>1, <2>2 DEF EndPool, PoolDone, Threads
  <2>. QED
    BY <1>2, <1>4, <2>1, <2>3 DEF EndPool, PoolDone
<1>5. CASE EndPool /\ In("failed") # {}
  <2>1. /\ pc = "pool" /\ pc' = "raised" /\ UNCHANGED <<plan, layers, layer, done, th, shown, saved>>
        /\ \A t \in Tasks : th[t] \in {"none", "failed"}
    BY <1>5 DEF EndPool, PoolDone, In, Types, Stages
  <2>. QED
    BY <2>1 DEF Types, SavedIsDone, Threads, Rows, Below
<1>6. CASE Finish
  <2>1. /\ pc = "end" /\ pc' \in {"built", "raised"}
        /\ UNCHANGED <<plan, layers, layer, done, th, shown, saved>>
    BY <1>6 DEF Finish, memory
  <2>. QED
    BY <2>1 DEF Types, SavedIsDone, Threads, Rows, Below
<1>. QED
  BY <1>1, <1>3, <1>4, <1>5, <1>6

\* A step that changes the stage and the row of one pending task, finishes none and
\* stays where it is keeps what is said of the layers below.
LEMMA OneTask ==
    ASSUME RunInv, NEW t \in Pending, pc \in {"layer", "pool"}, pc' = pc,
           UNCHANGED <<plan, layers, layer, done, saved>>,
           NEW s \in Stages, th' = [th EXCEPT ![t] = s],
           NEW r \in {"none", "running", "failed", "done"}, shown' = [shown EXCEPT ![t] = r]
    PROVE  Types' /\ SavedIsDone' /\ Below'
<1> USE DEF RunInv
<1>1. layer <= N
  BY DEF Below
<1>2. t \in Tasks /\ t \notin done
  BY <1>1, LayerTyped DEF Pending
<1>3. Types' /\ SavedIsDone'
  BY <1>2 DEF Types, SavedIsDone
<1>4. \A u \in done : shown'[u] = shown[u]
  BY <1>2 DEF Types
<1>5. Layer' = Layer
  BY DEF Layer
<1>6. Below'
  BY <1>1, <1>4, <1>5 DEF Below
<1>. QED
  BY <1>3, <1>6

\* The serial loop and the pool start a task or hand it to the pool.
LEMMA StartStep ==
    ASSUME RunInv, StartSerial \/ StartPool \/ AddWorktree
    PROVE  RunInv'
<1> USE DEF RunInv
<1>0. pc \in {"layer", "pool"} /\ layer <= N /\ Pending \subseteq Tasks /\ Serial \subseteq Pending
  BY LayerTyped DEF StartSerial, StartPool, AddWorktree, Below
<1>1. CASE StartSerial
  <2>1. PICK t \in Serial : /\ IsLeast(t, Serial)
                            /\ th' = [th EXCEPT ![t] = "building"]
                            /\ shown' = [shown EXCEPT ![t] = "running"]
    BY <1>1 DEF StartSerial
  <2>2. /\ pc = "layer" /\ pc' = pc /\ UNCHANGED <<plan, layers, layer, done, saved>>
        /\ \A u \in Tasks : th[u] = "none"
    BY <1>1 DEF StartSerial
  <2>3. Types' /\ SavedIsDone' /\ Below'
    BY <1>0, <2>1, <2>2, OneTask DEF Stages
  <2>4. Serial' = Serial
    BY <2>2 DEF Serial, Pending, Screens, Parallel, Layer
  <2>5. Threads'
    BY <1>0, <2>1, <2>2, <2>4 DEF Threads, IsLeast, Types
  <2>6. Rows'
    BY <1>0, <2>1, <2>2 DEF Rows, Types
  <2>. QED
    BY <2>3, <2>5, <2>6
<1>2. CASE StartPool /\ pc' = "raised"
  <2>1. pc = "layer" /\ UNCHANGED <<plan, layers, layer, done, th, shown, saved>>
    BY <1>2 DEF StartPool
  <2>2. \A t \in Tasks : th[t] = "none"
    BY <1>2, <2>1 DEF StartPool, Threads, IsLeast
  <2>. QED
    BY <1>2, <2>1, <2>2 DEF Types, SavedIsDone, Threads, Rows, Below
<1>3. CASE StartPool /\ pc' = "pool"
  <2>1. /\ pc = "layer" /\ UNCHANGED <<plan, layers, layer, done, shown, saved>> /\ Serial = {}
        /\ th' = [t \in Tasks |-> IF t \in Screens THEN "waiting" ELSE "none"]
    BY <1>3 DEF StartPool
  <2>2. Screens = Pending /\ Pending \subseteq plan.screens
    BY <2>1, OnlyScreens
  <2>3. Pending' = Pending /\ Layer' = Layer
    BY <2>1 DEF Pending, Layer
  <2>4. Types' /\ SavedIsDone'
    BY <1>3, <2>1 DEF Types, Stages, SavedIsDone
  <2>5. Threads'
    BY <1>0, <1>3, <2>1, <2>2, <2>3 DEF Threads
  <2>6. Rows'
    BY <1>3, <2>1 DEF Rows, Threads
  <2>7. Below'
    BY <1>3, <2>1, <2>3 DEF Below
  <2>. QED
    BY <2>4, <2>5, <2>6, <2>7
<1>4. CASE AddWorktree
  <2>1. PICK t \in In("waiting") :
           \/ th' = [th EXCEPT ![t] = "building"] /\ shown' = [shown EXCEPT ![t] = "running"]
           \/ th' = [th EXCEPT ![t] = "failed"] /\ UNCHANGED shown
    BY <1>4 DEF AddWorktree
  <2>2. pc = "pool" /\ pc' = pc /\ UNCHANGED <<plan, layers, layer, done, saved>>
    BY <1>4 DEF AddWorktree
  <2>3. t \in Tasks /\ t \in Pending /\ th[t] = "waiting"
    BY <2>2 DEF In, Threads
  <2>4. PICK s \in {"building", "failed"}, r \in {"none", "running", "failed", "done"} :
           /\ th' = [th EXCEPT ![t] = s] /\ shown' = [shown EXCEPT ![t] = r]
           /\ r = "running" \/ r = shown[t]
    <3>1. shown = [shown EXCEPT ![t] = shown[t]] /\ shown[t] \in {"none", "running", "failed", "done"}
      BY <2>3 DEF Types
    <3>. QED
      BY <2>1, <3>1
  <2>5. Types' /\ SavedIsDone' /\ Below'
    BY <2>2, <2>3, <2>4, OneTask DEF Stages
  <2>6. Pending' = Pending
    BY <2>2 DEF Pending, Layer
  <2>7. Threads'
    BY <2>2, <2>3, <2>4, <2>6 DEF Threads, Types
  <2>8. Rows'
    BY <2>2, <2>3, <2>4 DEF Rows, Types
  <2>. QED
    BY <2>5, <2>7, <2>8
<1>. QED
  BY <1>1, <1>2, <1>3, <1>4 DEF StartPool

\* A task is finished: its row says so, and it is in the completed set and the
\* checkpoint.  The layers below lose nothing by it.
LEMMA OneFinished ==
    ASSUME RunInv, NEW t \in Pending, pc \in {"layer", "pool"}, pc' = pc,
           UNCHANGED <<plan, layers, layer>>, Complete(t),
           th' = [th EXCEPT ![t] = "none"],
           shown'[t] = "done", \A u \in Tasks : u # t => shown'[u] = shown[u],
           shown' \in [Tasks -> {"none", "running", "failed", "done"}]
    PROVE  Types' /\ SavedIsDone' /\ Rows' /\ Below'
<1> USE DEF RunInv
<1>1. layer <= N
  BY DEF Below
<1>2. t \in Tasks /\ Layer' = Layer /\ Layer \subseteq Tasks
  BY <1>1, LayerTyped DEF Layer
<1>3. done' = done \cup {t} /\ saved' = [done |-> done', app |-> app']
  BY DEF Complete
<1>4. Types' /\ SavedIsDone'
  BY <1>2, <1>3 DEF Types, Stages, SavedIsDone
<1>5. Rows'
  BY <1>2, <1>3 DEF Rows, Types
<1>6. \A u \in done : u \in Tasks /\ (shown[u] = "done" => shown'[u] = "done")
  BY <1>2 DEF Types
<1>7. \A m \in 1..(layer - 1) : \A u \in layers[m] : u \in done' /\ shown'[u] = "done"
  BY <1>3, <1>6 DEF Below
<1>8. \A u \in Layer \cap done' : shown'[u] = "done"
  BY <1>3, <1>6 DEF Below
<1>9. Below'
  BY <1>1, <1>2, <1>7, <1>8 DEF Below
<1>. QED
  BY <1>4, <1>5, <1>9

\* The task of the serial loop is pending, and the only one that is being built.
LEMMA SerialTask ==
    ASSUME RunInv, NEW t \in Tasks, pc = "layer", th[t] = "building"
    PROVE  /\ IsLeast(t, Serial) /\ t \in Pending
           /\ \A u \in Tasks : u # t => th[u] = "none"
<1> USE DEF RunInv
<1>1. layer <= N
  BY DEF Below
<1>2. IsLeast(t, Serial) /\ t \in Pending
  BY <1>1, LayerTyped DEF Threads, IsLeast
<1>3. \A u \in Tasks : IsLeast(u, Serial) => u = t
  BY <1>2, PlansAssumption DEF IsLeast, Tasks, PlansAssumption
<1>. QED
  BY <1>2, <1>3 DEF Threads

LEMMA AgentStep ==
    ASSUME RunInv, NEW t \in Tasks, Agent(t)
    PROVE  RunInv'
<1> USE DEF RunInv
<1>1. CASE SerialDone(t)
  <2>1. /\ pc = "layer" /\ th[t] = "building" /\ pc' = pc /\ UNCHANGED <<plan, layers, layer>>
        /\ Complete(t) /\ th' = [th EXCEPT ![t] = "none"] /\ shown' = [shown EXCEPT ![t] = "done"]
    BY <1>1 DEF SerialDone
  <2>2. t \in Pending /\ \A u \in Tasks : u # t => th[u] = "none"
    BY <2>1, SerialTask
  <2>3. /\ shown'[t] = "done" /\ \A u \in Tasks : u # t => shown'[u] = shown[u]
        /\ shown' \in [Tasks -> {"none", "running", "failed", "done"}]
    BY <2>1 DEF Types
  <2>4. Types' /\ SavedIsDone' /\ Rows' /\ Below'
    BY <2>1, <2>2, <2>3, OneFinished
  <2>5. \A u \in Tasks : th'[u] = "none"
    BY <2>1, <2>2 DEF Types
  <2>6. Threads'
    BY <2>1, <2>5 DEF Threads
  <2>. QED
    BY <2>4, <2>6
<1>2. CASE ScreenDone(t)
  <2>1. /\ pc = "pool" /\ th[t] = "building" /\ pc' = pc
        /\ UNCHANGED <<plan, layers, layer, done, saved>>
        /\ th' = [th EXCEPT ![t] = "ok"] /\ shown' = [shown EXCEPT ![t] = "done"]
    BY <1>2 DEF ScreenDone
  <2>2. t \in Pending /\ Pending' = Pending
    BY <2>1 DEF Threads, Pending, Layer
  <2>3. Types' /\ SavedIsDone' /\ Below'
    BY <2>1, <2>2, OneTask DEF Stages
  <2>4. Threads' /\ Rows'
    BY <2>1, <2>2 DEF Threads, Rows, Types
  <2>. QED
    BY <2>3, <2>4
<1>3. CASE AttemptFails(t) /\ UNCHANGED <<pc, th, shown>>
  <2>1. UNCHANGED <<plan, layers, layer, done, saved>>
    BY <1>3 DEF AttemptFails
  <2>2. Serial' = Serial /\ Pending' = Pending /\ Layer' = Layer
    BY <2>1 DEF Serial, Pending, Screens, Parallel, Layer
  <2>. QED
    BY <1>3, <2>1, <2>2 DEF Types, SavedIsDone, Threads, Rows, Below, IsLeast
<1>4. CASE /\ th[t] = "building" /\ GiveUp(t) /\ UNCHANGED <<plan, layers, layer, done, saved>>
           /\ shown' = shown \/ shown' = [shown EXCEPT ![t] = "failed"]
  <2>1. pc \in {"layer", "pool"}
    BY <1>4 DEF Types, Threads
  <2>2. th' = [th EXCEPT ![t] = "failed"] /\ pc' = IF pc = "pool" THEN "pool" ELSE "raised"
    BY <1>4 DEF GiveUp
  <2>3. t \in Pending /\ Pending' = Pending
    BY <1>4, <2>1, SerialTask DEF Threads, Pending, Layer
  <2>4. PICK r \in {"none", "running", "failed", "done"} :
           shown' = [shown EXCEPT ![t] = r] /\ (r = "failed" \/ r = shown[t])
    <3>1. shown = [shown EXCEPT ![t] = shown[t]] /\ shown[t] \in {"none", "running", "failed", "done"}
      BY DEF Types
    <3>. QED
      BY <1>4, <3>1
  <2>5. CASE pc = "pool"
    <3>1. Types' /\ SavedIsDone' /\ Below'
      BY <1>4, <2>1, <2>2, <2>3, <2>4, <2>5, OneTask DEF Stages
    <3>2. Threads' /\ Rows'
      BY <1>4, <2>2, <2>3, <2>4, <2>5 DEF Threads, Rows, Types
    <3>. QED
      BY <3>1, <3>2
  <2>6. CASE pc = "layer"
    <3>1. Types' /\ SavedIsDone'
      BY <1>4, <2>2, <2>4, <2>6 DEF Types, Stages, SavedIsDone
    <3>2. Threads' /\ Below'
      BY <1>4, <2>2, <2>6, SerialTask DEF Threads, Below, Types
    <3>3. Rows'
      BY <1>4, <2>2, <2>4, <2>6 DEF Rows, Threads, Types
    <3>. QED
      BY <3>1, <3>2, <3>3
  <2>. QED
    BY <2>1, <2>5, <2>6
<1>5. CASE AttemptFails(t)
  BY <1>3, <1>4, <1>5 DEF AttemptFails
<1>6. CASE TimesOut(t)
  BY <1>4, <1>6 DEF TimesOut
<1>. QED
  BY <1>1, <1>2, <1>5, <1>6 DEF Agent

LEMMA MergeStep ==
    ASSUME RunInv, Merge
    PROVE  RunInv'
<1> USE DEF RunInv
<1>1. PICK t \in In("ok") : Complete(t) /\ th' = [th EXCEPT ![t] = "none"]
  BY DEF Merge
<1>2. pc = "pool" /\ pc' = pc /\ UNCHANGED <<plan, layers, layer, shown>>
  BY DEF Merge, PoolDone
<1>3. t \in Tasks /\ t \in Pending /\ shown[t] = "done"
  BY <1>2 DEF In, Threads
<1>4. shown' \in [Tasks -> {"none", "running", "failed", "done"}]
  BY <1>2 DEF Types
<1>5. Types' /\ SavedIsDone' /\ Rows' /\ Below'
  BY <1>1, <1>2, <1>3, <1>4, OneFinished
<1>6. Pending' = Pending \ {t}
  BY <1>1, <1>2 DEF Pending, Layer, Complete
<1>7. Threads'
  BY <1>1, <1>2, <1>3, <1>6 DEF Threads, Types
<1>. QED
  BY <1>5, <1>7

LEMMA RunInvStep ==
    ASSUME RunInv, [Next]_vars
    PROVE  RunInv'
<1>1. CASE UNCHANGED vars
  <2>1. /\ UNCHANGED <<plan, pc, layers, layer, done, th, shown, saved>>
    BY <1>1 DEF vars, memory
  <2>2. Serial' = Serial /\ Pending' = Pending /\ Layer' = Layer
    BY <2>1 DEF Serial, Pending, Screens, Parallel, Layer
  <2>. QED
    BY <2>1, <2>2 DEF RunInv, Types, SavedIsDone, Threads, Rows, Below, IsLeast
<1>. QED
  BY <1>1, RestartStep, BetweenLayers, StartStep, AgentStep, MergeStep DEF Next, Runner

(***************************************************************************)
(* The theorems.                                                           *)
(***************************************************************************)

\* When a run has ended by an exception, every task whose CodegenTask row says done is
\* in the checkpoint, those that were merged beside a failed screen among them; when
\* the app is built, all tasks are, and all rows say so.
THEOREM PanelTrue == Spec => []DoneIsSaved
<1>1. RunInv => DoneIsSaved
  <2> SUFFICES ASSUME RunInv PROVE DoneIsSaved
    OBVIOUS
  <2> USE DEF RunInv
  <2>1. ASSUME pc \in {"raised", "dead"}, NEW t \in Tasks, shown[t] = "done"
        PROVE  t \in saved.done
    BY <2>1 DEF Rows, Threads, SavedIsDone
  <2>2. ASSUME pc = "built"
        PROVE  saved.done = Tasks /\ \A t \in Tasks : shown[t] = "done"
    <3>1. layer - 1 = N
      BY <2>2, PlansAssumption DEF Below, PlansAssumption
    <3>2. \A m \in 1..N : \A t \in layers[m] : t \in done /\ shown[t] = "done"
      BY <2>2, <3>1 DEF Below
    <3>3. \A t \in Tasks : t \in done /\ shown[t] = "done"
      BY <2>2, <3>2 DEF Below, Planned
    <3>. QED
      BY <3>3 DEF SavedIsDone, Types
  <2>. QED
    BY <2>1, <2>2 DEF DoneIsSaved
<1>. QED
  BY <1>1, RunInvInit, RunInvStep, PTL DEF Spec

\* The checkpoint grows by one task at a time, after the layers below the task's own
\* and after the serial tasks in front of it: whatever threads, merges and restarts
\* do, CodegenCheckpoint may take Before for granted.
THEOREM InOrder == Spec => DoneInOrder
<1>1. RunInv /\ [Next]_vars => [OrderedStep]_vars
  <2> SUFFICES ASSUME RunInv, [Next]_vars, NEW t \in saved'.done \ saved.done
      PROVE  /\ saved'.done = saved.done \cup {t}
             /\ \A m \in 1..(layer - 1) : layers[m] \subseteq saved.done
             /\ \A u \in Layer \ plan.screens :
                   (t \in plan.screens \/ u < t) => u \in saved.done
    BY DEF OrderedStep
  <2> USE DEF RunInv
  <2>1. PICK s \in Tasks : SerialDone(s) \/ (Merge /\ s \in In("ok") /\ Complete(s))
    BY DEF Next, Runner, Start, EnterLayer, StartSerial, StartPool, NextLayer, AddWorktree, Agent,
        ScreenDone, AttemptFails, TimesOut, Merge, EndPool, Finish, Retry, Crash, vars, In
  <2>2. Complete(s) /\ pc \in {"layer", "pool"}
    BY <2>1 DEF SerialDone, Merge, PoolDone
  <2>3. s = t /\ saved'.done = saved.done \cup {t}
    BY <2>2 DEF Complete, SavedIsDone
  <2>4. \A m \in 1..(layer - 1) : layers[m] \subseteq saved.done
    BY <2>2 DEF Below, SavedIsDone
  <2>5. ASSUME NEW u \in Layer \ plan.screens, t \in plan.screens \/ u < t
        PROVE  u \in saved.done
    <3>1. layer <= N /\ u \in Tasks /\ (u \notin done => u \in Pending \ Screens)
      <4>1. layer <= N
        BY <2>2 DEF Below
      <4>. QED
        BY <4>1, LayerTyped DEF Pending, Screens
    <3>2. CASE SerialDone(s)
      <4>1. t \in Serial /\ \A v \in Serial : t <= v
        BY <2>3, <3>2, SerialTask DEF SerialDone, IsLeast
      <4>2. CASE Pending \ Screens = {}
        BY <3>1, <4>2 DEF SavedIsDone
      <4>3. CASE Pending \ Screens # {}
        <5>1. Serial = Pending \ Screens
          BY <4>3 DEF Serial
        <5>2. t \notin plan.screens
          BY <4>1, <5>1 DEF Screens
        <5>3. u < t /\ (u \in Serial => t <= u)
          BY <2>5, <4>1, <5>2
        <5>4. u \notin Serial
          BY <2>3, <3>1, <5>3, PlansAssumption DEF Tasks, PlansAssumption
        <5>. QED
          BY <3>1, <5>1, <5>4 DEF SavedIsDone
      <4>. QED
        BY <4>2, <4>3
    <3>3. CASE Merge
      BY <2>5, <3>1, <3>3 DEF Merge, PoolDone, Threads, Pending, SavedIsDone
    <3>. QED
      BY <2>1, <3>2, <3>3
  <2>. QED
    BY <2>3, <2>4, <2>5
<1>. QED
  BY <1>1, RunInvInit, RunInvStep, PTL DEF Spec, DoneInOrder

(***************************************************************************)
(* topo_layers, for every graph.  What a recursive function computes is    *)
(* shown by induction; WFMin, which is about sets, gives it without a      *)
(* predicate as a parameter.                                               *)
(***************************************************************************)

LEMMA LeastNat ==
    ASSUME NEW S, S \subseteq Nat, S # {}
    PROVE  \E x \in S : \A y \in S : x <= y
<1> DEFINE R == OpToRel(<, Nat)
<1>1. IsWellFoundedOn(R, Nat)
  BY NatLessThanWellFounded
<1>2. \A y, x \in Nat : <<y, x>> \in R <=> y < x
  BY DEF OpToRel
<1> HIDE DEF R
<1>3. \E x \in S : \A y \in S : ~(<<y, x>> \in R)
  BY <1>1, WFMin
<1>4. PICK x \in S : \A y \in S : <<y, x>> \notin R
  BY <1>3
<1>5. x \in Nat /\ \A y \in S : y \in Nat /\ ~(y < x)
  BY <1>2, <1>4
<1>6. \A y \in S : x <= y
  BY <1>5
<1>. QED
  BY <1>6

\* Induction up to k.
LEMMA Upwards ==
    ASSUME NEW S, NEW k \in Nat, 0 \in S, \A n \in 0..k : n \in S /\ n < k => n + 1 \in S
    PROVE  0..k \subseteq S
<1> SUFFICES ASSUME (0..k) \ S # {} PROVE FALSE
  OBVIOUS
<1>1. PICK x \in (0..k) \ S : \A y \in (0..k) \ S : x <= y
  <2>1. (0..k) \ S \subseteq Nat
    OBVIOUS
  <2>. QED
    BY <2>1, LeastNat
<1>2. x # 0 /\ x - 1 \in 0..k /\ x - 1 < k
  BY <1>1
<1>3. x - 1 \in S
  BY <1>1, <1>2
<1>4. (x - 1) + 1 \in S
  BY <1>2, <1>3
<1>. QED
  BY <1>1, <1>4

\* The sets of resolved tasks, up to layer m.
IsResolved(g, deps, m) ==
    g = [n \in 0..m |-> IF n = 0 THEN {} ELSE g[n - 1] \cup Ready(deps, g[n - 1])]

\* The recursive definition of topo_layers defines a function.
LEMMA ResolvedExists ==
    ASSUME NEW deps, NEW k \in Nat
    PROVE  \E g : IsResolved(g, deps, k)
<1> DEFINE S == {m \in Nat : \E g : IsResolved(g, deps, m)}
<1>1. 0 \in S
  <2> DEFINE g == [n \in 0..0 |-> {}]
  <2>1. g = [n \in 0..0 |-> IF n = 0 THEN {} ELSE g[n - 1] \cup Ready(deps, g[n - 1])]
    OBVIOUS
  <2>2. IsResolved(g, deps, 0)
    BY <2>1 DEF IsResolved
  <2>. QED
    BY <2>2
<1>2. ASSUME NEW m \in 0..k, m \in S
      PROVE  m + 1 \in S
  <2>1. PICK g : IsResolved(g, deps, m)
    BY <1>2
  <2> DEFINE h == [n \in 0..(m + 1) |-> IF n = m + 1 THEN g[m] \cup Ready(deps, g[m]) ELSE g[n]]
  <2>2. \A n \in 0..m : h[n] = g[n]
    OBVIOUS
  <2>3. \A n \in 0..m : g[n] = IF n = 0 THEN {} ELSE g[n - 1] \cup Ready(deps, g[n - 1])
    BY <2>1 DEF IsResolved
  <2>4. \A n \in 0..(m + 1) : h[n] = IF n = 0 THEN {} ELSE h[n - 1] \cup Ready(deps, h[n - 1])
    <3>1. ASSUME NEW n \in 0..(m + 1)
          PROVE  h[n] = IF n = 0 THEN {} ELSE h[n - 1] \cup Ready(deps, h[n - 1])
      <4>1. CASE n = m + 1
        <5>1. h[n] = g[m] \cup Ready(deps, g[m]) /\ n - 1 = m /\ h[m] = g[m] /\ n # 0
          BY <2>2, <4>1
        <5>. QED
          BY <5>1
      <4>2. CASE n # m + 1
        <5>1. n \in 0..m /\ (n = 0 \/ n - 1 \in 0..m)
          BY <4>2
        <5>2. h[n] = g[n] /\ (n = 0 \/ h[n - 1] = g[n - 1])
          BY <2>2, <5>1
        <5>. QED
          BY <2>3, <5>1, <5>2
      <4>. QED
        BY <4>1, <4>2
    <3>. QED
      BY <3>1
  <2>5. h = [n \in 0..(m + 1) |-> h[n]]
    OBVIOUS
  <2> HIDE DEF h
  <2>6. IsResolved(h, deps, m + 1)
    BY <2>4, <2>5 DEF IsResolved
  <2>. QED
    BY <2>6
<1> HIDE DEF S
<1>3. 0..k \subseteq S
  BY <1>1, <1>2, Upwards
<1>4. k \in S
  BY <1>3
<1>. QED
  BY <1>4 DEF S

\* What the result is made of.
LEMMA LayersResolve ==
    ASSUME NEW deps
    PROVE  \E g : /\ g[0] = {}
                  /\ \A n \in 1..N : /\ TopoLayers(deps)[n] = Ready(deps, g[n - 1])
                                     /\ g[n] = g[n - 1] \cup TopoLayers(deps)[n]
<1> DEFINE G == CHOOSE g : IsResolved(g, deps, N)
<1>1. N \in Nat
  BY PlansAssumption DEF PlansAssumption
<1>2. IsResolved(G, deps, N)
  BY <1>1, ResolvedExists
<1>3. TopoLayers(deps) = [n \in 1..N |-> Ready(deps, G[n - 1])]
  BY DEF TopoLayers, IsResolved
<1> HIDE DEF G
<1>4. \A n \in 0..N : G[n] = IF n = 0 THEN {} ELSE G[n - 1] \cup Ready(deps, G[n - 1])
  BY <1>2 DEF IsResolved
<1>5. G[0] = {}
  <2>1. 0 \in 0..N
    BY <1>1
  <2>. QED
    BY <1>4, <2>1
<1>6. \A n \in 1..N : G[n] = G[n - 1] \cup Ready(deps, G[n - 1])
  <2>1. \A n \in 1..N : n \in 0..N /\ n # 0
    BY <1>1
  <2>. QED
    BY <1>4, <2>1
<1>. QED
  BY <1>3, <1>5, <1>6

Cyclic(deps) == \E S \in (SUBSET Tasks) \ {{}} : \A t \in S : deps[t] \cap S # {}

\* Every task has one layer, one above the highest of its dependencies.
Layered(ls, deps) ==
    \A n \in 1..N : \A t \in ls[n] :
        /\ \A m \in 1..N : t \in ls[m] => m = n
        /\ \A d \in deps[t] : \E m \in 1..(n - 1) : d \in ls[m]
        /\ n = 1 \/ deps[t] \cap ls[n - 1] # {}

\* The resolved tasks are those of the layers so far.
LEMMA ResolvedSoFar ==
    ASSUME NEW deps, NEW g, g[0] = {},
           \A n \in 1..N : /\ TopoLayers(deps)[n] = Ready(deps, g[n - 1])
                           /\ g[n] = g[n - 1] \cup TopoLayers(deps)[n]
    PROVE  \A n \in 0..N : /\ g[n] \subseteq Tasks
                           /\ \A t : t \in g[n] <=> \E m \in 1..n : t \in TopoLayers(deps)[m]
<1> DEFINE L == TopoLayers(deps)
           S == {n \in 0..N : /\ g[n] \subseteq Tasks
                              /\ \A t : t \in g[n] <=> \E m \in 1..n : t \in L[m]}
<1>0. N \in Nat
  BY PlansAssumption DEF PlansAssumption
<1> HIDE DEF L
<1>1. 0 \in S
  BY <1>0
<1>2. ASSUME NEW n \in 0..N, n \in S /\ n < N
      PROVE  n + 1 \in S
  <2>1. n + 1 \in 1..N /\ (n + 1) - 1 = n
    BY <1>0, <1>2
  <2>2. g[n + 1] = g[n] \cup L[n + 1] /\ L[n + 1] = Ready(deps, g[n])
    BY <2>1 DEF L
  <2>3. \A m \in 1..(n + 1) : m \in 1..n \/ m = n + 1
    BY <1>2
  <2>4. \A t : t \in g[n + 1] <=> \E m \in 1..(n + 1) : t \in L[m]
    BY <1>2, <2>2, <2>3
  <2>5. g[n + 1] \subseteq Tasks
    BY <1>2, <2>2 DEF Ready
  <2>. QED
    BY <2>1, <2>4, <2>5
<1> HIDE DEF S
<1>3. 0..N \subseteq S
  BY <1>0, <1>1, <1>2, Upwards
<1>. QED
  BY <1>3 DEF S, L

LEMMA TopoLayered ==
    ASSUME NEW deps
    PROVE  Layered(TopoLayers(deps), deps)
<1> DEFINE L == TopoLayers(deps)
<1> HIDE DEF L
<1>1. PICK g : /\ g[0] = {}
               /\ \A n \in 1..N : L[n] = Ready(deps, g[n - 1]) /\ g[n] = g[n - 1] \cup L[n]
  BY LayersResolve DEF L
<1>2. \A n \in 0..N : \A t : t \in g[n] <=> \E m \in 1..n : t \in L[m]
  BY <1>1, ResolvedSoFar DEF L
<1>3. ASSUME NEW n \in 1..N, NEW t \in L[n]
      PROVE  /\ \A m \in 1..N : t \in L[m] => m = n
             /\ \A d \in deps[t] : \E m \in 1..(n - 1) : d \in L[m]
             /\ n = 1 \/ deps[t] \cap L[n - 1] # {}
  <2>0. N \in Nat /\ n - 1 \in 0..N
    BY PlansAssumption DEF PlansAssumption
  <2>1. t \in Tasks /\ t \notin g[n - 1] /\ deps[t] \subseteq g[n - 1]
    BY <1>1, <1>3 DEF Ready
  <2>2. ASSUME NEW m \in 1..N, t \in L[m], m # n
        PROVE  FALSE
    <3>1. CASE m < n
      <4>1. m \in 1..(n - 1)
        BY <2>0, <3>1
      <4>. QED
        BY <1>2, <2>0, <2>1, <2>2, <4>1
    <3>2. CASE n < m
      <4>1. n \in 1..(m - 1) /\ m - 1 \in 0..N
        BY <2>0, <3>2
      <4>2. t \in g[m - 1]
        BY <1>2, <4>1
      <4>3. t \notin g[m - 1]
        BY <1>1, <2>2 DEF Ready
      <4>. QED
        BY <4>2, <4>3
    <3>. QED
      BY <2>0, <2>2, <3>1, <3>2
  <2>3. \A d \in deps[t] : \E m \in 1..(n - 1) : d \in L[m]
    BY <1>2, <2>0, <2>1
  <2>4. ASSUME n # 1, deps[t] \cap L[n - 1] = {}
        PROVE  FALSE
    <3>1. n - 1 \in 1..N /\ (n - 1) - 1 = n - 2
      BY <2>0, <2>4
    <3>2. g[n - 1] = g[n - 2] \cup L[n - 1] /\ L[n - 1] = Ready(deps, g[n - 2])
      BY <1>1, <3>1
    <3>3. deps[t] \subseteq g[n - 2] /\ t \notin g[n - 2] /\ t \notin L[n - 1]
      BY <2>1, <2>4, <3>2
    <3>. QED
      BY <2>1, <3>2, <3>3 DEF Ready
  <2>. QED
    BY <2>2, <2>3, <2>4
<1>. QED
  BY <1>3 DEF Layered, L

\* Without a cycle every layer up to the last adds a task, so that N are enough.
LEMMA RefusedIsCyclic ==
    ASSUME NEW deps \in [Tasks -> SUBSET Tasks], Planned(TopoLayers(deps)) # Tasks
    PROVE  Cyclic(deps)
<1> DEFINE L == TopoLayers(deps)
<1> HIDE DEF L
<1>0. N \in Nat
  BY PlansAssumption DEF PlansAssumption
<1>1. PICK g : /\ g[0] = {}
               /\ \A n \in 1..N : L[n] = Ready(deps, g[n - 1]) /\ g[n] = g[n - 1] \cup L[n]
  BY LayersResolve DEF L
<1>2. \A n \in 0..N : g[n] \subseteq Tasks /\ \A t : t \in g[n] <=> \E m \in 1..n : t \in L[m]
  BY <1>1, ResolvedSoFar DEF L
<1>3. g[N] # Tasks
  BY <1>0, <1>2 DEF Planned, L
<1>4. CASE \E m \in 1..N : L[m] = {}
  <2>1. PICK m \in 1..N : L[m] = {}
    BY <1>4
  <2> DEFINE S == {n \in 0..N : n >= m - 1 => g[n] = g[m - 1]}
  <2>2. 0 \in S
    BY <1>0
  <2>3. ASSUME NEW n \in 0..N, n \in S /\ n < N
        PROVE  n + 1 \in S
    <3>1. n + 1 \in 1..N /\ (n + 1) - 1 = n /\ L[n + 1] = Ready(deps, g[n])
          /\ g[n + 1] = g[n] \cup L[n + 1]
      <4>1. n + 1 \in 1..N /\ (n + 1) - 1 = n
        BY <1>0, <2>3
      <4>. QED
        BY <1>1, <4>1
    <3>2. CASE n >= m - 1
      <4>1. g[n] = g[m - 1] /\ L[n + 1] = L[m]
        BY <1>1, <2>3, <3>1, <3>2
      <4>2. g[n + 1] = g[m - 1]
        BY <2>1, <3>1, <4>1
      <4>. QED
        BY <1>0, <3>1, <4>2
    <3>3. CASE n + 1 = m - 1
      BY <3>1, <3>3
    <3>4. CASE n + 1 < m - 1
      BY <3>1, <3>4
    <3>. QED
      BY <1>0, <2>3, <3>2, <3>3, <3>4
  <2> HIDE DEF S
  <2>4. N \in S
    <3>1. 0..N \subseteq S
      BY <1>0, <2>2, <2>3, Upwards
    <3>. QED
      BY <1>0, <3>1
  <2>5. g[N] = g[m - 1]
    BY <1>0, <2>4 DEF S
  <2>6. Ready(deps, g[N]) = {}
    BY <1>1, <2>1, <2>5
  <2> DEFINE T == Tasks \ g[N]
  <2>7. T # {} /\ T \in SUBSET Tasks
    <3>1. N \in 0..N
      BY <1>0
    <3>2. g[N] \subseteq Tasks
      BY <1>2, <3>1
    <3>. QED
      BY <1>3, <3>2
  <2>8. \A t \in T : deps[t] \cap T # {}
    BY <2>6 DEF Ready
  <2>. QED
    BY <2>7, <2>8 DEF Cyclic
<1>5. CASE \A m \in 1..N : L[m] # {}
  <2>1. IsFiniteSet(Tasks) /\ Cardinality(Tasks) = N
    BY <1>0, FS_Interval DEF Tasks
  <2>2. \A n \in 0..N : IsFiniteSet(g[n]) /\ Cardinality(g[n]) \in Nat
    BY <1>2, <2>1, FS_Subset, FS_CardinalityType
  <2> DEFINE S == {n \in 0..N : Cardinality(g[n]) >= n}
  <2>3. 0 \in S
    BY <1>0, <2>2
  <2>4. ASSUME NEW n \in 0..N, n \in S /\ n < N
        PROVE  n + 1 \in S
    <3>1. n + 1 \in 1..N /\ (n + 1) - 1 = n /\ n + 1 \in 0..N
      BY <1>0, <2>4
    <3>2. L[n + 1] = Ready(deps, g[n]) /\ g[n + 1] = g[n] \cup L[n + 1] /\ L[n + 1] # {}
      BY <1>1, <1>5, <3>1
    <3>3. PICK t \in L[n + 1] : t \notin g[n]
      BY <3>2 DEF Ready
    <3>4. g[n] \cup {t} \subseteq g[n + 1]
      BY <3>2
    <3>5. IsFiniteSet(g[n] \cup {t}) /\ Cardinality(g[n] \cup {t}) = Cardinality(g[n]) + 1
      BY <2>2, <3>3, FS_AddElement
    <3>6. Cardinality(g[n] \cup {t}) <= Cardinality(g[n + 1]) /\ Cardinality(g[n + 1]) \in Nat
      BY <2>2, <3>1, <3>4, FS_Subset
    <3>. QED
      BY <2>2, <2>4, <3>1, <3>5, <3>6
  <2> HIDE DEF S
  <2>5. N \in S
    <3>1. 0..N \subseteq S
      BY <1>0, <2>3, <2>4, Upwards
    <3>. QED
      BY <1>0, <3>1
  <2>6. Cardinality(g[N]) >= N /\ g[N] \subseteq Tasks /\ Cardinality(g[N]) \in Nat
    BY <1>0, <1>2, <2>2, <2>5 DEF S
  <2>7. Cardinality(g[N]) <= Cardinality(Tasks)
    BY <2>1, <2>6, FS_Subset
  <2>8. Cardinality(g[N]) = Cardinality(Tasks)
    BY <1>0, <2>1, <2>6, <2>7
  <2>9. g[N] = Tasks
    BY <2>1, <2>6, <2>8, FS_Subset
  <2>. QED
    BY <1>3, <2>9
<1>. QED
  BY <1>4, <1>5

\* On a cycle there is no lowest task.
LEMMA PlannedIsAcyclic ==
    ASSUME NEW deps, Planned(TopoLayers(deps)) = Tasks
    PROVE  ~Cyclic(deps)
<1> DEFINE L == TopoLayers(deps)
<1> HIDE DEF L
<1>1. Layered(L, deps)
  BY TopoLayered DEF L
<1>2. SUFFICES ASSUME Cyclic(deps) PROVE FALSE
  OBVIOUS
<1>a. PICK S \in SUBSET Tasks : S # {} /\ \A t \in S : deps[t] \cap S # {}
  BY <1>2 DEF Cyclic
<1> DEFINE M == {n \in 1..N : L[n] \cap S # {}}
<1>3. M # {} /\ M \subseteq Nat
  <2>1. Planned(L) = Tasks
    BY DEF L
  <2>2. PICK t \in S : t \in Tasks
    BY <1>a
  <2>3. PICK n \in 1..N : t \in L[n]
    BY <2>1, <2>2 DEF Planned
  <2>4. n \in M
    BY <2>2, <2>3
  <2>. QED
    BY <2>4
<1>4. PICK n \in M : \A m \in M : n <= m
  BY <1>3, LeastNat
<1>5. PICK t \in S : t \in L[n]
  BY <1>4
<1>6. PICK d \in S : d \in deps[t]
  BY <1>a
<1>7. n \in 1..N /\ N \in Nat
  BY <1>4, PlansAssumption DEF PlansAssumption
<1>8. PICK m \in 1..(n - 1) : d \in L[m]
  BY <1>1, <1>5, <1>6, <1>7 DEF Layered
<1>9. m \in M /\ m < n
  BY <1>7, <1>8
<1>. QED
  BY <1>4, <1>7, <1>9

\* The layers are those of the plan, once they are computed.
LayersInv ==
    /\ plan \in [deps : [Tasks -> SUBSET Tasks], screens : SUBSET Tasks]
    /\ layers \in {[n \in 1..N |-> {}], TopoLayers(plan.deps)}
    /\ pc = "refused" => Planned(TopoLayers(plan.deps)) # Tasks

LEMMA LayersInvInit == Init => LayersInv
  BY PlansAssumption DEF PlansAssumption, Init, LayersInv

LEMMA LayersInvStep ==
    ASSUME LayersInv, [Next]_vars
    PROVE  LayersInv' /\ plan' = plan
<1>1. CASE Start
  BY <1>1 DEF Start, LayersInv
<1>2. CASE Retry \/ Crash
  BY <1>2 DEF Retry, Crash, Reload, memory, LayersInv
<1>3. CASE UNCHANGED <<plan, layers>> /\ (pc' = "refused" => pc = "refused")
  BY <1>3 DEF LayersInv
<1>4. CASE EnterLayer \/ StartSerial \/ StartPool \/ NextLayer \/ AddWorktree \/ Merge \/ EndPool
           \/ Finish \/ UNCHANGED vars
  BY <1>3, <1>4 DEF EnterLayer, StartSerial, StartPool, NextLayer, AddWorktree, Merge, PoolDone, EndPool,
     Finish, vars, memory
<1>5. CASE \E t \in Tasks : Agent(t)
  BY <1>3, <1>5 DEF Agent, SerialDone, ScreenDone, AttemptFails, TimesOut, GiveUp
<1>. QED
  BY <1>1, <1>2, <1>4, <1>5 DEF Next, Runner

\* For every number of tasks and every graph: topo_layers raises exactly if some tasks
\* all wait for one another; otherwise every task is one layer above the highest of its
\* dependencies, and the number of tasks bounds the number of layers.
THEOREM LayersCorrect == Spec => []LayersRight
<1>1. LayersInv /\ RunInv => LayersRight
  <2> SUFFICES ASSUME LayersInv, RunInv PROVE LayersRight
    OBVIOUS
  <2>1. pc = "refused" => Cyclic(plan.deps)
    BY RefusedIsCyclic DEF LayersInv
  <2>2. Cyclic(plan.deps) => pc \in {"start", "refused"}
    BY PlannedIsAcyclic DEF RunInv, Rows
  <2>3. Layered(layers, plan.deps)
    <3>1. CASE layers = [n \in 1..N |-> {}]
      BY <3>1 DEF Layered
    <3>2. CASE layers = TopoLayers(plan.deps)
      BY <3>2, TopoLayered
    <3>. QED
      BY <3>1, <3>2 DEF LayersInv
  <2>. QED
    BY <2>1, <2>2, <2>3 DEF LayersRight, Layered, Cyclic
<1>. QED
  BY <1>1, LayersInvInit, LayersInvStep, RunInvInit, RunInvStep, PTL DEF Spec

(***************************************************************************)
(* What the trees hold.                                                    *)
(***************************************************************************)

Within(tree, S) == \A f \in Files : tree[f] \subseteq S

\* A merged screen has left nothing outside its own paths.
Tidy(tree) == \A t \in par : Touched(tree, t) \subseteq Owned(t)

Trees ==
    /\ app \in Tree /\ saved.app \in Tree /\ wt \in [Tasks -> Tree]
    /\ wrote \in [Tasks -> SUBSET Files] /\ done \subseteq Tasks /\ par \subseteq done

\* The app and the checkpoint hold the finished work, and traces of an unfinished task
\* are only in the app, while it is being built or when it has failed for good.
EditsInv ==
    /\ Trees
    /\ \A t \in par : wrote[t] \subseteq Owned(t)
    /\ Within(saved.app, done) /\ Tidy(saved.app) /\ \A t \in done : Holds(saved.app, t)
    /\ Tidy(app) /\ \A t \in done : Holds(app, t)
    /\ pc \notin {"raised", "dead"} =>
          Within(app, IF pc = "layer" THEN done \cup In("building") ELSE done)

\* u is a screen that was merged before t, in the layer of t.
Behind(u, t) == u \in par /\ u < t /\ SameLayer(u, t)

\* The worktree of screen t holds the finished work, except that of the screens which are
\* merged before it: they were not finished when it was made.
Worktree(t) ==
    /\ Within(wt[t], done \cup {t}) /\ Tidy(wt[t])
    /\ \A u \in done : Holds(wt[t], u) \/ Behind(u, t)

WorktreesInv ==
    pc = "pool" =>
        /\ head = app
        /\ \A t \in In("building") \cup In("ok") : Worktree(t)

TreeInv == RunInv /\ LayersInv /\ EditsInv /\ WorktreesInv

\* Edits of a task change nothing of the others.
LEMMA EditedTree ==
    ASSUME NEW tree \in Tree, NEW t \in Tasks, NEW F
    PROVE  /\ Edited(tree, t, F) \in Tree
           /\ \A f \in Files : /\ tree[f] \subseteq Edited(tree, t, F)[f]
                               /\ Edited(tree, t, F)[f] \subseteq tree[f] \cup {t}
  BY DEF Edited, Tree

\* What is overwritten stays so.
LEMMA OverwrittenStays ==
    ASSUME plan' = plan, par \subseteq par', NEW t, NEW f
    PROVE  Overwritten(t, f) => Overwritten(t, f)'
<1>1. \A u : SameLayer(t, u) => SameLayer(t, u)'
  BY DEF SameLayer
<1>. QED
  BY <1>1 DEF Overwritten

\* A step that finishes nothing and at most adds edits of one task, which is not finished,
\* to the app keeps EditsInv, if the new edits may be there.
LEMMA EditsStay ==
    ASSUME EditsInv, UNCHANGED <<plan, saved, wrote, par, done>>, wt' \in [Tasks -> Tree],
           app' \in Tree, NEW t, t \notin done,
           \A f \in Files : app[f] \subseteq app'[f] /\ app'[f] \subseteq app[f] \cup {t},
           pc' \notin {"raised", "dead"} =>
               Within(app', IF pc' = "layer" THEN done \cup In("building")' ELSE done)
    PROVE  EditsInv'
<1>1. \A u \in done, f \in Files : u \in app'[f] <=> u \in app[f]
  OBVIOUS
<1>2. Trees' /\ done \subseteq Tasks /\ par \subseteq done /\ wrote \in [Tasks -> SUBSET Files]
  BY DEF EditsInv, Trees
<1>3. \A u, f : Overwritten(u, f) => Overwritten(u, f)'
  BY OverwrittenStays
<1>4. Tidy(app)'
  <2>1. \A u \in par : Touched(app, u)' = Touched(app, u)
    BY <1>1, <1>2 DEF Touched
  <2>. QED
    BY <2>1 DEF EditsInv, Tidy, Owned
<1>5. Tidy(saved.app)'
  BY DEF EditsInv, Tidy, Touched
<1>6. \A u \in done : Holds(saved.app, u)'
  BY <1>3 DEF EditsInv, Holds
<1>7. ASSUME NEW u \in done PROVE Holds(app, u)'
  <2>1. \A f \in wrote[u] : u \in app[f] \/ Overwritten(u, f)
    BY <1>7 DEF EditsInv, Holds
  <2>2. \A f \in wrote[u] : f \in Files
    BY <1>2, <1>7 
  <2>. QED
    BY <1>1, <1>3, <1>7, <2>1, <2>2 DEF Holds
<1>8. Within(saved.app, done)' /\ \A u \in par' : wrote'[u] \subseteq Owned(u)
  BY DEF EditsInv, Within
<1>9. (pc \notin {"raised", "dead"} =>
          Within(app, IF pc = "layer" THEN done \cup In("building") ELSE done))'
  OBVIOUS
<1>. QED
  BY <1>2, <1>4, <1>5, <1>6, <1>7, <1>8, <1>9 DEF EditsInv

\* In a layer, the layers are topo_layers' and the layer is one of them.
LEMMA LayerOfPlan ==
    ASSUME RunInv, LayersInv, pc \in {"layer", "pool"}
    PROVE  /\ N \in Nat /\ layer \in 1..N /\ layers = TopoLayers(plan.deps)
           /\ Layer = TopoLayers(plan.deps)[layer] /\ Pending \subseteq Layer /\ Layer \subseteq Tasks
<1>1. N \in Nat /\ 1 \in Tasks
  BY PlansAssumption DEF PlansAssumption, Tasks
<1>2. layer \in 1..N
  BY <1>1 DEF RunInv, Below, Types
<1>3. layers # [n \in 1..N |-> {}]
  <2>1. PICK n \in 1..N : 1 \in layers[n]
    BY <1>1 DEF RunInv, Below, Planned
  <2>. QED
    BY <2>1
<1>. QED
  BY <1>1, <1>2, <1>3, LayerTyped DEF LayersInv, Layer, Pending, RunInv

\* Outside the serial loop, and in it between two tasks, the app has the finished work only.
LEMMA NothingBegun ==
    ASSUME TreeInv, pc \notin {"raised", "dead"}, pc = "layer" => In("building") = {}
    PROVE  Within(app, done)
  BY DEF TreeInv, EditsInv, Within

\* In the pool, and in the serial loop when nothing is left for it, the loop builds nothing.
LEMMA LoopIdle ==
    ASSUME RunInv, pc = "layer", Serial = {}
    PROVE  In("building") = {}
  BY DEF RunInv, Threads, IsLeast, In

\* A step that changes neither the app nor what is finished.
LEMMA AppStays ==
    ASSUME TreeInv, UNCHANGED <<plan, app, saved, wrote, par, done>>, wt' \in [Tasks -> Tree],
           pc' \in {"raised", "dead"} \/ Within(app, done)
    PROVE  EditsInv'
<1>1. 0 \notin done
  BY PlansAssumption DEF TreeInv, EditsInv, Trees, Tasks, PlansAssumption
<1>2. EditsInv /\ app' \in Tree
  BY DEF TreeInv, EditsInv, Trees
<1>3. \A f \in Files : app[f] \subseteq app'[f] /\ app'[f] \subseteq app[f] \cup {0}
  OBVIOUS
<1>4. pc' \notin {"raised", "dead"} =>
          Within(app', IF pc' = "layer" THEN done \cup In("building")' ELSE done)
  BY DEF Within
<1>. QED
  BY <1>1, <1>2, <1>3, <1>4, EditsStay

\* A step that finishes task t.
LEMMA Finishes ==
    ASSUME EditsInv, NEW t \in Tasks, done' = done \cup {t}, saved' = [done |-> done', app |-> app'],
           wt' \in [Tasks -> Tree], wrote' \in [Tasks -> SUBSET Files],
           app' \in Tree, par' \subseteq done', Within(app, done)', Tidy(app)',
           \A u \in par' : wrote'[u] \subseteq Owned(u), \A u \in done' : Holds(app, u)'
    PROVE  EditsInv'
<1>1. saved'.app = app' /\ Trees'
  BY DEF EditsInv, Trees
<1>2. Within(saved.app, done)' /\ Tidy(saved.app)' /\ \A u \in done' : Holds(saved.app, u)'
  BY <1>1 DEF Within, Tidy, Touched, Holds
<1>3. (pc \notin {"raised", "dead"} =>
          Within(app, IF pc = "layer" THEN done \cup In("building") ELSE done))'
  BY DEF Within
<1>. QED
  BY <1>1, <1>2, <1>3 DEF EditsInv, Owned

\* The steps of the runner that write no file of the app.
LEMMA NoEdit ==
    ASSUME TreeInv, \/ Start \/ EnterLayer \/ StartSerial \/ StartPool \/ NextLayer \/ AddWorktree
                    \/ EndPool \/ Finish \/ UNCHANGED vars \/ (Retry /\ pc' = "dead")
    PROVE  EditsInv'
<1>0. RunInv /\ EditsInv /\ wt \in [Tasks -> Tree]
  BY DEF TreeInv, EditsInv, Trees
<1>1. CASE Start \/ EnterLayer \/ EndPool \/ Finish
  <2>1. UNCHANGED <<plan, app, saved, wrote, par, done, wt>> /\ pc \notin {"raised", "dead", "layer"}
    BY <1>1 DEF Start, EnterLayer, EndPool, PoolDone, Finish, memory, history
  <2>. QED
    BY <1>0, <2>1, NothingBegun, AppStays
<1>2. CASE StartSerial \/ StartPool \/ NextLayer
  <2>1. UNCHANGED <<plan, app, saved, wrote, par, done, wt>> /\ pc = "layer"
    BY <1>2 DEF StartSerial, StartPool, NextLayer, history
  <2>2. In("building") = {}
    <3>1. CASE StartSerial
      BY <3>1 DEF StartSerial, In
    <3>2. CASE StartPool \/ NextLayer
      <4>1. Serial = {}
        BY <3>2 DEF StartPool, NextLayer, Serial, Screens
      <4>. QED
        BY <1>0, <2>1, <4>1, LoopIdle
    <3>. QED
      BY <1>2, <3>1, <3>2
  <2>. QED
    BY <1>0, <2>1, <2>2, NothingBegun, AppStays
<1>3. CASE AddWorktree
  <2>1. UNCHANGED <<plan, app, saved, wrote, par, done>> /\ pc = "pool"
    BY <1>3 DEF AddWorktree, history
  <2>2. head \in Tree
    BY <2>1 DEF TreeInv, EditsInv, Trees, WorktreesInv
  <2>3. wt' \in [Tasks -> Tree]
    BY <1>0, <1>3, <2>2 DEF AddWorktree
  <2>. QED
    BY <2>1, <2>3, NothingBegun, AppStays
<1>4. CASE Retry /\ pc' = "dead"
  <2>1. UNCHANGED <<plan, app, saved, wrote, par, done, wt>>
    BY <1>4 DEF Retry, memory, history
  <2>. QED
    BY <1>0, <1>4, <2>1, AppStays
<1>5. CASE UNCHANGED vars
  <2>1. UNCHANGED <<plan, app, saved, wrote, par, done, wt, th, pc>>
    BY <1>5 DEF vars, memory, history
  <2>. QED
    BY <1>0, <2>1 DEF EditsInv, Trees, Within, Tidy, Touched, Holds, Overwritten, SameLayer, In
<1>. QED
  BY <1>1, <1>2, <1>3, <1>4, <1>5

\* The steps of an agent that fails or works in a worktree.
LEMMA Attempt ==
    ASSUME TreeInv, NEW t \in Tasks, ScreenDone(t) \/ AttemptFails(t) \/ TimesOut(t)
    PROVE  EditsInv'
<1>0. /\ RunInv /\ EditsInv /\ wt \in [Tasks -> Tree] /\ app \in Tree
      /\ th[t] = "building" /\ pc \in {"layer", "pool"}
  BY DEF TreeInv, EditsInv, Trees, ScreenDone, AttemptFails, TimesOut, RunInv, Threads, Types
<1>1. UNCHANGED <<plan, saved, wrote, par, done>>
  BY DEF ScreenDone, AttemptFails, TimesOut, history
<1>2. wt' \in [Tasks -> Tree] /\ app' \in Tree
  <2>1. \A F : Edited(wt[t], t, F) \in Tree /\ Edited(app, t, F) \in Tree
    BY <1>0, EditedTree
  <2>. QED
    BY <1>0, <2>1 DEF ScreenDone, AttemptFails, TimesOut
<1>3. CASE app' = app /\ (pc = "pool" \/ pc' = "raised")
  BY <1>0, <1>1, <1>2, <1>3, NothingBegun, AppStays
<1>4. CASE AttemptFails(t) /\ pc = "layer"
  <2>1. PICK F : app' = Edited(app, t, F)
    BY <1>4 DEF AttemptFails
  <2>2. t \notin done
    BY <1>0, <1>4, SerialTask DEF Pending
  <2>3. \A f \in Files : app[f] \subseteq app'[f] /\ app'[f] \subseteq app[f] \cup {t}
    BY <1>0, <2>1, EditedTree
  <2>4. pc' = "raised" \/ (pc' = "layer" /\ th' = th)
    BY <1>4 DEF AttemptFails, GiveUp
  <2>5. t \in In("building") /\ Within(app, done \cup In("building"))
    BY <1>0, <1>4 DEF In, EditsInv
  <2>6. pc' \notin {"raised", "dead"} =>
            Within(app', IF pc' = "layer" THEN done \cup In("building")' ELSE done)
    BY <2>3, <2>4, <2>5 DEF Within, In
  <2>. QED
    BY <1>0, <1>1, <1>2, <2>2, <2>3, <2>6, EditsStay
<1>. QED
  BY <1>0, <1>3, <1>4 DEF ScreenDone, AttemptFails, TimesOut, GiveUp

\* The serial loop finishes a task.
LEMMA SerialKeeps ==
    ASSUME TreeInv, NEW t \in Tasks, SerialDone(t)
    PROVE  EditsInv'
<1>0. RunInv /\ EditsInv /\ Trees /\ th[t] = "building" /\ pc = "layer" /\ UNCHANGED <<plan, wt, par>>
  BY DEF TreeInv, EditsInv, SerialDone
<1>1. t \notin done /\ \A u \in In("building") : u = t
  BY <1>0, SerialTask DEF Pending, In
<1>2. PICK F : app' = Edited(app, t, F)
  BY DEF SerialDone
<1>3. /\ app' \in Tree
      /\ \A f \in Files : app[f] \subseteq app'[f] /\ app'[f] \subseteq app[f] \cup {t}
  BY <1>0, <1>2, EditedTree DEF Trees
<1>4. /\ done' = done \cup {t} /\ saved' = [done |-> done', app |-> app']
      /\ wrote' = [wrote EXCEPT ![t] = Touched(app', t)]
  BY DEF SerialDone, Complete
<1>5. wrote' \in [Tasks -> SUBSET Files] /\ wt' \in [Tasks -> Tree] /\ par' \subseteq done
  BY <1>0, <1>4 DEF Trees, Touched
<1>6. Within(app, done)'
  BY <1>0, <1>1, <1>3, <1>4 DEF EditsInv, Within
<1>7. Tidy(app)' /\ \A u \in par' : wrote'[u] \subseteq Owned(u)
  <2>1. ASSUME NEW u \in par
        PROVE  Touched(app, u)' \subseteq Owned(u) /\ wrote'[u] = wrote[u]
    <3>1. u # t /\ u \in Tasks
      BY <1>0, <1>1 DEF Trees
    <3>2. Touched(app, u)' = Touched(app, u)
      BY <1>3, <3>1 DEF Touched
    <3>. QED
      BY <1>0, <1>4, <3>1, <3>2 DEF EditsInv, Tidy, Trees
  <2>. QED
    BY <1>0, <2>1 DEF EditsInv, Tidy, Owned
<1>8. ASSUME NEW u \in done'
      PROVE  Holds(app, u)'
  <2>1. CASE u = t
    <3>1. wrote'[t] = Touched(app', t)
      BY <1>0, <1>4 DEF Trees
    <3>. QED
      BY <2>1, <3>1 DEF Holds, Touched
  <2>2. CASE u # t
    <3>1. u \in done /\ wrote'[u] = wrote[u] /\ wrote[u] \subseteq Files
      BY <1>0, <1>4, <2>2 DEF Trees
    <3>2. \A f \in wrote[u] : u \in app[f] \/ Overwritten(u, f)
      BY <1>0, <3>1 DEF EditsInv, Holds
    <3>3. \A f : Overwritten(u, f) => Overwritten(u, f)'
      BY <1>0, OverwrittenStays
    <3>. QED
      BY <1>3, <3>1, <3>2, <3>3 DEF Holds
  <2>. QED
    BY <2>1, <2>2
<1>. QED
  BY <1>0, <1>3, <1>4, <1>5, <1>6, <1>7, <1>8, Finishes

\* What the merge of screen t brings in: its own work, and of its copies of the assets
\* what a screen merged before it has not.
LEMMA MergeKeeps ==
    ASSUME TreeInv, NEW t \in In("ok"), PoolDone, UNCHANGED plan,
           app' = Merged(t), Complete(t),
           wrote' = [wrote EXCEPT ![t] = Touched(wt[t], t) \cap Owned(t)],
           par' = par \cup {t}, wt' = [wt EXCEPT ![t] = Empty]
    PROVE  EditsInv'
<1>0. /\ RunInv /\ EditsInv /\ Trees /\ Worktree(t) /\ t \in Tasks /\ pc = "pool"
      /\ par \subseteq done /\ done \subseteq Tasks
  BY DEF TreeInv, EditsInv, WorktreesInv, PoolDone, In, Trees
<1>1. t \notin done
  BY <1>0 DEF RunInv, Threads, Pending, In
<1>2. /\ done' = done \cup {t} /\ saved' = [done |-> done', app |-> app']
      /\ \A u \in done : wrote'[u] = wrote[u]
      /\ wrote'[t] = Touched(wt[t], t) \cap Owned(t)
  BY <1>0, <1>1 DEF Complete, Trees
<1>3. \A f \in Files : app'[f] = IF f \in Owned(t) /\ wt[t][f] # {} THEN wt[t][f] ELSE app[f]
  BY DEF Merged
<1>4. /\ wt' \in [Tasks -> Tree] /\ wrote' \in [Tasks -> SUBSET Files] /\ app' \in Tree
      /\ par' \subseteq done'
  <2>1. Empty \in Tree /\ wt[t] \in Tree /\ app \in Tree
    BY <1>0 DEF Empty, Tree, Trees
  <2>2. Merged(t) \in Tree
    BY <2>1 DEF Merged, Tree
  <2>. QED
    BY <1>0, <1>2, <2>1, <2>2 DEF Trees, Touched
<1>5. Within(app, done) /\ Within(wt[t], done \cup {t})
  BY <1>0 DEF EditsInv, Worktree
<1>6. Within(app, done)'
  BY <1>2, <1>3, <1>5 DEF Within
<1>7. Tidy(app)'
  <2>1. ASSUME NEW u \in par', NEW f \in Files, u \in app'[f]
        PROVE  f \in Owned(u)
    <3>1. CASE u = t
      BY <1>1, <1>3, <1>5, <2>1, <3>1 DEF Within
    <3>2. CASE u \in par
      <4>1. u \in app[f] \/ u \in wt[t][f]
        BY <1>3, <2>1
      <4>. QED
        BY <1>0, <3>2, <4>1 DEF EditsInv, Worktree, Tidy, Touched
    <3>. QED
      BY <3>1, <3>2
  <2>. QED
    BY <2>1 DEF Tidy, Touched, Owned
<1>8. \A u \in par' : wrote'[u] \subseteq Owned(u)
  BY <1>0, <1>2 DEF EditsInv
<1>9. ASSUME NEW u \in done'
      PROVE  Holds(app, u)'
  <2>1. CASE u = t
    <3>1. \A f \in wrote'[t] : f \in Files /\ f \in Owned(t) /\ t \in wt[t][f]
      BY <1>2 DEF Touched
    <3>. QED
      BY <1>3, <2>1, <3>1 DEF Holds
  <2>2. CASE u \in done
    <3>1. u # t /\ u \in Tasks /\ wrote'[u] = wrote[u] /\ wrote[u] \subseteq Files
      BY <1>0, <1>1, <1>2, <2>2 DEF Trees
    <3>2. \A f : Overwritten(u, f) => Overwritten(u, f)'
      BY OverwrittenStays
    <3>3. ASSUME NEW f \in wrote[u], u \notin app'[f]
          PROVE  Overwritten(u, f)'
      <4>1. u \in app[f] \/ Overwritten(u, f)
        BY <1>0, <2>2 DEF EditsInv, Holds
      <4>2. CASE u \in app[f]
        <5>1. f \in Owned(t) /\ u \notin wt[t][f]
          BY <1>3, <3>1, <3>3, <4>2
        <5>2. CASE Holds(wt[t], u)
          BY <3>2, <5>1, <5>2 DEF Holds
        <5>3. CASE Behind(u, t)
          <6>1. u \in par /\ u < t /\ SameLayer(u, t)'
            BY <5>3 DEF Behind, SameLayer
          <6>2. f \in Owned(u)
            BY <1>0, <6>1 DEF EditsInv
          <6>3. f = Assets
            BY <3>1, <5>1, <6>2 DEF Owned
          <6>4. t > u /\ t \in par'
            BY <1>0, <6>1, <3>1, PlansAssumption DEF PlansAssumption, Tasks
          <6>. QED
            BY <6>1, <6>3, <6>4 DEF Overwritten
        <5>. QED
          BY <1>0, <2>2, <5>2, <5>3 DEF Worktree
      <4>. QED
        BY <3>2, <4>1, <4>2
    <3>. QED
      BY <3>1, <3>3 DEF Holds
  <2>. QED
    BY <1>2, <2>1, <2>2
<1>. QED
  BY <1>0, <1>2, <1>4, <1>6, <1>7, <1>8, <1>9, Finishes

\* The next attempt starts from the checkpoint.
LEMMA RestartKeeps ==
    ASSUME TreeInv, Reload, pc' = "start", UNCHANGED <<plan, saved, wrote, par>>
    PROVE  EditsInv'
<1>1. /\ done' = saved.done /\ saved.done = done /\ app' = saved.app
      /\ wt' = [t \in Tasks |-> Empty]
  BY DEF Reload, TreeInv, RunInv, SavedIsDone
<1>2. EditsInv /\ Trees /\ Empty \in Tree
  BY DEF TreeInv, EditsInv, Empty, Tree
<1>3. Trees'
  BY <1>1, <1>2 DEF Trees
<1>4. Within(app, done)' /\ Within(saved.app, done)' /\ Tidy(app)' /\ Tidy(saved.app)'
  BY <1>1, <1>2 DEF EditsInv, Within, Tidy, Touched
<1>5. \A u \in done' : Holds(app, u)' /\ Holds(saved.app, u)'
  BY <1>1, <1>2 DEF EditsInv, Holds, Overwritten, SameLayer
<1>. QED
  BY <1>2, <1>3, <1>4, <1>5 DEF EditsInv, Within

LEMMA EditsInvStep ==
    ASSUME TreeInv, [Next]_vars
    PROVE  EditsInv'
<1>1. CASE Merge
  BY <1>1, MergeKeeps DEF Merge
<1>2. CASE Retry \/ Crash
  BY <1>2, NoEdit, RestartKeeps DEF Retry, Crash, history
<1>3. CASE \E t \in Tasks : Agent(t)
  BY <1>3, SerialKeeps, Attempt DEF Agent
<1>. QED
  BY <1>1, <1>2, <1>3, NoEdit DEF Next, Runner

\* Work in worktrees.
LEMMA WorktreeStays ==
    ASSUME Trees, NEW v \in Tasks \ done, Worktree(v), UNCHANGED <<plan, done, par, wrote>>,
           \A f \in Files : wt[v][f] \subseteq wt'[v][f] /\ wt'[v][f] \subseteq wt[v][f] \cup {v}
    PROVE  Worktree(v)'
<1>1. Within(wt[v], done \cup {v})'
  BY DEF Worktree, Within
<1>2. \A u \in done, f \in Files : u \in wt'[v][f] <=> u \in wt[v][f]
  OBVIOUS
<1>3. Tidy(wt[v])'
  BY <1>2 DEF Worktree, Tidy, Touched, Owned, Trees
<1>4. ASSUME NEW u \in done
      PROVE  (Holds(wt[v], u) \/ Behind(u, v))'
  <2>1. Behind(u, v) => Behind(u, v)'
    BY DEF Behind, SameLayer
  <2>2. \A f : Overwritten(u, f) => Overwritten(u, f)'
    BY OverwrittenStays
  <2>3. wrote[u] \subseteq Files
    BY <1>4 DEF Trees
  <2>4. Holds(wt[v], u) => Holds(wt[v], u)'
    BY <1>2, <1>4, <2>2, <2>3 DEF Holds
  <2>. QED
    BY <1>4, <2>1, <2>4 DEF Worktree
<1>. QED
  BY <1>1, <1>3, <1>4 DEF Worktree

\* The merge of t: the worktrees of the screens after it lack its work.
LEMMA WorktreesMerge ==
    ASSUME TreeInv, NEW t \in In("ok"), PoolDone, UNCHANGED <<plan, layers, layer>>,
           IsLeast(t, In("ok")), app' = Merged(t), head' = app', Complete(t),
           wrote' = [wrote EXCEPT ![t] = Touched(wt[t], t) \cap Owned(t)],
           par' = par \cup {t}, th' = [th EXCEPT ![t] = "none"], wt' = [wt EXCEPT ![t] = Empty]
    PROVE  WorktreesInv'
<1>0. /\ RunInv /\ LayersInv /\ Trees /\ t \in Tasks /\ pc = "pool" /\ th \in [Tasks -> Stages]
      /\ \A v \in In("ok") : Worktree(v)
      /\ par \subseteq done /\ done \subseteq Tasks
  BY DEF TreeInv, EditsInv, WorktreesInv, PoolDone, In, Trees, RunInv, Types
<1>1. \A v \in In("ok") : v \in Layer /\ v \notin done
  BY <1>0 DEF RunInv, Threads, Pending, In
<1>2. done' = done \cup {t} /\ \A u \in done : wrote'[u] = wrote[u]
  BY <1>0, <1>1 DEF Complete, Trees
<1>3. ASSUME NEW v \in (In("building") \cup In("ok"))'
      PROVE  Worktree(v)'
  <2>1. v \in In("ok") /\ v # t /\ v \in Tasks
    BY <1>0, <1>3 DEF PoolDone, In
  <2>2. t < v
    BY <1>0, <2>1, PlansAssumption DEF IsLeast, PlansAssumption, Tasks
  <2>3. wt'[v] = wt[v] /\ Worktree(v)
    BY <1>0, <2>1 DEF Trees
  <2>4. Within(wt[v], done \cup {v})'
    BY <1>2, <2>3 DEF Worktree, Within
  <2>5. Tidy(wt[v])'
    <3>1. \A f \in Files : t \notin wt[v][f]
      BY <1>1, <2>1, <2>3 DEF Worktree, Within
    <3>. QED
      BY <2>3, <3>1 DEF Worktree, Tidy, Touched, Owned
  <2>6. ASSUME NEW u \in done'
        PROVE  (Holds(wt[v], u) \/ Behind(u, v))'
    <3>1. CASE u = t
      <4>1. layer \in 1..N /\ {t, v} \subseteq TopoLayers(plan.deps)[layer]
        BY <1>0, <1>1, <2>1, LayerOfPlan
      <4>2. SameLayer(t, v)'
        BY <4>1 DEF SameLayer
      <4>. QED
        BY <2>2, <3>1, <4>2 DEF Behind
    <3>2. CASE u \in done
      <4>1. \A f : Overwritten(u, f) => Overwritten(u, f)'
        BY OverwrittenStays
      <4>2. Holds(wt[v], u) => Holds(wt[v], u)'
        BY <1>2, <2>3, <3>2, <4>1 DEF Holds
      <4>3. Behind(u, v) => Behind(u, v)'
        BY DEF Behind, SameLayer
      <4>. QED
        BY <2>3, <3>2, <4>2, <4>3 DEF Worktree
    <3>. QED
      BY <1>2, <3>1, <3>2
  <2>. QED
    BY <2>4, <2>5, <2>6 DEF Worktree
<1>. QED
  BY <1>3 DEF WorktreesInv

\* The other steps in the pool.
LEMMA WorktreesEdit ==
    ASSUME TreeInv, pc = "pool", NEW t \in Pending, UNCHANGED <<plan, app, head, done, par, wrote>>,
           \A u \in Tasks : u # t => wt'[u] = wt[u] /\ th'[u] = th[u],
           t \in (In("building") \cup In("ok"))' =>
               \/ wt'[t] = head
               \/ /\ t \in In("building")
                  /\ \A f \in Files : wt[t][f] \subseteq wt'[t][f] /\ wt'[t][f] \subseteq wt[t][f] \cup {t}
    PROVE  WorktreesInv'
<1>0. /\ RunInv /\ LayersInv /\ EditsInv /\ Trees /\ Pending \subseteq Tasks \ done
      /\ head = app /\ \A v \in In("building") \cup In("ok") : Worktree(v)
  BY LayerOfPlan DEF TreeInv, EditsInv, WorktreesInv, Pending
<1>1. ASSUME NEW v \in (In("building") \cup In("ok"))'
      PROVE  Worktree(v)'
  <2>1. v \in Tasks
    BY <1>1 DEF In
  <2>2. CASE v # t
    <3>1. v \in In("building") \cup In("ok") /\ wt'[v] = wt[v]
      BY <1>1, <2>1, <2>2 DEF In
    <3>2. v \in Tasks \ done
      BY <1>0, <3>1 DEF RunInv, Threads, In
    <3>. QED
      BY <1>0, <3>1, <3>2, WorktreeStays
  <2>3. CASE v = t /\ wt'[t] = head
    <3>1. wt'[t] = app
      BY <1>0, <2>3
    <3>2. Within(app, done) /\ Tidy(app) /\ \A u \in done : Holds(app, u)
      BY <1>0, NothingBegun DEF EditsInv
    <3>3. Within(wt[t], done \cup {t})' /\ Tidy(wt[t])'
      BY <3>1, <3>2 DEF Within, Tidy, Touched, Owned
    <3>4. \A u \in done' : Holds(wt[t], u)'
      BY <3>1, <3>2 DEF Holds, Overwritten, SameLayer
    <3>. QED
      BY <2>3, <3>3, <3>4 DEF Worktree
  <2>4. CASE v = t /\ wt'[t] # head
    <3>1. Worktree(t) /\ t \in Tasks \ done
      BY <1>0, <1>1, <2>4
    <3>. QED
      BY <1>0, <1>1, <2>4, <3>1, WorktreeStays
  <2>. QED
    BY <2>2, <2>3, <2>4
<1>. QED
  BY <1>0, <1>1 DEF WorktreesInv

LEMMA WorktreesInvStep ==
    ASSUME TreeInv, [Next]_vars
    PROVE  WorktreesInv'
<1>0. RunInv /\ EditsInv /\ wt \in [Tasks -> Tree] /\ th \in [Tasks -> Stages]
  BY DEF TreeInv, EditsInv, Trees, RunInv, Types
<1>1. CASE Start \/ EnterLayer \/ StartSerial \/ NextLayer \/ EndPool \/ Finish \/ Retry \/ Crash
  BY <1>1 DEF Start, EnterLayer, StartSerial, NextLayer, EndPool, Finish, Retry, Crash, WorktreesInv
<1>2. CASE StartPool
  <2>1. pc' = "pool" => head' = app' /\ (In("building") \cup In("ok"))' = {}
    BY <1>2 DEF StartPool, In
  <2>. QED
    BY <2>1 DEF WorktreesInv
<1>3. CASE AddWorktree
  <2>1. PICK t \in In("waiting") :
           \/ wt' = [wt EXCEPT ![t] = head] /\ th' = [th EXCEPT ![t] = "building"]
           \/ wt' = wt /\ th' = [th EXCEPT ![t] = "failed"]
    BY <1>3 DEF AddWorktree
  <2>2. pc = "pool" /\ UNCHANGED <<plan, app, head, done, par, wrote>>
    BY <1>3 DEF AddWorktree, history
  <2>3. t \in Pending /\ t \in Tasks
    BY <1>0, <2>2 DEF RunInv, Threads, In
  <2>4. \A u \in Tasks : u # t => wt'[u] = wt[u] /\ th'[u] = th[u]
    BY <1>0, <2>1
  <2>5. t \in (In("building") \cup In("ok"))' => wt'[t] = head
    BY <1>0, <2>1, <2>3 DEF In
  <2>. QED
    BY <2>2, <2>3, <2>4, <2>5, WorktreesEdit
<1>4. CASE Merge
  BY <1>4, WorktreesMerge DEF Merge
<1>5. ASSUME NEW t \in Tasks, Agent(t)
      PROVE  WorktreesInv'
  <2>1. CASE pc = "pool"
    <3>1. ~SerialDone(t) /\ UNCHANGED <<plan, app, head, done, par, wrote>> /\ th[t] = "building"
      BY <1>5, <2>1 DEF Agent, SerialDone, ScreenDone, AttemptFails, TimesOut, history
    <3>2. t \in Pending
      BY <1>0, <2>1, <3>1 DEF RunInv, Threads
    <3>3. \A u \in Tasks : u # t => wt'[u] = wt[u] /\ th'[u] = th[u]
      BY <1>0, <1>5, <3>1 DEF Agent, ScreenDone, AttemptFails, TimesOut, GiveUp
    <3>4. \A f \in Files : wt[t][f] \subseteq wt'[t][f] /\ wt'[t][f] \subseteq wt[t][f] \cup {t}
      <4>1. wt[t] \in Tree
        BY <1>0
      <4>2. wt'[t] = wt[t] \/ \E F : wt'[t] = Edited(wt[t], t, F)
        BY <1>0, <1>5, <2>1, <3>1 DEF Agent, ScreenDone, AttemptFails, TimesOut
      <4>. QED
        BY <4>1, <4>2, EditedTree
    <3>. QED
      BY <2>1, <3>1, <3>2, <3>3, <3>4, WorktreesEdit DEF In
  <2>2. CASE pc # "pool"
    <3>1. pc' # "pool"
      BY <1>0, <1>5, <2>2 DEF Agent, SerialDone, ScreenDone, AttemptFails, TimesOut, GiveUp
    <3>. QED
      BY <3>1 DEF WorktreesInv
  <2>. QED
    BY <2>1, <2>2
<1>6. CASE UNCHANGED vars
  <2>1. UNCHANGED <<plan, app, head, wt, wrote, par, done, th, pc>>
    BY <1>6 DEF vars, memory, history
  <2>. QED
    BY <2>1 DEF TreeInv, WorktreesInv, Worktree, Within, Tidy, Touched, Holds, Overwritten, SameLayer,
       Behind, In
<1>. QED
  BY <1>1, <1>2, <1>3, <1>4, <1>5, <1>6 DEF Next, Runner

LEMMA TreeInvInit == Init => TreeInv
<1> SUFFICES ASSUME Init PROVE TreeInv
  OBVIOUS
<1>1. Empty \in Tree /\ \A S : Within(Empty, S)
  BY DEF Empty, Tree, Within
<1>2. Trees /\ done = {} /\ par = {} /\ app = Empty /\ saved.app = Empty /\ pc = "start"
  BY <1>1 DEF Init, Trees
<1>3. EditsInv /\ WorktreesInv
  BY <1>1, <1>2 DEF EditsInv, WorktreesInv, Tidy
<1>. QED
  BY <1>3, RunInvInit, LayersInvInit DEF TreeInv

LEMMA TreeInvStep ==
    ASSUME TreeInv, [Next]_vars
    PROVE  TreeInv'
  BY RunInvStep, LayersInvStep, EditsInvStep, WorktreesInvStep DEF TreeInv

(***************************************************************************)
(* The theorems about the trees.                                           *)
(***************************************************************************)

\* For every plan, any number of threads, attempts, failures and restarts: the app and
\* the checkpoint hold what every finished task has delivered, except a screen's copy of
\* the assets that a later merge of its layer has replaced; and nothing that a screen has
\* written outside its own paths reaches them.
THEOREM EditsStayed == Spec => []EditsKept
<1>1. TreeInv => EditsKept
  BY DEF TreeInv, RunInv, SavedIsDone, EditsInv, Tidy, EditsKept
<1>. QED
  BY <1>1, TreeInvInit, TreeInvStep, PTL DEF Spec

\* An agent, in flutter_app or in a worktree, starts on the work of all tasks its task
\* depends on: a screen that is merged behind its back is of its own layer, so that
\* nothing in the layer depends on it.
THEOREM DepsThere == Spec => []DepsBuilt
<1>1. TreeInv => DepsBuilt
  <2> SUFFICES ASSUME TreeInv, NEW t \in In("building"), NEW d \in plan.deps[t]
               PROVE  d \in done /\ Holds(IF pc = "pool" THEN wt[t] ELSE app, d)
    BY DEF DepsBuilt
  <2>0. RunInv /\ LayersInv /\ EditsInv /\ t \in Tasks /\ th[t] = "building" /\ pc \in {"layer", "pool"}
    BY DEF TreeInv, In, RunInv, Threads, Types
  <2>1. /\ N \in Nat /\ layer \in 1..N /\ layers = TopoLayers(plan.deps)
        /\ Layer = TopoLayers(plan.deps)[layer] /\ Pending \subseteq Layer
    BY <2>0, LayerOfPlan
  <2>2. t \in TopoLayers(plan.deps)[layer]
    BY <2>0, <2>1, SerialTask DEF RunInv, Threads
  <2>3. Layered(TopoLayers(plan.deps), plan.deps)
    BY TopoLayered
  <2>4. PICK m \in 1..(layer - 1) : d \in TopoLayers(plan.deps)[m]
    BY <2>1, <2>2, <2>3 DEF Layered
  <2>5. d \in done
    BY <2>0, <2>1, <2>4 DEF RunInv, Below
  <2>6. CASE pc = "layer"
    BY <2>0, <2>5, <2>6 DEF EditsInv
  <2>7. CASE pc = "pool"
    <3>1. ~Behind(d, t)
      <4>1. SUFFICES ASSUME Behind(d, t) PROVE FALSE
        OBVIOUS
      <4>2. PICK n \in 1..N : {d, t} \subseteq TopoLayers(plan.deps)[n]
        BY <4>1 DEF Behind, SameLayer
      <4>3. m \in 1..N /\ m # layer
        BY <2>1, <2>4
      <4>4. n = m
        BY <2>3, <2>4, <4>2, <4>3 DEF Layered
      <4>5. n = layer
        BY <2>1, <2>2, <2>3, <4>2 DEF Layered
      <4>. QED
        BY <4>3, <4>4, <4>5
    <3>2. Worktree(t)
      BY <2>7 DEF TreeInv, WorktreesInv
    <3>. QED
      BY <2>5, <2>7, <3>1, <3>2 DEF Worktree
  <2>. QED
    BY <2>0, <2>6, <2>7
<1>. QED
  BY <1>1, TreeInvInit, TreeInvStep, PTL DEF Spec

(***************************************************************************)
(* The types.                                                              *)
(***************************************************************************)

\* What TreeInv leaves open of TypeOK.
RestTyped ==
    /\ plan \in [deps : [Tasks -> SUBSET Tasks], screens : SUBSET Tasks]
    /\ head \in Tree /\ saved \in [done : SUBSET Tasks, app : Tree]
    /\ tries \in [Tasks -> 0..(MaxAttempts - 1)]
    /\ retries \in 0..MaxRetries /\ failures \in 0..MaxFailures /\ crashes \in 0..MaxCrashes

LEMMA RestTypedStep ==
    ASSUME TreeInv, TreeInv', RestTyped, [Next]_vars
    PROVE  RestTyped'
<1> USE DEF RestTyped
<1>1. app \in Tree /\ app' \in Tree /\ done' \subseteq Tasks /\ Empty \in Tree
  BY DEF TreeInv, EditsInv, Trees, RunInv, Types, Empty, Tree
<1>2. /\ MaxRetries \in Nat /\ MaxFailures \in Nat /\ MaxCrashes \in Nat
      /\ MaxAttempts \in Nat \ {0} /\ 0 \in 0..(MaxAttempts - 1)
  BY BoundsAssumption DEF BoundsAssumption
<1>3. Misfortune => failures' \in 0..MaxFailures
  BY <1>2 DEF Misfortune
<1>4. CASE Start \/ EnterLayer \/ StartSerial \/ StartPool \/ NextLayer \/ EndPool \/ Finish
  BY <1>1, <1>4 DEF Start, EnterLayer, StartSerial, StartPool, NextLayer, EndPool, Finish,
     memory, history, harm
<1>5. CASE AddWorktree
  BY <1>3, <1>5 DEF AddWorktree, history
<1>6. ASSUME NEW t \in Tasks, SerialDone(t) \/ ScreenDone(t)
      PROVE  RestTyped'
  BY <1>1, <1>2, <1>6 DEF SerialDone, ScreenDone, Complete, history, harm
<1>7. ASSUME NEW t \in Tasks, AttemptFails(t) \/ TimesOut(t)
      PROVE  RestTyped'
  <2>1. UNCHANGED <<plan, head, saved, retries, crashes>> /\ Misfortune
    BY <1>7 DEF AttemptFails, TimesOut, history
  <2>2. tries' \in [Tasks -> 0..(MaxAttempts - 1)]
    <3>1. tries' = [tries EXCEPT ![t] = @ + 1] => tries' = [tries EXCEPT ![t] = tries[t] + 1]
      OBVIOUS
    <3>2. \/ tries[t] + 1 < MaxAttempts /\ tries' = [tries EXCEPT ![t] = tries[t] + 1]
          \/ tries' = [tries EXCEPT ![t] = 0]
      BY <1>7, <3>1 DEF AttemptFails, TimesOut, GiveUp
    <3>3. tries[t] \in 0..(MaxAttempts - 1)
      BY <1>7
    <3>. QED
      BY <1>2, <3>2, <3>3
  <2>. QED
    BY <1>3, <2>1, <2>2
<1>8. CASE Merge
  BY <1>1, <1>8 DEF Merge, Complete, harm
<1>9. CASE Retry \/ Crash
  BY <1>1, <1>2, <1>9 DEF Retry, Crash, Reload, memory, history
<1>10. CASE UNCHANGED vars
  BY <1>10 DEF vars, memory, harm
<1>. QED
  BY <1>4, <1>5, <1>6, <1>7, <1>8, <1>9, <1>10 DEF Next, Runner, Agent

\* For every plan and all bounds the variables have their types: no task is tried more
\* often than codegen_task_max_attempts, no message retried more often than its limit, and
\* the layers never run out under the loop over them.
THEOREM TypeCorrect == Spec => []TypeOK
<1>1. Init => RestTyped
  <2> SUFFICES ASSUME Init PROVE RestTyped
    OBVIOUS
  <2>1. Empty \in Tree
    BY DEF Empty, Tree
  <2>. QED
    BY <2>1, PlansAssumption, BoundsAssumption DEF Init, RestTyped, PlansAssumption, BoundsAssumption
<1>2. TreeInv /\ RestTyped => TypeOK
  BY DEF TreeInv, RunInv, Types, Stages, EditsInv, Trees, RestTyped, TypeOK
<1>. QED
  BY <1>1, <1>2, TreeInvInit, TreeInvStep, RestTypedStep, PTL DEF Spec
===============================================================================
