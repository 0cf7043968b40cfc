----------------------- MODULE CodegenCheckpoint_proofs -----------------------
(***************************************************************************)
(* For any plan length, any task order, any number of retries, crashes and *)
(* torn saves: the state is well typed, a torn save costs the checkpoint   *)
(* and the delivered app at most one task each, and only a torn save or a  *)
(* failed download loses progress or builds a task twice.  Without those   *)
(* the worker resumes exactly as ResumableBuild says.                      *)
(***************************************************************************)
EXTENDS CodegenCheckpoint, FiniteSetTheorems, TLAPS

(***************************************************************************)
(* Type correctness.                                                       *)
(***************************************************************************)

\* The variables of the model keep the types its comments give them; a worker
\* past load has a task plan, whichever way it got one.
THEOREM TypeCorrect == Spec => []TypeOK
<1> USE PlansAssumption DEF PlansAssumption
<1>b. /\ MaxRetries \in Nat /\ MaxFailures \in Nat /\ MaxCrashes \in Nat
      /\ MaxTears \in Nat /\ MaxBotched \in Nat /\ MaxMisreads \in Nat
      /\ MaxEnqueues \in Nat
  BY BoundsAssumption DEF BoundsAssumption
<1>1. Init => TypeOK
  <2> SUFFICES ASSUME Init PROVE TypeOK
    OBVIOUS
  <2>1. pc \in Pcs /\ pc \notin Working /\ analysis \in Analyses /\ turned \in BOOLEAN
    BY DEF Init, Pcs, Working, SaveWindow, ClearSteps
  <2>2. /\ {} \in SUBSET Tasks /\ {} \in SUBSET Works
    OBVIOUS
  <2>3. /\ 0 \in 0..MaxRetries /\ 0 \in 0..MaxFailures /\ 0 \in 0..MaxCrashes
        /\ 0 \in 0..MaxTears /\ 0 \in 0..MaxBotched /\ 0 \in 0..MaxMisreads
        /\ 0 \in 0..MaxEnqueues
    BY <1>b
  <2>. QED
    BY <2>1, <2>2, <2>3 DEF Init, TypeOK
<1>2. TypeOK /\ [Next]_vars => TypeOK'
  <2> SUFFICES ASSUME TypeOK, [Next]_vars PROVE TypeOK'
    OBVIOUS
  <2> USE <1>b DEF TypeOK, Tasks, Works, Pcs, Analyses, Working, SaveWindow, ClearSteps, storage,
              row, inputs, broker, memory, harm, LoseMemory
  <2>1. CASE Deliver
    BY <2>1 DEF Deliver
  <2>2. CASE SkipExisting
    BY <2>2 DEF SkipExisting
  <2>3. CASE Ack
    BY <2>3 DEF Ack
  <2>4. CASE Enqueue
    BY <2>4 DEF Enqueue
  <2>5. CASE LoadNothing
    BY <2>5 DEF LoadNothing, Begin
  <2>6. CASE MisreadProgress
    BY <2>6 DEF MisreadProgress, Begin
  <2>7. CASE LoadCheckpoint
    BY <2>7 DEF LoadCheckpoint, Begin
  <2>8. CASE MisreadWorkspace
    BY <2>8 DEF MisreadWorkspace, Begin
  <2>9. CASE LoadRaises
    BY <2>9 DEF LoadRaises, Raise
  <2>10. CASE SaveProgress
    BY <2>10 DEF SaveProgress
  <2>11. CASE SaveTasks
    BY <2>11 DEF SaveTasks
  <2>12. CASE SaveWorkspace
    BY <2>12 DEF SaveWorkspace
  <2>13. CASE PutFails
    BY <2>13 DEF PutFails
  <2>14. ASSUME NEW t \in Tasks, RunTask(t) PROVE TypeOK'
    BY <2>14 DEF RunTask
  <2>15. CASE AttemptFails
    BY <2>15 DEF AttemptFails, Raise
  <2>16. CASE CheckPasses
    BY <2>16 DEF CheckPasses
  <2>17. CASE CheckFails
    BY <2>17 DEF CheckFails, Raise
  <2>18. CASE DeleteObject
    BY <2>18 DEF DeleteObject, AfterClear
  <2>19. CASE DeleteFails
    BY <2>19 DEF DeleteFails, AfterClear
  <2>20. CASE Publish
    BY <2>20 DEF Publish
  <2>21. CASE Crash
    BY <2>21 DEF Crash
  <2>22. CASE UNCHANGED vars
    BY <2>22 DEF vars
  <2>23. CASE NoWalkthrough
    BY <2>23 DEF NoWalkthrough
  <2>24. CASE ReadAnalysis
    BY <2>24 DEF ReadAnalysis
  <2>25. CASE NoSpec
    BY <2>25 DEF NoSpec
  <2>26. CASE AnalysisGoesOn
    BY <2>26 DEF AnalysisGoesOn
  <2>. QED
    BY <2>1, <2>2, <2>3, <2>4, <2>5, <2>6, <2>7, <2>8, <2>9, <2>10, <2>11, <2>12, <2>13,
       <2>14, <2>15, <2>16, <2>17, <2>18, <2>19, <2>20, <2>21, <2>22, <2>23, <2>24, <2>25, <2>26
    DEF Next, Worker, Start, Load, Save, Tasked, Finish
<1>. QED
  BY <1>1, <1>2, PTL DEF Spec

-----------------------------------------------------------------------------
(***************************************************************************)
(* Counting missing works.                                                 *)
(***************************************************************************)

LEMMA CardBound ==
    ASSUME NEW S \in SUBSET Tasks, NEW T \in SUBSET S
    PROVE  /\ Cardinality(T) \in Nat
           /\ Cardinality(T) <= Cardinality(S)
           /\ \A t \in Tasks : Cardinality(S \cup {t}) <= Cardinality(S) + 1
<1>1. IsFiniteSet(Tasks)
  BY NAssumption, FS_Interval DEF NAssumption, Tasks
<1>2. IsFiniteSet(S) /\ IsFiniteSet(T)
  BY <1>1, FS_Subset
<1>3. Cardinality(S) \in Nat /\ Cardinality(T) \in Nat
  BY <1>2, FS_CardinalityType
<1>4. Cardinality(T) <= Cardinality(S)
  BY <1>2, FS_Subset
<1>5. ASSUME NEW t \in Tasks PROVE Cardinality(S \cup {t}) <= Cardinality(S) + 1
  <2>1. Cardinality(S \cup {t}) = IF t \in S THEN Cardinality(S) ELSE Cardinality(S) + 1
    BY <1>2, FS_AddElement
  <2>. QED
    BY <2>1, <1>3
<1>. QED
  BY <1>3, <1>4, <1>5

\* A task set misses at most its own size, nothing at all when it is empty, and
\* the plan does not matter when there are no works.
LEMMA MissingBasics ==
    ASSUME NEW S \in SUBSET Tasks, NEW p, NEW W
    PROVE  /\ Missing(S, p, W) \in SUBSET Tasks
           /\ Cardinality(Missing(S, p, W)) \in Nat
           /\ Cardinality(Missing(S, p, W)) <= Cardinality(Missing(S, p, {}))
           /\ Missing(S, p, {}) = S
<1>1. Missing(S, p, W) \in SUBSET S /\ Missing(S, p, {}) = S
  BY DEF Missing
<1>. QED
  BY <1>1, CardBound

LEMMA NoneMissing == \A p, W : Missing({}, p, W) = {} /\ Cardinality({}) = 0
  BY FS_EmptySet DEF Missing

\* Doing a task adds no missing work to the workspace that receives its work,
\* and at most one to any other.
LEMMA MissingAfterTask ==
    ASSUME NEW S \in SUBSET Tasks, NEW t \in Tasks, NEW p, NEW W
    PROVE  /\ Cardinality(Missing(S \cup {t}, p, W \cup {<<p, t>>}))
                  <= Cardinality(Missing(S, p, W))
           /\ Cardinality(Missing(S \cup {t}, p, W)) <= Cardinality(Missing(S, p, W)) + 1
<1>1. Missing(S, p, W) \in SUBSET Tasks
  BY MissingBasics
<1>2. Missing(S \cup {t}, p, W \cup {<<p, t>>}) \in SUBSET Missing(S, p, W)
  BY DEF Missing
<1>3. Missing(S \cup {t}, p, W) \in SUBSET (Missing(S, p, W) \cup {t})
  BY DEF Missing
<1>4. (Missing(S, p, W) \cup {t}) \in SUBSET Tasks
  BY <1>1
<1>5. /\ Cardinality(Missing(S, p, W)) \in Nat
      /\ Cardinality(Missing(S, p, W) \cup {t}) <= Cardinality(Missing(S, p, W)) + 1
      /\ Cardinality(Missing(S \cup {t}, p, W)) \in Nat
      /\ Cardinality(Missing(S, p, W) \cup {t}) \in Nat
      /\ Cardinality(Missing(S \cup {t}, p, W)) <= Cardinality(Missing(S, p, W) \cup {t})
  BY <1>1, <1>3, <1>4, CardBound
<1>6. Cardinality(Missing(S \cup {t}, p, W \cup {<<p, t>>}))
          <= Cardinality(Missing(S, p, W))
  BY <1>1, <1>2, CardBound
<1>. QED
  BY <1>5, <1>6

-----------------------------------------------------------------------------
(***************************************************************************)
(* The inductive invariant.                                                *)
(***************************************************************************)

LEMMA InitInv == Init => CheckpointInv
  BY NoneMissing DEF Init, CheckpointInv, OnlyTears, StoreAgrees, MemoryLossBounded,
     CheckpointLossBounded, DeliveryLossBounded, OnePlanDelivered, StoreHoles, ResultHoles,
     Missing, Working, SaveWindow, ClearSteps

LEMMA StepInv == TypeOK /\ TypeOK' /\ CheckpointInv /\ [Next]_vars => CheckpointInv'
<1> SUFFICES ASSUME TypeOK, TypeOK', CheckpointInv, [Next]_vars
             PROVE  CheckpointInv'
  OBVIOUS
<1>0. /\ progress \in SUBSET Tasks /\ completed \in SUBSET Tasks
      /\ tears \in Nat /\ Tasks \in SUBSET Tasks
  BY BoundsAssumption DEF TypeOK, BoundsAssumption
<1>f. /\ Cardinality(Missing(completed, plan, built)) \in Nat
      /\ Cardinality(Missing(completed, plan, wsObj)) \in Nat
      /\ Cardinality(Missing(completed, plan, built)) <= Cardinality(completed)
      /\ Cardinality(Missing(completed, plan, wsObj)) <= Cardinality(completed)
      /\ Missing(completed, plan, {}) = completed
      /\ Missing(completed, planObj, {}) = completed
      /\ Cardinality(StoreHoles) \in Nat /\ Cardinality(ResultHoles) \in Nat
      /\ Cardinality({}) = 0
  BY <1>0, MissingBasics, NoneMissing DEF StoreHoles, ResultHoles
<1> USE <1>0 DEF CheckpointInv, OnlyTears, StoreAgrees, MemoryLossBounded,
     CheckpointLossBounded, DeliveryLossBounded, OnePlanDelivered, StoreHoles, ResultHoles,
     Working, SaveWindow, ClearSteps, storage, row, broker, memory, harm, LoseMemory
<1>1. CASE Deliver
  BY <1>1 DEF Deliver
<1>2. CASE SkipExisting
  BY <1>2 DEF SkipExisting
<1>3. CASE Ack
  BY <1>3 DEF Ack
<1>4. CASE Enqueue
  BY <1>4 DEF Enqueue
<1>5. CASE LoadNothing
  BY <1>5, NoneMissing DEF LoadNothing, Begin
<1>6. CASE MisreadProgress
  BY <1>6 DEF MisreadProgress, Begin, TypeOK
<1>7. CASE LoadCheckpoint
  <2>1. /\ pc = "load" /\ hasProgress /\ planObj # NoPlan /\ pc' = "saveProgress"
        /\ plan' = planObj /\ completed' = progress /\ built' = wsObj
        /\ UNCHANGED <<storage, row, tears, botched, misreads>>
    BY <1>7 DEF LoadCheckpoint, Begin
  <2>2. StoreHoles = Missing(progress, planObj, wsObj) BY <2>1
  <2>. QED
    BY <2>1, <2>2, <1>f
<1>8. CASE MisreadWorkspace
  BY <1>8 DEF MisreadWorkspace, Begin, TypeOK
<1>9. CASE LoadRaises
  BY <1>9 DEF LoadRaises, Raise
<1>10. CASE SaveProgress
  BY <1>10, <1>f DEF SaveProgress
<1>11. CASE SaveTasks
  BY <1>11, <1>f DEF SaveTasks
<1>12. CASE SaveWorkspace
  <2>1. /\ pc = "saveWorkspace" /\ pc' = "run" /\ wsObj' = IF built = {} THEN wsObj ELSE built
        /\ UNCHANGED <<hasProgress, progress, planObj, row, memory, tears, botched, misreads>>
    BY <1>12 DEF SaveWorkspace
  <2>2. CASE built = {}
    BY <2>1, <2>2, <1>f
  <2>3. CASE built # {}
    BY <2>1, <2>3, <1>f
  <2>. QED
    BY <2>2, <2>3
<1>13. CASE PutFails
  <2> SUFFICES ASSUME OnlyTears PROVE CheckpointInv'
    BY <1>13 DEF PutFails
  <2>1. tears' = tears + 1 /\ pc' = "run" /\ UNCHANGED <<storage, row, memory, botched, misreads>>
    BY <1>13 DEF PutFails
  <2>2. CASE pc = "saveProgress"
    BY <2>1, <2>2, <1>f
  <2>3. CASE pc \in SaveWindow
    <3>1. Cardinality(StoreHoles) <= tears + 1
      BY <2>3, <1>f
    <3>. QED
      BY <2>1, <2>3, <3>1, <1>f
  <2>. QED
    BY <1>13, <2>2, <2>3 DEF PutFails
<1>14. ASSUME NEW t \in Tasks, RunTask(t) PROVE CheckpointInv'
  <2>1. /\ Cardinality(Missing(completed', plan', built'))
               <= Cardinality(Missing(completed, plan, built))
        /\ Cardinality(Missing(completed', plan', wsObj'))
               <= Cardinality(Missing(completed, plan, wsObj)) + 1
    BY <1>14, MissingAfterTask DEF RunTask
  <2>2. /\ Cardinality(Missing(completed', plan', built')) \in Nat
        /\ Cardinality(Missing(completed', plan', wsObj')) \in Nat
    BY MissingBasics DEF TypeOK
  <2>. QED
    BY <1>14, <1>f, <2>1, <2>2 DEF RunTask
<1>15. CASE AttemptFails
  BY <1>15 DEF AttemptFails, Raise
<1>16. CASE CheckPasses
  BY <1>16 DEF CheckPasses
<1>17. CASE CheckFails
  BY <1>17 DEF CheckFails, Raise
<1>18. CASE DeleteObject
  <2>1. CASE pc = "clearWorkspace"
    BY <1>18, <2>1 DEF DeleteObject, AfterClear
  <2>2. CASE pc = "clearProgress"
    <3>1. /\ ~hasProgress' /\ progress' = {} /\ pc' = "clearTasks"
          /\ UNCHANGED <<wsObj, planObj, row, memory, harm>>
      BY <1>18, <2>2 DEF DeleteObject, AfterClear
    <3>. QED
      BY <2>2, <3>1, <1>f
  <2>3. CASE pc = "clearTasks"
    BY <1>18, <2>3 DEF DeleteObject, AfterClear
  <2>. QED
    BY <1>18, <2>1, <2>2, <2>3 DEF DeleteObject
<1>19. CASE DeleteFails
  BY <1>19 DEF DeleteFails, AfterClear, TypeOK
<1>20. CASE Publish
  BY <1>20 DEF Publish
<1>21. CASE Crash
  <2>1. CASE pc \in SaveWindow
    <3>1. tears' = tears + 1 /\ UNCHANGED <<storage, row, botched, misreads>> /\ pc' = "idle"
      BY <1>21, <2>1 DEF Crash
    <3>2. OnlyTears => Cardinality(StoreHoles) <= tears + 1
      BY <2>1, <1>f
    <3>. QED
      BY <3>1, <3>2, <2>1, <1>f
  <2>2. CASE pc = "clearProgress"
    BY <1>21, <2>2 DEF Crash, TypeOK
  <2>3. CASE pc \notin SaveWindow \cup {"clearProgress"}
    BY <1>21, <2>3 DEF Crash
  <2>. QED
    BY <2>1, <2>2, <2>3
<1>22. CASE UNCHANGED vars
  BY <1>22 DEF vars
<1>23. CASE NoWalkthrough \/ ReadAnalysis \/ NoSpec \/ AnalysisGoesOn
  BY <1>23 DEF NoWalkthrough, ReadAnalysis, NoSpec, AnalysisGoesOn
<1>. QED
  BY <1>1, <1>2, <1>3, <1>4, <1>5, <1>6, <1>7, <1>8, <1>9, <1>10, <1>11, <1>12, <1>13,
     <1>14, <1>15, <1>16, <1>17, <1>18, <1>19, <1>20, <1>21, <1>22, <1>23
  DEF Next, Worker, Start, Load, Save, Tasked, Finish

\* The inductive invariant holds in every reachable state.
THEOREM CheckpointInvariant == Spec => []CheckpointInv
  BY TypeCorrect, InitInv, StepInv, PTL DEF Spec

\* However often the worker dies, retries or is delivered twice, the delivered
\* app misses at most one task per torn save and mixes no two plans, and between
\* saves progress.json is ahead of the archive by at most that many tasks.
THEOREM LossBounded ==
    Spec => [](CheckpointLossBounded /\ DeliveryLossBounded /\ OnePlanDelivered)
<1>1. CheckpointInv => CheckpointLossBounded /\ DeliveryLossBounded /\ OnePlanDelivered
  BY DEF CheckpointInv
<1>. QED
  BY CheckpointInvariant, <1>1, PTL

-----------------------------------------------------------------------------
(***************************************************************************)
(* Steps: what the objects and the row may never do.                       *)
(***************************************************************************)

\* The archive holds no work of a task that progress.json does not name yet, and
\* a runner that resumed from progress.json has at least what it names.
GrowInv ==
    OnlyTears =>
        /\ \A w \in wsObj : w[2] \in progress
        /\ pc \in Working => \A w \in built : w[2] \in completed
        /\ pc \in {"saveProgress", "run"} /\ hasProgress => progress \subseteq completed

\* An attempt that builds has found no row, and none can appear meanwhile.
RowInv == pc \in Working \cup {"read", "load"} => result = {}

LEMMA GrowStep == TypeOK /\ CheckpointInv /\ GrowInv /\ [Next]_vars => GrowInv'
<1> SUFFICES ASSUME TypeOK, CheckpointInv, GrowInv, [Next]_vars PROVE GrowInv'
  OBVIOUS
<1>0. OnlyTears => StoreAgrees BY DEF CheckpointInv
<1> USE DEF GrowInv, OnlyTears, Working, SaveWindow, ClearSteps, storage, row, broker, memory,
         harm, LoseMemory
<1>1. CASE Start \/ Ack \/ Enqueue \/ AnalysisGoesOn
  BY <1>1 DEF Start, Deliver, NoWalkthrough, SkipExisting, ReadAnalysis, NoSpec, Ack, Enqueue,
           AnalysisGoesOn
<1>2. CASE LoadNothing \/ LoadCheckpoint
  BY <1>0, <1>2 DEF LoadNothing, LoadCheckpoint, Begin, StoreAgrees
<1>3. CASE MisreadProgress \/ MisreadWorkspace \/ DeleteFails
  BY <1>3 DEF MisreadProgress, MisreadWorkspace, DeleteFails, TypeOK
<1>4. CASE LoadRaises \/ AttemptFails \/ CheckFails
  BY <1>4 DEF LoadRaises, AttemptFails, CheckFails, Raise
<1>5. CASE SaveProgress \/ SaveTasks \/ SaveWorkspace \/ PutFails
  BY <1>0, <1>5 DEF SaveProgress, SaveTasks, SaveWorkspace, PutFails, StoreAgrees
<1>6. ASSUME NEW t \in Tasks, RunTask(t) PROVE GrowInv'
  BY <1>6 DEF RunTask
<1>7. CASE CheckPasses \/ Publish
  BY <1>7 DEF CheckPasses, Publish
<1>8. CASE DeleteObject
  BY <1>0, <1>8 DEF DeleteObject, AfterClear, StoreAgrees
<1>9. CASE Crash
  <2>1. /\ UNCHANGED <<hasProgress, progress, wsObj, misreads>> /\ pc' = "idle"
        /\ botched' = 0 => botched = 0
    BY <1>9 DEF Crash, TypeOK
  <2> QED BY <2>1
<1>10. CASE UNCHANGED vars BY <1>10 DEF vars
<1> QED
  BY <1>1, <1>2, <1>3, <1>4, <1>5, <1>6, <1>7, <1>8, <1>9, <1>10
     DEF Next, Worker, Load, Save, Tasked, Finish

LEMMA RowStep == RowInv /\ [Next]_vars => RowInv'
<1> SUFFICES ASSUME RowInv, [Next]_vars PROVE RowInv' OBVIOUS
<1> USE DEF RowInv, Working, SaveWindow, ClearSteps, storage, row, LoseMemory
<1>1. CASE Start \/ Ack \/ Enqueue \/ AnalysisGoesOn
  BY <1>1 DEF Start, Deliver, NoWalkthrough, SkipExisting, ReadAnalysis, NoSpec, Ack, Enqueue,
           AnalysisGoesOn
<1>2. CASE Load
  BY <1>2 DEF Load, LoadNothing, LoadCheckpoint, MisreadProgress, MisreadWorkspace, LoadRaises,
              Begin, Raise
<1>3. CASE Save
  BY <1>3 DEF Save, SaveProgress, SaveTasks, SaveWorkspace, PutFails
<1>4. CASE Tasked \/ AttemptFails
  BY <1>4 DEF Tasked, RunTask, CheckPasses, CheckFails, AttemptFails, Raise
<1>5. CASE DeleteObject \/ DeleteFails \/ Publish
  BY <1>5 DEF DeleteObject, DeleteFails, AfterClear, Publish
<1>6. CASE Crash BY <1>6 DEF Crash
<1>7. CASE UNCHANGED vars BY <1>7 DEF vars
<1> QED BY <1>1, <1>2, <1>3, <1>4, <1>5, <1>6, <1>7 DEF Next, Worker, Finish

LEMMA GrowInit == Init => GrowInv /\ RowInv
BY DEF Init, GrowInv, RowInv, Working, SaveWindow, ClearSteps

\* Retries, redeliveries, crashes and torn saves never set the durable completed
\* set back: until the runner clears it, progress.json only grows.
THEOREM ProgressNeverLost == Spec => ProgressKept
<1>1. TypeOK /\ GrowInv /\ [Next]_vars
        => [OnlyTears' /\ hasProgress /\ pc \notin ClearSteps
              => hasProgress' /\ progress \subseteq progress']_vars
  <2> SUFFICES ASSUME TypeOK, GrowInv, Next, OnlyTears', hasProgress, pc \notin ClearSteps
               PROVE  hasProgress' /\ progress \subseteq progress'
    BY DEF vars
  <2> USE DEF storage, harm
  <2>1. CASE SaveProgress
    <3>1. OnlyTears BY <2>1 DEF SaveProgress, OnlyTears
    <3> QED BY <2>1, <3>1 DEF SaveProgress, GrowInv
  <2>2. CASE Start \/ Ack \/ Enqueue \/ AnalysisGoesOn \/ AttemptFails \/ Crash
    BY <2>2 DEF Start, Deliver, NoWalkthrough, SkipExisting, ReadAnalysis, NoSpec, Ack, Enqueue,
             AnalysisGoesOn, AttemptFails, Crash
  <2>3. CASE Load
    BY <2>3 DEF Load, LoadNothing, LoadCheckpoint, MisreadProgress, MisreadWorkspace, LoadRaises,
                Begin
  <2>4. CASE SaveTasks \/ SaveWorkspace \/ PutFails \/ Tasked \/ Publish
    BY <2>4 DEF SaveTasks, SaveWorkspace, PutFails, Tasked, RunTask, CheckPasses, CheckFails,
                Publish
  <2>5. ~DeleteObject /\ ~DeleteFails BY DEF DeleteObject, DeleteFails
  <2> QED BY <2>1, <2>2, <2>3, <2>4, <2>5 DEF Next, Worker, Save, Finish
<1> QED
  BY TypeCorrect, CheckpointInvariant, GrowInit, GrowStep, RowStep, <1>1, PTL
     DEF Spec, ProgressKept

\* The message may be delivered again after the commit, and another one may be
\* waiting: the app that is built is never built again.
THEOREM BuiltOnlyOnce == Spec => BuiltOnce
<1>1. RowInv /\ [Next]_vars => [result # {} => UNCHANGED row]_vars
  <2> SUFFICES ASSUME RowInv, Next, result # {} PROVE UNCHANGED row
    BY DEF vars
  <2>1. ~Publish BY DEF Publish, RowInv, Working
  <2> QED
    BY <2>1 DEF Next, Worker, Start, Load, Save, Tasked, Finish, Deliver, NoWalkthrough, SkipExisting,
         ReadAnalysis, NoSpec, AnalysisGoesOn, Ack, Enqueue,
         LoadNothing, LoadCheckpoint, MisreadProgress, MisreadWorkspace, LoadRaises, Begin,
         SaveProgress, SaveTasks, SaveWorkspace, PutFails, RunTask, CheckPasses, CheckFails,
         DeleteObject, DeleteFails, AttemptFails, Crash, row
<1> QED BY GrowInit, RowStep, <1>1, PTL DEF Spec, BuiltOnce

-----------------------------------------------------------------------------
(***************************************************************************)
(* The refinement of ResumableBuild.                                       *)
(***************************************************************************)

\* Saves, clears and reads are not interrupted.
Undisturbed == MaxTears = 0 /\ MaxBotched = 0 /\ MaxMisreads = 0

\* What an undisturbed checkpoint holds: every finished task but the newest one
\* can be restored, and from the last save on every one.
LEMMA Restored ==
    ASSUME Undisturbed, TypeOK, CheckpointInv, GrowInv
    PROVE  /\ OnlyTears /\ tears = 0 /\ StoreAgrees
           /\ pc \in Working => \A t \in completed : <<plan, t>> \in built
           /\ pc = "run" => \A t \in completed : <<plan, t>> \in wsObj
           /\ pc = "saveWorkspace" =>
                \A t, u \in completed : \/ t = u
                                        \/ <<plan, t>> \in wsObj \/ <<plan, u>> \in wsObj
           /\ pc \in ClearSteps \cup {"publish"} => completed = Tasks
<1>1. tears = 0 /\ OnlyTears BY DEF Undisturbed, TypeOK, OnlyTears
<1>2. StoreAgrees /\ MemoryLossBounded BY <1>1 DEF CheckpointInv
<1>3. completed \in SUBSET Tasks /\ IsFiniteSet(Tasks)
  BY NAssumption, FS_Interval DEF NAssumption, Tasks, TypeOK
<1>4. \A W : /\ Missing(completed, plan, W) \in SUBSET completed
             /\ IsFiniteSet(Missing(completed, plan, W))
             /\ Cardinality(Missing(completed, plan, W)) \in Nat
             /\ Cardinality(Missing(completed, plan, W)) <= 0
                  => Missing(completed, plan, W) = {}
  <2> TAKE W
  <2>1. Missing(completed, plan, W) \in SUBSET completed BY DEF Missing
  <2>2. IsFiniteSet(Missing(completed, plan, W)) BY <1>3, <2>1, FS_Subset
  <2> QED BY <2>1, <2>2, FS_CardinalityType, FS_EmptySet
<1>5. pc \in Working => Missing(completed, plan, built) = {}
  BY <1>1, <1>2, <1>4 DEF MemoryLossBounded
<1>6. pc = "run" => Missing(completed, plan, wsObj) = {}
  BY <1>1, <1>2, <1>4 DEF MemoryLossBounded
<1>7. ASSUME pc = "saveWorkspace", NEW t \in completed, NEW u \in completed, t # u,
             <<plan, t>> \notin wsObj, <<plan, u>> \notin wsObj
      PROVE  FALSE
  <2> DEFINE M == Missing(completed, plan, wsObj)
  <2>1. t \in M /\ u \in M BY <1>7 DEF Missing
  <2>2. Cardinality(M) <= 1 BY <1>1, <1>2, <1>7 DEF MemoryLossBounded, SaveWindow
  <2> HIDE DEF M
  <2>3. IsFiniteSet(M) /\ Cardinality(M) \in Nat BY <1>4 DEF M
  <2>4. /\ IsFiniteSet(M \ {t}) /\ Cardinality(M \ {t}) = Cardinality(M) - 1
    BY <2>1, <2>3, FS_RemoveElement
  <2>5. Cardinality(M \ {t}) = 0 BY <2>2, <2>3, <2>4, FS_CardinalityType
  <2>6. M \ {t} = {} BY <2>4, <2>5, FS_EmptySet
  <2> QED BY <1>7, <2>1, <2>6
<1>8. pc \in ClearSteps \cup {"publish"} => completed = Tasks
  BY <1>2 DEF MemoryLossBounded
<1> QED BY <1>1, <1>2, <1>5, <1>6, <1>7, <1>8 DEF Missing

\* The attempt has passed the final check of the app.
Passed == pc \in ClearSteps \cup {"publish"}

LEMMA Stutters ==
    ASSUME UNCHANGED <<storage, row>>, Passed' = Passed
    PROVE  UNCHANGED Abstract!vars
<1>1. UNCHANGED <<hasProgress, progress, planObj, wsObj, result, resultPlan>>
  BY DEF storage, row
<1>2. Restorable' = Restorable BY <1>1 DEF Restorable
<1> QED BY <1>1, <1>2 DEF Abstract!vars, Passed

\* The attempt that held the complete app ends without a row.
LEMMA Loses ==
    ASSUME UNCHANGED <<storage, row>>, Passed, ~Passed'
    PROVE  Abstract!Lose
<1>1. UNCHANGED <<hasProgress, progress, planObj, wsObj, result, resultPlan>>
  BY DEF storage, row
<1>2. Restorable' = Restorable BY <1>1 DEF Restorable
<1>3. Passed' = FALSE OBVIOUS
<1> QED BY <1>1, <1>2, <1>3 DEF Abstract!Lose, Passed

\* The step simulation: every step of storage, broker and worker is a step of
\* the resumable build, or none.
LEMMA Simulation ==
    ASSUME Undisturbed, TypeOK, CheckpointInv, GrowInv, RowInv, [Next]_vars
    PROVE  [Abstract!Next]_(Abstract!vars)
<1> DEFINE Delivered == {t \in Tasks : <<resultPlan, t>> \in result}
<1>0. Tasks # {} BY NAssumption DEF NAssumption, Tasks
<1>f. /\ OnlyTears /\ tears = 0 /\ StoreAgrees
      /\ pc \in Working => \A t \in completed : <<plan, t>> \in built
      /\ pc = "run" => \A t \in completed : <<plan, t>> \in wsObj
      /\ pc = "saveWorkspace" =>
           \A t, u \in completed : t = u \/ <<plan, t>> \in wsObj \/ <<plan, u>> \in wsObj
      /\ pc \in ClearSteps \cup {"publish"} => completed = Tasks
  BY Restored
<1>g. /\ \A w \in wsObj : w[2] \in progress
      /\ pc \in Working => \A w \in built : w[2] \in completed
      /\ pc \in {"saveProgress", "run"} /\ hasProgress => progress \subseteq completed
  BY <1>f DEF GrowInv
<1>t. /\ progress \in SUBSET Tasks /\ completed \in SUBSET Tasks
  BY DEF TypeOK
<1>r. result = {} => Delivered = {} OBVIOUS
<1> USE DEF Passed, Working, SaveWindow, ClearSteps, LoseMemory
<1>1. CASE Start \/ Ack \/ Enqueue \/ AnalysisGoesOn
  BY <1>1, Stutters DEF Start, Deliver, NoWalkthrough, SkipExisting, ReadAnalysis, NoSpec, Ack, Enqueue,
           AnalysisGoesOn
<1>2. CASE LoadNothing \/ LoadCheckpoint \/ MisreadProgress \/ MisreadWorkspace
  BY <1>2, Stutters DEF LoadNothing, LoadCheckpoint, MisreadProgress, MisreadWorkspace, Begin
<1>3. CASE LoadRaises \/ CheckFails
  BY <1>3, Stutters DEF LoadRaises, CheckFails, Raise
<1>4. CASE AttemptFails
  <2>1. /\ pc' = "idle" /\ UNCHANGED <<storage, row>> /\ pc \in {"read", "load", "run", "publish"}
    BY <1>4 DEF AttemptFails, Raise
  <2>2. CASE pc = "publish"
    <3>1. Abstract!Lose BY <2>1, <2>2, Loses
    <3> QED BY <3>1 DEF Abstract!Next
  <2>3. CASE pc # "publish"
    BY <2>1, <2>3, Stutters
  <2> QED BY <2>2, <2>3
<1>5. CASE PutFails \/ MisreadProgress \/ MisreadWorkspace \/ DeleteFails
  BY <1>5 DEF PutFails, MisreadProgress, MisreadWorkspace, DeleteFails, Undisturbed, TypeOK
<1>6. CASE SaveProgress
  <2>1. /\ pc = "saveProgress" /\ pc' = "saveTasks" /\ hasProgress' = TRUE
        /\ progress' = completed
        /\ UNCHANGED <<planObj, wsObj, result, resultPlan>>
    BY <1>6 DEF SaveProgress, row
  <2>2. Restorable' = Restorable
    <3>1. \A t \in Tasks : <<planObj, t>> \in wsObj => t \in progress BY <1>g
    <3>2. CASE hasProgress
      <4>1. progress \subseteq completed BY <1>g, <2>1, <3>2
      <4> QED BY <1>t, <2>1, <3>1, <3>2, <4>1 DEF Restorable
    <3>3. CASE ~hasProgress
      <4>1. wsObj = {} BY <1>f, <3>3 DEF StoreAgrees
      <4> QED BY <2>1, <3>3, <4>1 DEF Restorable
    <3> QED BY <3>2, <3>3
  <2> QED BY <2>1, <2>2 DEF Abstract!vars
<1>7. CASE SaveTasks
  <2>1. /\ pc = "saveTasks" /\ pc' = "saveWorkspace" /\ planObj' = plan
        /\ UNCHANGED <<hasProgress, progress, wsObj, result, resultPlan>>
    BY <1>7 DEF SaveTasks, row
  <2>2. Restorable' = Restorable
    <3>1. plan # planObj => wsObj = {} BY <1>f, <2>1 DEF StoreAgrees
    <3> QED BY <2>1, <3>1 DEF Restorable
  <2> QED BY <2>1, <2>2 DEF Abstract!vars
<1>8. CASE SaveWorkspace
  <2>1. /\ pc = "saveWorkspace" /\ pc' = "run" /\ wsObj' = IF built = {} THEN wsObj ELSE built
        /\ UNCHANGED <<hasProgress, progress, planObj, result, resultPlan>>
    BY <1>8 DEF SaveWorkspace, row
  <2>2. hasProgress /\ progress = completed /\ planObj = plan
    BY <1>f, <2>1 DEF StoreAgrees
  <2>3. Restorable' = completed
    <3>1. \A t \in completed : <<plan, t>> \in wsObj' BY <1>f, <2>1
    <3> QED BY <2>1, <2>2, <3>1 DEF Restorable
  <2>4. Restorable = {t \in completed : <<plan, t>> \in wsObj} BY <2>2 DEF Restorable
  <2>5. CASE Restorable = completed
    BY <2>1, <2>3, <2>5 DEF Abstract!vars
  <2>6. CASE Restorable # completed
    <3>1. PICK t \in completed : t \notin Restorable BY <2>4, <2>6
    <3>2. completed = Restorable \cup {t} BY <1>f, <2>1, <2>4, <3>1
    <3>3. result = {} BY <2>1 DEF RowInv
    <3>4. Abstract!FinishTask(t)
      BY <1>r, <2>1, <2>3, <3>1, <3>2, <3>3 DEF Abstract!FinishTask
    <3> QED BY <1>t, <3>1, <3>4 DEF Abstract!Next
  <2> QED BY <2>5, <2>6
<1>9. ASSUME NEW t \in Tasks, RunTask(t) PROVE [Abstract!Next]_(Abstract!vars)
  BY <1>9, Stutters DEF RunTask
<1>10. CASE CheckPasses
  <2>1. /\ pc = "run" /\ pc' = "clearWorkspace" /\ completed = Tasks
        /\ UNCHANGED <<hasProgress, progress, planObj, wsObj, result, resultPlan>>
    BY <1>10 DEF CheckPasses, storage, row
  <2>2. wsObj # {} BY <1>0, <1>f, <2>1
  <2>3. planObj = plan /\ hasProgress BY <1>f, <2>1, <2>2 DEF StoreAgrees
  <2>4. Restorable = Tasks BY <1>f, <1>g, <1>t, <2>1, <2>3 DEF Restorable
  <2>5. Restorable' = Restorable BY <2>1 DEF Restorable
  <2>6. result = {} BY <2>1 DEF RowInv
  <2>7. Abstract!CompleteApp BY <1>r, <2>1, <2>4, <2>5, <2>6 DEF Abstract!CompleteApp
  <2> QED BY <2>7 DEF Abstract!Next
<1>11. CASE DeleteObject
  <2>1. pc \in ClearSteps /\ pc' \in {"clearProgress", "clearTasks", "publish"}
        /\ UNCHANGED <<result, resultPlan>>
    BY <1>11 DEF DeleteObject, AfterClear, row
  <2>2. Restorable' = {} \/ Restorable' = Restorable
    <3>1. CASE pc = "clearWorkspace"
      <4>1. wsObj' = {} BY <1>11, <3>1 DEF DeleteObject
      <4> QED BY <4>1 DEF Restorable
    <3>2. CASE pc = "clearProgress"
      <4>1. hasProgress' = FALSE BY <1>11, <3>2 DEF DeleteObject
      <4> QED BY <4>1 DEF Restorable
    <3>3. CASE pc = "clearTasks"
      <4>1. hasProgress' = FALSE BY <1>11, <1>f, <3>3 DEF DeleteObject, StoreAgrees
      <4> QED BY <4>1 DEF Restorable
    <3> QED BY <2>1, <3>1, <3>2, <3>3
  <2>3. CASE Restorable' = Restorable BY <2>1, <2>3 DEF Abstract!vars
  <2>4. CASE Restorable' # Restorable
    <3>1. Abstract!Discard BY <2>1, <2>2, <2>4 DEF Abstract!Discard
    <3> QED BY <3>1 DEF Abstract!Next
  <2> QED BY <2>3, <2>4
<1>12. CASE Publish
  <2>1. /\ pc = "publish" /\ pc' = "ack" /\ result' = built /\ resultPlan' = plan
        /\ UNCHANGED <<hasProgress, progress, planObj, wsObj>>
    BY <1>12 DEF Publish, storage
  <2>2. completed = Tasks /\ \A t \in Tasks : <<plan, t>> \in built BY <1>f, <2>1
  <2>3. Delivered' = Tasks BY <2>1, <2>2
  <2>4. result = {} BY <2>1 DEF RowInv
  <2>5. Restorable' = Restorable BY <2>1 DEF Restorable
  <2>6. Abstract!Deliver BY <1>r, <2>1, <2>3, <2>4, <2>5 DEF Abstract!Deliver
  <2> QED BY <2>6 DEF Abstract!Next
<1>13. CASE Crash
  <2>1. pc' = "idle" /\ UNCHANGED <<storage, row>>
    BY <1>13 DEF Crash
  <2>2. CASE Passed
    <3>1. Abstract!Lose BY <2>1, <2>2, Loses
    <3> QED BY <3>1 DEF Abstract!Next
  <2>3. CASE ~Passed BY <2>1, <2>3, Stutters
  <2> QED BY <2>2, <2>3
<1>14. CASE UNCHANGED vars BY <1>14, Stutters DEF vars
<1> QED
  BY <1>1, <1>2, <1>3, <1>4, <1>5, <1>6, <1>7, <1>8, <1>9, <1>10, <1>11, <1>12, <1>13, <1>14
     DEF Next, Worker, Load, Save, Tasked, Finish

\* While no save, clear or read is interrupted, however often the build fails, is
\* retried, delivered twice or cut off by a death, it implements ResumableBuild:
\* a finished task stays finished until the app is complete, and only a complete
\* app is delivered.
THEOREM Resumes == Undisturbed => (Spec => ImplementsResumableBuild)
<1> SUFFICES ASSUME Undisturbed PROVE Spec => Abstract!Spec
  BY DEF ImplementsResumableBuild
<1>1. Init => Abstract!Init
  BY DEF Init, Abstract!Init, Restorable, ClearSteps
<1>2. TypeOK /\ CheckpointInv /\ GrowInv /\ RowInv /\ [Next]_vars
        => [Abstract!Next]_(Abstract!vars)
  BY Simulation
<1> QED
  BY TypeCorrect, CheckpointInvariant, GrowInit, GrowStep, RowStep, <1>1, <1>2, PTL
     DEF Spec, Abstract!Spec
===============================================================================
