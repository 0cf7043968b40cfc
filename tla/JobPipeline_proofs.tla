-------------------------- MODULE JobPipeline_proofs --------------------------
(***************************************************************************)
(* Proofs about JobPipeline, for all settings and any number of requests,  *)
(* failures, retries and deaths of the worker.  OneBuild: redelivered,     *)
(* retried and repeated messages create one built app, and the version of  *)
(* the job counts its rows.  OpenRows: a timeline row left open is the     *)
(* trace of a death.                                                       *)
(***************************************************************************)
EXTENDS JobPipeline, TLAPS

\* The steps of run_job.
RunJobSteps ==
    {"walkStart", "walk", "analyseStart", "analyse", "handoff", "chain", "chainSend"}
\* The steps the three frontend tasks reach once the app exists.
BuiltSteps ==
    {"verifyStart", "verify", "rearchive", "stage", "uploadStart", "push", "pushed", "cmStart",
     "integrate", "finish", "send"}
FrontendTasks == {"build_frontend", "rework_frontend", "reverify_web"}

\* What the queue holds, and that a running task has a message.
QueueInv ==
    /\ msgs \in Seq(Messages) /\ requests \in 0..MaxRequests
    /\ cur \in 0..Len(msgs) /\ pc \in Pcs
    /\ pc # "idle" => cur # 0

\* Which task is at which step, and whether the app exists then: the check that
\* TakesOver makes at delivery still holds at the commit, because the one worker
\* has run nothing else in between.
StepInv ==
    /\ pc \in RunJobSteps => Task = "run_job"
    /\ pc \in {"codeStart", "generate"} => Task = "build_frontend" /\ gens = <<>>
    /\ pc \in {"editStart", "edit"} => Task = "rework_frontend" /\ gens # <<>>
    /\ pc \in {"hydrate", "archive", "commit"} =>
         Task \in FrontendTasks /\ (Task = "build_frontend" <=> gens = <<>>)
    /\ pc \in BuiltSteps => Task \in FrontendTasks /\ gens # <<>>

RowInv == gens \in Seq(Gens) /\ OneBuildManyVersions

PipelineInv == QueueInv /\ StepInv /\ RowInv

-----------------------------------------------------------------------------
LEMMA StageNames ==
    /\ DOMAIN Stages = {"walkStart", "analyseStart", "codeStart", "editStart",
                        "verifyStart", "uploadStart", "cmStart"}
    /\ Stages["walkStart"].next = "walk" /\ Stages["analyseStart"].next = "analyse"
    /\ Stages["codeStart"].next = "generate" /\ Stages["editStart"].next = "edit"
    /\ Stages["verifyStart"].next = "verify" /\ Stages["uploadStart"].next = "push"
    /\ Stages["cmStart"].next = "integrate"
BY DEF Stages

LEMMA PcNames ==
    Pcs = {"idle", "handoff", "chain", "chainSend", "hydrate", "archive", "rearchive", "commit",
           "stage", "pushed", "finish", "send", "ack",
           "walkStart", "analyseStart", "codeStart", "editStart", "verifyStart",
           "uploadStart", "cmStart",
           "walk", "analyse", "generate", "edit", "verify", "push", "integrate"}
<1>1. {Stages[p].next : p \in DOMAIN Stages}
        = {"walk", "analyse", "generate", "edit", "verify", "push", "integrate"}
  BY StageNames
<1> QED BY <1>1, StageNames DEF Pcs

\* A running task has a message of the queue, and keeps its name.
LEMMA RunningTask ==
    ASSUME QueueInv, pc # "idle"
    PROVE  cur \in DOMAIN msgs /\ msgs[cur] \in Messages /\ Task \in TaskNames
<1>1. msgs \in Seq(Messages) /\ cur \in 1..Len(msgs) BY DEF QueueInv
<1>2. cur \in DOMAIN msgs /\ msgs[cur] \in Messages BY <1>1
<1> QED BY <1>2 DEF Task, Messages

LEMMA InitInv == Init => PipelineInv
<1> SUFFICES ASSUME Init PROVE PipelineInv OBVIOUS
<1>1. msgs \in Seq(Messages)
  <2>1. Message("run_job", 0) \in Messages
    BY BoundsAssumption DEF Message, Messages, TaskNames
  <2>2. msgs = <<>> \/ msgs = <<Message("run_job", 0)>> BY DEF Init
  <2>3. \A e \in Messages : <<e>> \in Seq(Messages) /\ <<>> \in Seq(Messages) OBVIOUS
  <2> QED BY <2>1, <2>2, <2>3
<1>2. QueueInv BY <1>1, PcNames, BoundsAssumption DEF Init, QueueInv
<1>3. StepInv BY DEF Init, StepInv, RunJobSteps, BuiltSteps
<1>4. RowInv BY DEF Init, RowInv, OneBuildManyVersions
<1> QED BY <1>2, <1>3, <1>4 DEF PipelineInv

\* A step that only moves the worker on, and neither touches rows nor messages.
LEMMA RowsKept ==
    ASSUME RowInv, UNCHANGED <<gens, version>>
    PROVE  RowInv'
BY DEF RowInv, OneBuildManyVersions

LEMMA QueueKept ==
    ASSUME QueueInv, UNCHANGED <<msgs, cur, requests>>, pc # "idle", pc' \in Pcs
    PROVE  QueueInv' /\ Task' = Task
BY DEF QueueInv, Task

\* Whatever happened to the messages, an idle worker promises nothing.
LEMMA IdleSteps == ASSUME pc' = "idle" PROVE StepInv'
BY DEF StepInv, RunJobSteps, BuiltSteps

\* A message sent does not move the messages that are there.
LEMMA AppendMessage ==
    ASSUME QueueInv, NEW t \in TaskNames, NEW r \in 0..MaxRequests,
           msgs' = Append(msgs, Message(t, r)), cur' = cur
    PROVE  /\ msgs' \in Seq(Messages) /\ cur' \in 0..Len(msgs')
           /\ cur # 0 => Task' = Task
<1>1. Message(t, r) \in Messages BY BoundsAssumption DEF Message, Messages
<1>2. /\ msgs \in Seq(Messages) /\ cur \in 0..Len(msgs)
  BY DEF QueueInv
<1>3. msgs' \in Seq(Messages) /\ Len(msgs') = Len(msgs) + 1 BY <1>1, <1>2
<1>4. cur # 0 => msgs'[cur] = msgs[cur] BY <1>1, <1>2
<1> QED BY <1>2, <1>3, <1>4 DEF Task

\* Acknowledging a message and counting a retry keep the queue well formed.
LEMMA MessageChanged ==
    ASSUME QueueInv, pc # "idle", Forget, requests' = requests,
           \/ msgs' = [msgs EXCEPT ![cur].status = "acked"]
           \/ RetryOrDie
    PROVE  QueueInv'
<1>1. /\ cur \in DOMAIN msgs /\ msgs[cur] \in Messages /\ msgs \in Seq(Messages)
  BY RunningTask DEF QueueInv
<1>2. msgs' \in Seq(Messages) /\ Len(msgs') = Len(msgs)
  <2>1. CASE msgs' = [msgs EXCEPT ![cur].status = "acked"]
    <3>1. [msgs[cur] EXCEPT !.status = "acked"] \in Messages BY <1>1 DEF Messages
    <3> QED BY <2>1, <1>1, <3>1
  <2>2. CASE RetryOrDie
    <3>1. [msgs[cur] EXCEPT !.status = "dead"] \in Messages BY <1>1 DEF Messages
    <3>2. msgs[cur].retries < MaxRetries
            => [msgs[cur] EXCEPT !.retries = @ + 1] \in Messages
      <4>1. msgs[cur].retries \in 0..MaxRetries BY <1>1 DEF Messages
      <4>2. msgs[cur].retries < MaxRetries => msgs[cur].retries + 1 \in 0..MaxRetries
        BY <4>1, BoundsAssumption DEF BoundsAssumption
      <4> QED BY <1>1, <4>2 DEF Messages
    <3>3. \E e \in Messages : msgs' = [msgs EXCEPT ![cur] = e]
      BY <2>2, <1>1, <3>1, <3>2 DEF RetryOrDie
    <3> QED BY <1>1, <3>3
  <2> QED BY <2>1, <2>2
<1> QED BY <1>2, PcNames DEF QueueInv, Forget

\* The steps that move the running task on and touch neither rows nor messages.
Moves ==
    StartStage \/ Walk \/ Analyse \/ Handoff \/ Chain \/ Hydrate \/ NoSpec \/ Generate \/ Edit
    \/ Verify \/ RenderFails \/ Archive \/ StageAssets \/ Push \/ PushFails \/ Finish \/ Send

LEMMA MovesKeepInv == PipelineInv /\ Moves => PipelineInv'
<1> SUFFICES ASSUME PipelineInv, Moves PROVE PipelineInv' OBVIOUS
<1> USE DEF StepInv, RunJobSteps, BuiltSteps, FrontendTasks
<1>1. CASE StartStage
  <2>1. /\ UNCHANGED <<gens, version, msgs, cur, requests>>
        /\ pc # "idle" /\ pc' \in Pcs
    BY <1>1, PcNames, StageNames DEF StartStage, database, durable, locals, history
  <2>2. Task' = Task /\ QueueInv' /\ RowInv' BY <2>1, QueueKept, RowsKept DEF PipelineInv
  <2>3. <<pc, pc'>> \in {<<"walkStart", "walk">>, <<"analyseStart", "analyse">>,
                         <<"codeStart", "generate">>, <<"editStart", "edit">>,
                         <<"verifyStart", "verify">>, <<"uploadStart", "push">>,
                         <<"cmStart", "integrate">>}
    BY <1>1, StageNames DEF StartStage
  <2>4. StepInv' BY <2>1, <2>2, <2>3 DEF PipelineInv
  <2> QED BY <2>2, <2>4 DEF PipelineInv
<1>2. CASE Walk
  <2>1. /\ UNCHANGED <<gens, version, msgs, cur, requests>>
        /\ pc # "idle" /\ pc' \in Pcs
    BY <1>2, PcNames DEF Walk, database, durable, locals, history, FinishStage
  <2>2. Task' = Task /\ QueueInv' /\ RowInv' BY <2>1, QueueKept, RowsKept DEF PipelineInv
  <2>3. StepInv'
    BY <1>2, <2>1, <2>2 DEF PipelineInv, Walk, FinishStage
  <2> QED BY <2>2, <2>3 DEF PipelineInv
<1>3. CASE Analyse
  <2>1. /\ UNCHANGED <<gens, version, msgs, cur, requests>>
        /\ pc # "idle" /\ pc' \in Pcs
    BY <1>3, PcNames DEF Analyse, database, durable, locals, history
  <2>2. Task' = Task /\ QueueInv' /\ RowInv' BY <2>1, QueueKept, RowsKept DEF PipelineInv
  <2>3. StepInv'
    BY <1>3, <2>1, <2>2 DEF PipelineInv, Analyse
  <2> QED BY <2>2, <2>3 DEF PipelineInv
<1>4. CASE Handoff
  <2>1. /\ UNCHANGED <<gens, version, msgs, cur, requests>>
        /\ pc # "idle" /\ pc' \in Pcs
    BY <1>4, PcNames DEF Handoff, database, durable, locals, history, FinishStage
  <2>2. Task' = Task /\ QueueInv' /\ RowInv' BY <2>1, QueueKept, RowsKept DEF PipelineInv
  <2>3. StepInv'
    BY <1>4, <2>1, <2>2 DEF PipelineInv, Handoff, FinishStage
  <2> QED BY <2>2, <2>3 DEF PipelineInv
<1>5. CASE Chain
  <2>1. /\ UNCHANGED <<gens, version, msgs, cur, requests>>
        /\ pc # "idle" /\ pc' \in Pcs
    BY <1>5, PcNames DEF Chain, database, durable, locals, history
  <2>2. Task' = Task /\ QueueInv' /\ RowInv' BY <2>1, QueueKept, RowsKept DEF PipelineInv
  <2>3. StepInv'
    BY <1>5, <2>1, <2>2 DEF PipelineInv, Chain
  <2> QED BY <2>2, <2>3 DEF PipelineInv
<1>6. CASE Hydrate
  <2>1. /\ UNCHANGED <<gens, version, msgs, cur, requests>>
        /\ pc # "idle" /\ pc' \in Pcs
    BY <1>6, PcNames DEF Hydrate, database, durable, locals, history
  <2>2. Task' = Task /\ QueueInv' /\ RowInv' BY <2>1, QueueKept, RowsKept DEF PipelineInv
  <2>3. StepInv'
    BY <1>6, <2>1, <2>2 DEF PipelineInv, Hydrate
  <2> QED BY <2>2, <2>3 DEF PipelineInv
<1>7. CASE NoSpec
  <2>1. /\ UNCHANGED <<gens, version, msgs, cur, requests>>
        /\ pc # "idle" /\ pc' \in Pcs
    BY <1>7, PcNames DEF NoSpec, database, durable, locals, history, Misfortune
  <2>2. Task' = Task /\ QueueInv' /\ RowInv' BY <2>1, QueueKept, RowsKept DEF PipelineInv
  <2>3. StepInv'
    BY <1>7, <2>1, <2>2 DEF PipelineInv, NoSpec, Misfortune
  <2> QED BY <2>2, <2>3 DEF PipelineInv
<1>8. CASE Generate
  <2>1. /\ UNCHANGED <<gens, version, msgs, cur, requests>>
        /\ pc # "idle" /\ pc' \in Pcs
    BY <1>8, PcNames DEF Generate, database, durable, locals, history
  <2>2. Task' = Task /\ QueueInv' /\ RowInv' BY <2>1, QueueKept, RowsKept DEF PipelineInv
  <2>3. StepInv'
    BY <1>8, <2>1, <2>2 DEF PipelineInv, Generate
  <2> QED BY <2>2, <2>3 DEF PipelineInv
<1>9. CASE Edit
  <2>1. /\ UNCHANGED <<gens, version, msgs, cur, requests>>
        /\ pc # "idle" /\ pc' \in Pcs
    BY <1>9, PcNames DEF Edit, database, durable, locals, history
  <2>2. Task' = Task /\ QueueInv' /\ RowInv' BY <2>1, QueueKept, RowsKept DEF PipelineInv
  <2>3. StepInv'
    BY <1>9, <2>1, <2>2 DEF PipelineInv, Edit
  <2> QED BY <2>2, <2>3 DEF PipelineInv
<1>10. CASE Verify
  <2>1. /\ UNCHANGED <<gens, version, msgs, cur, requests>>
        /\ pc # "idle" /\ pc' \in Pcs
    BY <1>10, PcNames DEF Verify, AfterVerify, database, durable, locals, history
  <2>2. Task' = Task /\ QueueInv' /\ RowInv' BY <2>1, QueueKept, RowsKept DEF PipelineInv
  <2>3. StepInv'
    BY <1>10, <2>1, <2>2 DEF PipelineInv, Verify, AfterVerify
  <2> QED BY <2>2, <2>3 DEF PipelineInv
<1>11. CASE RenderFails
  <2>1. /\ UNCHANGED <<gens, version, msgs, cur, requests>>
        /\ pc # "idle" /\ pc' \in Pcs
    BY <1>11, PcNames DEF RenderFails, AfterVerify, database, durable, locals, history, Misfortune
  <2>2. Task' = Task /\ QueueInv' /\ RowInv' BY <2>1, QueueKept, RowsKept DEF PipelineInv
  <2>3. StepInv'
    BY <1>11, <2>1, <2>2 DEF PipelineInv, RenderFails, AfterVerify, Misfortune
  <2> QED BY <2>2, <2>3 DEF PipelineInv
<1>12. CASE Archive
  <2>1. /\ UNCHANGED <<gens, version, msgs, cur, requests>>
        /\ pc # "idle" /\ pc' \in Pcs
    BY <1>12, PcNames DEF Archive, database, durable, locals, history
  <2>2. Task' = Task /\ QueueInv' /\ RowInv' BY <2>1, QueueKept, RowsKept DEF PipelineInv
  <2>3. StepInv'
    BY <1>12, <2>1, <2>2 DEF PipelineInv, Archive
  <2> QED BY <2>2, <2>3 DEF PipelineInv
<1>13. CASE StageAssets
  <2>1. /\ UNCHANGED <<gens, version, msgs, cur, requests>>
        /\ pc # "idle" /\ pc' \in Pcs
    BY <1>13, PcNames DEF StageAssets, database, durable, locals, history
  <2>2. Task' = Task /\ QueueInv' /\ RowInv' BY <2>1, QueueKept, RowsKept DEF PipelineInv
  <2>3. StepInv'
    BY <1>13, <2>1, <2>2 DEF PipelineInv, StageAssets
  <2> QED BY <2>2, <2>3 DEF PipelineInv
<1>14. CASE Push
  <2>1. /\ UNCHANGED <<gens, version, msgs, cur, requests>>
        /\ pc # "idle" /\ pc' \in Pcs
    BY <1>14, PcNames DEF Push, database, durable, locals, history
  <2>2. Task' = Task /\ QueueInv' /\ RowInv' BY <2>1, QueueKept, RowsKept DEF PipelineInv
  <2>3. StepInv'
    BY <1>14, <2>1, <2>2 DEF PipelineInv, Push
  <2> QED BY <2>2, <2>3 DEF PipelineInv
<1>15. CASE PushFails
  <2>1. /\ UNCHANGED <<gens, version, msgs, cur, requests>>
        /\ pc # "idle" /\ pc' \in Pcs
    BY <1>15, PcNames DEF PushFails, database, durable, locals, history, Misfortune
  <2>2. Task' = Task /\ QueueInv' /\ RowInv' BY <2>1, QueueKept, RowsKept DEF PipelineInv
  <2>3. StepInv'
    BY <1>15, <2>1, <2>2 DEF PipelineInv, PushFails, Misfortune
  <2> QED BY <2>2, <2>3 DEF PipelineInv
<1>16. CASE Finish
  <2>1. /\ UNCHANGED <<gens, version, msgs, cur, requests>>
        /\ pc # "idle" /\ pc' \in Pcs
    BY <1>16, PcNames DEF Finish, database, durable, locals, history
  <2>2. Task' = Task /\ QueueInv' /\ RowInv' BY <2>1, QueueKept, RowsKept DEF PipelineInv
  <2>3. StepInv'
    BY <1>16, <2>1, <2>2 DEF PipelineInv, Finish
  <2> QED BY <2>2, <2>3 DEF PipelineInv
<1>17. CASE Send
  <2>1. /\ UNCHANGED <<gens, version, msgs, cur, requests>>
        /\ pc # "idle" /\ pc' \in Pcs
    BY <1>17, PcNames DEF Send, database, durable, locals, history
  <2>2. Task' = Task /\ QueueInv' /\ RowInv' BY <2>1, QueueKept, RowsKept DEF PipelineInv
  <2>3. StepInv'
    BY <1>17, <2>1, <2>2 DEF PipelineInv, Send
  <2> QED BY <2>2, <2>3 DEF PipelineInv
<1> QED BY <1>1, <1>2, <1>3, <1>4, <1>5, <1>6, <1>7, <1>8, <1>9, <1>10, <1>11, <1>12, <1>13,
     <1>14, <1>15, <1>16, <1>17 DEF Moves

\* Deliver: the guards of the task read the rows as they are now.
LEMMA DeliverKeepsInv == PipelineInv /\ Deliver => PipelineInv'
<1> SUFFICES ASSUME PipelineInv, Deliver PROVE PipelineInv' OBVIOUS
<1>1. PICK m \in DOMAIN msgs : cur' = m /\ pc' = TakesOver(msgs[m].task)
  BY DEF Deliver
<1>2. UNCHANGED <<gens, version, msgs, requests>> /\ RowInv'
  BY RowsKept DEF Deliver, durable, locals, history, PipelineInv
<1>3. /\ m \in 1..Len(msgs) /\ m \in Nat \ {0} /\ msgs[m] \in Messages
      /\ msgs[m].task \in TaskNames
  <2>1. m \in 1..Len(msgs) /\ msgs[m] \in Messages BY <1>1 DEF PipelineInv, QueueInv
  <2> QED BY <2>1 DEF Messages
<1>4. Task' = msgs[m].task BY <1>1, <1>2 DEF Task
<1>5. QueueInv'
  BY <1>1, <1>2, <1>3, PcNames DEF PipelineInv, QueueInv, TakesOver, TaskNames
<1>6. StepInv'
  BY <1>1, <1>2, <1>3, <1>4
     DEF StepInv, TakesOver, TaskNames, RunJobSteps, BuiltSteps, FrontendTasks
<1> QED BY <1>2, <1>5, <1>6 DEF PipelineInv

\* Commit: the only step that adds a row; build_frontend is here only without one.
LEMMA CommitKeepsInv == PipelineInv /\ Commit => PipelineInv'
<1> SUFFICES ASSUME PipelineInv, Commit PROVE PipelineInv' OBVIOUS
<1> DEFINE old == IF gens = <<>> THEN [repo |-> FALSE, cm |-> FALSE] ELSE LastGen
           row == [by |-> Task, repo |-> old.repo, cm |-> old.cm]
<1>1. /\ pc = "commit" /\ gens' = Append(gens, row)
      /\ version' = IF Task = "build_frontend" THEN version ELSE version + 1
      /\ pc' = AfterCommit(old.repo)
      /\ UNCHANGED <<msgs, cur, requests>>
  BY DEF Commit, durable, history
<1>2. gens \in Seq(Gens) /\ Task \in FrontendTasks /\ (Task = "build_frontend" <=> gens = <<>>)
  BY <1>1 DEF PipelineInv, StepInv, RowInv
<1>3. row \in Gens
  <2>1. gens # <<>> => LastGen \in Gens BY <1>2 DEF LastGen
  <2> QED BY <1>2, <2>1 DEF Gens, FrontendTasks, TaskNames
<1>4. /\ gens' \in Seq(Gens) /\ Len(gens') = Len(gens) + 1 /\ gens' # <<>>
      /\ \A g \in DOMAIN gens : gens'[g] = gens[g]
      /\ gens'[Len(gens) + 1] = row /\ DOMAIN gens' = DOMAIN gens \cup {Len(gens) + 1}
  <2> HIDE DEF row
  <2> QED BY <1>1, <1>2, <1>3
<1>5. QueueInv' /\ Task' = Task
  BY <1>1, <1>2, PcNames, QueueKept DEF PipelineInv, AfterCommit, FrontendTasks
<1>6. StepInv'
  BY <1>1, <1>2, <1>4, <1>5 DEF StepInv, AfterCommit, RunJobSteps, BuiltSteps, FrontendTasks
<1>7. \A g \in DOMAIN gens' : gens'[g].by = "build_frontend" <=> g = 1
  <2>1. \A g \in DOMAIN gens : gens[g].by = "build_frontend" <=> g = 1
    BY DEF PipelineInv, RowInv, OneBuildManyVersions
  <2>2. row.by = "build_frontend" <=> Len(gens) + 1 = 1 BY <1>2
  <2> HIDE DEF row
  <2> QED BY <1>4, <2>1, <2>2
<1>8. version' = Len(gens')
  BY <1>1, <1>2, <1>4 DEF PipelineInv, RowInv, OneBuildManyVersions
<1>9. RowInv' BY <1>4, <1>7, <1>8 DEF RowInv, OneBuildManyVersions
<1> QED BY <1>5, <1>6, <1>9 DEF PipelineInv

\* RecordPush and Integrate mark the newest row.
LEMMA RowMarked ==
    ASSUME RowInv, gens # <<>>, version' = version,
           \/ gens' = [gens EXCEPT ![Len(gens)].repo = TRUE]
           \/ gens' = [gens EXCEPT ![Len(gens)].cm = TRUE]
           \/ gens' = gens
    PROVE  RowInv' /\ gens' # <<>>
<1>1. gens \in Seq(Gens) /\ Len(gens) \in DOMAIN gens /\ LastGen \in Gens
  BY DEF RowInv, LastGen
<1>2. PICK e \in Gens : gens' = [gens EXCEPT ![Len(gens)] = e] /\ e.by = LastGen.by
  <2>1. /\ [LastGen EXCEPT !.repo = TRUE] \in Gens
        /\ [LastGen EXCEPT !.repo = TRUE].by = LastGen.by
        /\ [LastGen EXCEPT !.cm = TRUE] \in Gens
        /\ [LastGen EXCEPT !.cm = TRUE].by = LastGen.by
    BY <1>1 DEF Gens
  <2>2. CASE gens' = [gens EXCEPT ![Len(gens)].repo = TRUE] BY <1>1, <2>1, <2>2 DEF LastGen
  <2>3. CASE gens' = [gens EXCEPT ![Len(gens)].cm = TRUE] BY <1>1, <2>1, <2>3 DEF LastGen
  <2>4. CASE gens' = gens BY <1>1, <2>4 DEF LastGen
  <2> QED BY <2>2, <2>3, <2>4
<1>3. /\ gens' \in Seq(Gens) /\ Len(gens') = Len(gens) /\ gens' # <<>>
      /\ DOMAIN gens' = DOMAIN gens
      /\ \A g \in DOMAIN gens : gens'[g].by = gens[g].by
  <2>1. /\ gens' \in Seq(Gens) /\ Len(gens') = Len(gens) /\ gens' # <<>>
        /\ DOMAIN gens' = DOMAIN gens
    BY <1>1, <1>2
  <2>2. ASSUME NEW g \in DOMAIN gens PROVE gens'[g].by = gens[g].by
    BY <1>1, <1>2 DEF LastGen
  <2> QED BY <2>1, <2>2
<1> QED BY <1>3 DEF RowInv, OneBuildManyVersions

LEMMA MarksKeepInv == PipelineInv /\ (RecordPush \/ Integrate) => PipelineInv'
<1> SUFFICES ASSUME PipelineInv, RecordPush \/ Integrate PROVE PipelineInv' OBVIOUS
<1>1. /\ pc \in {"pushed", "integrate"} /\ pc' \in {"cmStart", "finish"}
      /\ UNCHANGED <<version, msgs, cur, requests>>
      /\ \/ gens' = [gens EXCEPT ![Len(gens)].repo = TRUE]
         \/ gens' = [gens EXCEPT ![Len(gens)].cm = TRUE]
         \/ gens' = gens
  BY DEF RecordPush, Integrate, Misfortune, durable, history
<1>2. Task \in FrontendTasks /\ gens # <<>> BY <1>1 DEF PipelineInv, StepInv, BuiltSteps
<1>3. RowInv' /\ gens' # <<>> BY <1>1, <1>2, RowMarked DEF PipelineInv
<1>4. QueueInv' /\ Task' = Task BY <1>1, PcNames, QueueKept DEF PipelineInv
<1>5. StepInv' BY <1>1, <1>2, <1>3, <1>4 DEF StepInv, RunJobSteps, BuiltSteps
<1> QED BY <1>3, <1>4, <1>5 DEF PipelineInv

\* The ends of a task: acknowledged, retried, dead, or cut off by a death.
LEMMA EndsKeepInv == PipelineInv /\ (Ack \/ Fail \/ SendFails \/ Crash) => PipelineInv'
<1> SUFFICES ASSUME PipelineInv, Ack \/ Fail \/ SendFails \/ Crash PROVE PipelineInv' OBVIOUS
<1>1. /\ Forget /\ pc # "idle" /\ UNCHANGED <<gens, version, requests>>
      /\ \/ msgs' = [msgs EXCEPT ![cur].status = "acked"]
         \/ RetryOrDie
         \/ msgs' = msgs
  BY DEF Ack, Fail, SendFails, Crash, Raising, Misfortune, database, durable, history
<1>2. RowInv' BY <1>1, RowsKept DEF PipelineInv
<1>3. StepInv' BY <1>1, IdleSteps DEF Forget
<1>4. QueueInv'
  <2>1. CASE msgs' = msgs BY <1>1, <2>1, PcNames DEF PipelineInv, QueueInv, Forget
  <2>2. CASE msgs' # msgs BY <1>1, <2>2, MessageChanged DEF PipelineInv
  <2> QED BY <2>1, <2>2
<1> QED BY <1>2, <1>3, <1>4 DEF PipelineInv

\* A message is sent: by run_job for the chain, or by a route at any moment.
LEMMA ChainSendKeepsInv == PipelineInv /\ ChainSend => PipelineInv'
<1> SUFFICES ASSUME PipelineInv, ChainSend PROVE PipelineInv' OBVIOUS
<1>1. /\ pc = "chainSend" /\ pc' = "ack" /\ cur' = cur /\ UNCHANGED <<gens, version, requests>>
      /\ msgs' = Append(msgs, Message("build_frontend", 0))
  BY DEF ChainSend, database, durable, locals, history
<1>2. "build_frontend" \in TaskNames /\ 0 \in 0..MaxRequests
  BY BoundsAssumption DEF BoundsAssumption, TaskNames
<1>3. QueueInv BY DEF PipelineInv
<1>4. msgs' \in Seq(Messages) /\ cur' \in 0..Len(msgs')
  BY <1>1, <1>2, <1>3, AppendMessage
<1>5. QueueInv' BY <1>1, <1>3, <1>4, PcNames DEF QueueInv
<1>6. StepInv' BY <1>1 DEF StepInv, RunJobSteps, BuiltSteps
<1> QED BY <1>1, <1>5, <1>6, RowsKept DEF PipelineInv

LEMMA RequestKeepsInv == ASSUME NEW t \in TaskNames PROVE PipelineInv /\ Request(t) => PipelineInv'
<1> SUFFICES ASSUME PipelineInv, Request(t) PROVE PipelineInv' OBVIOUS
<1>1. /\ UNCHANGED <<gens, version, cur, pc>>
      /\ requests < MaxRequests /\ requests' = requests + 1
      /\ msgs' = Append(msgs, Message(t, requests'))
  BY DEF Request, database, durable, locals
<1>2. requests' \in 0..MaxRequests
  BY <1>1, BoundsAssumption DEF BoundsAssumption, PipelineInv, QueueInv
<1>3. QueueInv BY DEF PipelineInv
<1>4. /\ msgs' \in Seq(Messages) /\ cur' \in 0..Len(msgs')
      /\ cur # 0 => Task' = Task
  BY <1>1, <1>2, <1>3, AppendMessage
<1>5. QueueInv' BY <1>1, <1>2, <1>3, <1>4 DEF QueueInv
<1>6. StepInv'
  <2>1. CASE pc = "idle" BY <1>1, <2>1, IdleSteps
  <2>2. CASE pc # "idle" BY <1>1, <1>3, <1>4, <2>2 DEF PipelineInv, QueueInv, StepInv
  <2> QED BY <2>1, <2>2
<1> QED BY <1>1, <1>5, <1>6, RowsKept DEF PipelineInv

LEMMA NextKeepsInv == PipelineInv /\ [Next]_vars => PipelineInv'
<1> SUFFICES ASSUME PipelineInv, [Next]_vars PROVE PipelineInv' OBVIOUS
<1>1. CASE Moves BY <1>1, MovesKeepInv
<1>2. CASE Deliver BY <1>2, DeliverKeepsInv
<1>3. CASE Commit BY <1>3, CommitKeepsInv
<1>4. CASE RecordPush \/ Integrate BY <1>4, MarksKeepInv
<1>5. CASE Ack \/ Fail \/ SendFails \/ Crash BY <1>5, EndsKeepInv
<1>6. CASE ChainSend BY <1>6, ChainSendKeepsInv
<1>7. CASE Routes
  <2>1. PICK t \in TaskNames : Request(t)
    BY <1>7 DEF Routes, RouteBuild, RouteRework, RouteVerify, RouteBuildSettings, TaskNames
  <2> QED BY <2>1, RequestKeepsInv
<1>8. CASE UNCHANGED vars
  <2>1. UNCHANGED <<msgs, cur, pc, requests, gens, version>>
    BY <1>8 DEF vars, database, durable, locals, history
  <2> QED BY <2>1 DEF PipelineInv, QueueInv, StepInv, RowInv, OneBuildManyVersions, Task
<1> QED
  BY <1>1, <1>2, <1>3, <1>4, <1>5, <1>6, <1>7, <1>8
     DEF Next, Worker, RunJob, Frontend, Delivery, Moves

\* Whatever is enqueued, retried, redelivered and cut off, in whatever order:
\* the first row is the one build, every later row is a new version of it, and
\* Job.result_version counts them.
THEOREM OneBuild == Spec => []OneBuildManyVersions
<1>1. PipelineInv => OneBuildManyVersions BY DEF PipelineInv, RowInv
<1> QED BY InitInv, NextKeepsInv, <1>1, PTL DEF Spec

-----------------------------------------------------------------------------
\* The steps between _start_stage and the end of its stage, and the steps outside.
OpenSteps ==
    {"walk", "analyse", "handoff", "generate", "edit", "verify", "push", "pushed", "integrate"}
ClosedSteps ==
    {"idle", "walkStart", "analyseStart", "codeStart", "editStart", "verifyStart",
     "uploadStart", "cmStart", "chain", "chainSend", "hydrate", "rearchive", "stage", "finish", "send",
     "ack"}

\* The running task has at most the one open row it knows of; at "archive" and
\* "commit" it depends on the task whether there is one.
TimelineInv ==
    /\ openRows \in Nat /\ crashes \in Nat /\ rowOpen \in BOOLEAN
    /\ rowOpen => 1 <= openRows /\ openRows <= crashes + 1
    /\ ~rowOpen => openRows <= crashes
    /\ pc \in OpenSteps => rowOpen
    /\ pc \in ClosedSteps => ~rowOpen

\* The end of a stage, and steps that open and close nothing.
LEMMA StageClosed ==
    ASSUME TimelineInv, rowOpen, FinishStage, crashes' = crashes, pc' \notin OpenSteps
    PROVE  TimelineInv'
<1>1. /\ openRows \in Nat /\ 1 <= openRows /\ openRows <= crashes + 1 /\ crashes \in Nat
  BY DEF TimelineInv
<1>2. /\ openRows' = openRows - 1 /\ rowOpen' = FALSE BY DEF FinishStage
<1>3. openRows' \in Nat /\ openRows' <= crashes' BY <1>1, <1>2
<1> QED BY <1>1, <1>2, <1>3 DEF TimelineInv

LEMMA StageKept ==
    ASSUME TimelineInv, UNCHANGED <<openRows, crashes, rowOpen>>,
           pc' \in OpenSteps => rowOpen, pc' \in ClosedSteps => ~rowOpen
    PROVE  TimelineInv'
BY DEF TimelineInv

LEMMA TaskEnded ==
    ASSUME TimelineInv, Forget, crashes' \in Nat, openRows' \in Nat, openRows' <= crashes'
    PROVE  TimelineInv'
BY DEF TimelineInv, Forget, OpenSteps

LEMMA TimelineStep == PipelineInv /\ TimelineInv /\ [Next]_vars => TimelineInv'
<1> SUFFICES ASSUME PipelineInv, TimelineInv, [Next]_vars PROVE TimelineInv' OBVIOUS
<1> USE DEF TimelineInv, OpenSteps, ClosedSteps, database, durable, locals, history
<1>1. CASE StartStage
  <2>1. pc \in ClosedSteps /\ pc' \in OpenSteps BY <1>1, StageNames DEF StartStage
  <2> QED BY <1>1, <2>1 DEF StartStage
<1>2. CASE Walk \/ Handoff
  <2>1. rowOpen /\ FinishStage /\ crashes' = crashes /\ pc' \in ClosedSteps
    BY <1>2 DEF Walk, Handoff
  <2> QED BY <2>1, StageClosed
<1>3. CASE Analyse \/ Chain \/ ChainSend
  BY <1>3 DEF Analyse, Chain, ChainSend
<1>4. CASE Hydrate \/ NoSpec
  BY <1>4 DEF Hydrate, NoSpec, Misfortune
<1>5. CASE Generate \/ Edit
  BY <1>5 DEF Generate, Edit
<1>6. CASE Verify \/ RenderFails
  <2>1. rowOpen /\ FinishStage /\ crashes' = crashes /\ pc' \in {"archive", "rearchive"}
    BY <1>6 DEF Verify, RenderFails, AfterVerify
  <2> QED BY <2>1, StageClosed
<1>7. CASE Archive
  BY <1>7 DEF Archive
<1>8. CASE Commit
  <2>1. pc = "commit" /\ crashes' = crashes
    BY <1>8 DEF Commit
  <2>2. pc' \in {"verifyStart", "stage", "finish", "uploadStart"}
    <3>1. Task \in FrontendTasks BY <2>1 DEF PipelineInv, StepInv
    <3> QED BY <1>8, <3>1 DEF Commit, AfterCommit, FrontendTasks
  <2>3. CASE rowOpen
    <3>1. FinishStage BY <1>8, <2>3 DEF Commit
    <3> QED BY <2>1, <2>2, <2>3, <3>1, StageClosed
  <2>4. CASE ~rowOpen
    <3>1. UNCHANGED <<openRows, rowOpen>> BY <1>8, <2>4 DEF Commit
    <3> QED BY <2>1, <2>2, <2>4, <3>1, StageKept
  <2> QED BY <2>3, <2>4
<1>9. CASE StageAssets \/ Push \/ Finish \/ Send
  BY <1>9 DEF StageAssets, Push, Finish, Send
<1>10. CASE RecordPush \/ PushFails \/ Integrate
  <2>1. rowOpen /\ FinishStage /\ crashes' = crashes /\ pc' \in ClosedSteps
    BY <1>10 DEF RecordPush, PushFails, Integrate
  <2> QED BY <2>1, StageClosed
<1>11. CASE Deliver
  <2>1. pc' \in {"walkStart", "hydrate", "editStart", "ack"}
    <3>1. PICK m \in DOMAIN msgs : pc' = TakesOver(msgs[m].task) BY <1>11 DEF Deliver
    <3>2. msgs \in Seq(Messages) BY DEF PipelineInv, QueueInv
    <3>3. msgs[m] \in Messages BY <3>2
    <3>4. msgs[m].task \in TaskNames BY <3>3 DEF Messages
    <3> QED BY <3>1, <3>4 DEF TakesOver, TaskNames
  <2> QED BY <1>11, <2>1 DEF Deliver
<1>12. CASE Ack \/ SendFails
  BY <1>12 DEF Ack, SendFails, Forget, Misfortune
<1>13. CASE Fail
  <2>1. /\ Forget /\ crashes' = crashes
        /\ openRows' = IF rowOpen THEN openRows - 1 ELSE openRows
    BY <1>13 DEF Fail
  <2>2. openRows' \in Nat /\ openRows' <= crashes'
    <3>1. CASE rowOpen BY <2>1, <3>1
    <3>2. CASE ~rowOpen BY <2>1, <3>2
    <3> QED BY <3>1, <3>2 DEF TimelineInv
  <2> QED BY <2>1, <2>2, TaskEnded
<1>14. CASE Crash
  <2>1. crashes' = crashes + 1 /\ openRows' = openRows /\ Forget BY <1>14 DEF Crash
  <2>2. crashes' \in Nat /\ openRows' \in Nat /\ openRows' <= crashes'
    <3>1. CASE rowOpen BY <2>1, <3>1
    <3>2. CASE ~rowOpen BY <2>1, <3>2
    <3> QED BY <3>1, <3>2 DEF TimelineInv
  <2> QED BY <2>1, <2>2, TaskEnded
<1>15. CASE Routes
  <2>1. PICK t \in TaskNames : Request(t)
    BY <1>15 DEF Routes, RouteBuild, RouteRework, RouteVerify, RouteBuildSettings, TaskNames
  <2>2. UNCHANGED <<openRows, crashes, rowOpen, pc>> BY <2>1 DEF Request
  <2> QED BY <2>2
<1>16. CASE UNCHANGED vars
  BY <1>16 DEF vars
<1> QED
  BY <1>1, <1>2, <1>3, <1>4, <1>5, <1>6, <1>7, <1>8, <1>9,
     <1>10, <1>11, <1>12, <1>13, <1>14, <1>15, <1>16
     DEF Next, Worker, RunJob, Frontend, Delivery

\* _start_stage commits its row at once and the end of the stage closes it many
\* steps later, in another function or in an error handler; still only a death of
\* the worker leaves a row open, one each.
THEOREM OpenRows == Spec => []OpenRowsAreCrashes
<1>1. Init => TimelineInv
  <2> SUFFICES ASSUME Init PROVE TimelineInv OBVIOUS
  <2>1. openRows = 0 /\ crashes = 0 /\ ~rowOpen /\ pc = "idle" /\ rowOpen \in BOOLEAN
    BY DEF Init
  <2> QED BY <2>1 DEF TimelineInv, OpenSteps, ClosedSteps
<1>2. TimelineInv => OpenRowsAreCrashes
  BY DEF TimelineInv, OpenRowsAreCrashes, ClosedSteps
<1> QED BY InitInv, NextKeepsInv, TimelineStep, <1>1, <1>2, PTL DEF Spec
===============================================================================
