----------------------- MODULE JobPipelineOutcome_proofs -----------------------
(***************************************************************************)
(* More proofs about JobPipeline, for all settings and bounds: what        *)
(* becomes of the source tree, the repository and the state of the job.    *)
(*                                                                         *)
(* TaskInv and RequestInv say which task stands where and that a request   *)
(* number names one message.  On them rest TreeInv (the directory, the     *)
(* stored sources and the repository agree from the upload on), ReworkInv  *)
(* (how often a request is in the sources), GateInv (where a tree with     *)
(* known gaps may be), SettledInv and DoneInv (what the state of the job   *)
(* means when its task has ended).                                         *)
(***************************************************************************)
EXTENDS JobPipeline_proofs

\* The steps that send nothing, end nothing and let the task go on.
Works == Moves \/ Commit \/ RecordPush \/ Integrate
Ends  == Ack \/ Fail \/ SendFails \/ Crash

\* A request of the admin, with what its route checks about the app.
Routed(t) == Request(t) /\ (t \in {"rework_frontend", "reverify_web"} => gens # <<>>)

LEMMA NextCases ==
    Next => \/ Deliver \/ Works \/ ChainSend \/ Ends
            \/ \E t \in TaskNames : Routed(t)
<1>1. Routes => \E t \in TaskNames : Routed(t)
  BY DEF Routes, RouteBuild, RouteRework, RouteVerify, RouteBuildSettings, TaskNames, Routed
<1> QED BY <1>1 DEF Next, Worker, RunJob, Frontend, Delivery, Works, Moves, Ends

LEMMA VarsKept ==
    ASSUME UNCHANGED vars
    PROVE  UNCHANGED <<state, version, walks, gens, openRows, specStored, sources, repo, msgs, pc,
                       cur, tree, gated, published, rowOpen, requests, failures, crashes,
                       badPushes, badRenders>>
BY DEF vars, database, durable, locals, history

LEMMA WorkKeepsTask ==
    ASSUME PipelineInv, Works
    PROVE  /\ UNCHANGED <<msgs, cur, requests, crashes>> /\ Task' = Task
           /\ pc # "idle" /\ cur \in DOMAIN msgs /\ Task \in TaskNames
<1> USE DEF database, durable, locals, history
<1>1. /\ UNCHANGED <<msgs, cur, requests, crashes>> /\ pc # "idle"
  <2>1. CASE StartStage BY <2>1, StageNames DEF StartStage
  <2>2. CASE Walk \/ Analyse \/ Handoff \/ Chain \/ Hydrate \/ NoSpec \/ Generate \/ Edit
    BY <2>2 DEF Walk, Analyse, Handoff, Chain, Hydrate, NoSpec, Generate, Edit, Misfortune
  <2>3. CASE Verify \/ RenderFails \/ Archive \/ StageAssets \/ Push \/ PushFails \/ Finish \/ Send
    BY <2>3 DEF Verify, RenderFails, Archive, StageAssets, Push, PushFails, Finish, Send, Misfortune
  <2>4. CASE Commit \/ RecordPush \/ Integrate
    BY <2>4 DEF Commit, RecordPush, Integrate, Misfortune
  <2> QED BY <2>1, <2>2, <2>3, <2>4 DEF Works, Moves
<1>2. Task' = Task BY <1>1 DEF Task
<1>3. cur \in DOMAIN msgs /\ Task \in TaskNames BY <1>1, RunningTask DEF PipelineInv
<1> QED BY <1>1, <1>2, <1>3

\* The messages after a step: nothing happens to their task and their request,
\* and a new one is the chain's, or has a new request number.
MessagesGrow ==
    /\ msgs \in Seq(Messages) /\ msgs' \in Seq(Messages)
    /\ \A m \in DOMAIN msgs :
          m \in DOMAIN msgs' /\ msgs'[m].task = msgs[m].task /\ msgs'[m].req = msgs[m].req
    /\ \A m \in DOMAIN msgs' \ DOMAIN msgs :
          /\ m = Len(msgs) + 1 /\ msgs'[m].status = "queued" /\ msgs'[m].retries = 0
          /\ \/ msgs'[m].task = "build_frontend" /\ msgs'[m].req = 0
             \/ msgs'[m].req = requests + 1 /\ requests' = requests + 1
    /\ requests \in Nat /\ requests' \in Nat /\ requests <= requests'

LEMMA SentGrows ==
    ASSUME PipelineInv, NEW t \in TaskNames, NEW r \in 0..MaxRequests,
           msgs' = Append(msgs, Message(t, r)),
           \/ t = "build_frontend" /\ r = 0 /\ requests' = requests
           \/ r = requests + 1 /\ requests' = requests + 1
    PROVE  /\ MessagesGrow
           /\ \A m \in DOMAIN msgs : msgs'[m] = msgs[m]
           /\ DOMAIN msgs' = DOMAIN msgs \cup {Len(msgs) + 1}
           /\ msgs'[Len(msgs) + 1] = Message(t, r)
<1>1. msgs \in Seq(Messages) /\ requests \in Nat
  BY BoundsAssumption DEF PipelineInv, QueueInv
<1>2. Message(t, r) \in Messages BY BoundsAssumption DEF Message, Messages
<1>3. /\ msgs' \in Seq(Messages)
      /\ \A m \in DOMAIN msgs : m \in DOMAIN msgs' /\ msgs'[m] = msgs[m]
      /\ DOMAIN msgs' = DOMAIN msgs \cup {Len(msgs) + 1}
      /\ \A m \in DOMAIN msgs' \ DOMAIN msgs : m = Len(msgs) + 1
      /\ msgs'[Len(msgs) + 1] = Message(t, r)
  BY <1>1, <1>2
<1>4. /\ Message(t, r).task = t /\ Message(t, r).req = r
      /\ Message(t, r).status = "queued" /\ Message(t, r).retries = 0
  BY DEF Message
<1> QED BY <1>1, <1>3, <1>4 DEF MessagesGrow

LEMMA SameGrows ==
    ASSUME PipelineInv, UNCHANGED <<msgs, requests>>
    PROVE  MessagesGrow
<1>1. msgs \in Seq(Messages) /\ requests \in Nat
  BY BoundsAssumption DEF PipelineInv, QueueInv
<1> QED BY <1>1 DEF MessagesGrow

\* A task that ends changes the status or the retries of its own message only.
LEMMA EndChanges ==
    ASSUME PipelineInv, Ends
    PROVE  /\ pc # "idle" /\ pc' = "idle" /\ cur' = 0 /\ Forget
           /\ cur \in DOMAIN msgs /\ msgs[cur] \in Messages
           /\ UNCHANGED <<walks, gens, version, specStored, sources, repo, requests>>
           /\ MessagesGrow /\ DOMAIN msgs' = DOMAIN msgs
           /\ \A m \in DOMAIN msgs : m # cur => msgs'[m] = msgs[m]
<1>1. /\ pc # "idle" /\ Forget
      /\ UNCHANGED <<walks, gens, version, specStored, sources, repo, requests>>
      /\ \/ msgs' = [msgs EXCEPT ![cur].status = "acked"]
         \/ RetryOrDie
         \/ msgs' = msgs
  BY DEF Ends, Ack, Fail, SendFails, Crash, Raising, Misfortune, database, durable, history
<1>2. cur \in DOMAIN msgs /\ msgs[cur] \in Messages BY <1>1, RunningTask DEF PipelineInv
<1>3. msgs \in Seq(Messages) /\ requests \in Nat
  BY BoundsAssumption DEF PipelineInv, QueueInv
<1>4. msgs' \in Seq(Messages)
  <2>1. CASE msgs' = msgs BY <2>1, <1>3
  <2>2. CASE msgs' # msgs
    <3>1. QueueInv' BY <1>1, <2>2, MessageChanged DEF PipelineInv
    <3> QED BY <3>1 DEF QueueInv
  <2> QED BY <2>1, <2>2
<1>5. /\ DOMAIN msgs' = DOMAIN msgs
      /\ \A m \in DOMAIN msgs : m # cur => msgs'[m] = msgs[m]
      /\ msgs'[cur].task = msgs[cur].task /\ msgs'[cur].req = msgs[cur].req
  BY <1>1, <1>2, <1>3 DEF RetryOrDie, Messages
<1>6. MessagesGrow BY <1>1, <1>3, <1>4, <1>5 DEF MessagesGrow
<1> QED BY <1>1, <1>2, <1>5, <1>6 DEF Forget

LEMMA RequestSends ==
    ASSUME PipelineInv, NEW t \in TaskNames, Request(t)
    PROVE  /\ requests + 1 \in 0..MaxRequests /\ requests' = requests + 1
           /\ msgs' = Append(msgs, Message(t, requests + 1))
           /\ UNCHANGED <<state, version, walks, gens, openRows, specStored, sources, repo, pc,
                          cur, tree, gated, published, rowOpen, failures, crashes, badPushes,
                          badRenders>>
           /\ pc # "idle" => Task' = Task /\ cur \in DOMAIN msgs
<1>1. /\ requests' = requests + 1 /\ requests < MaxRequests
      /\ msgs' = Append(msgs, Message(t, requests + 1))
      /\ UNCHANGED <<state, version, walks, gens, openRows, specStored, sources, repo, pc,
                     cur, tree, gated, published, rowOpen, failures, crashes, badPushes,
                     badRenders>>
  BY DEF Request, database, durable, locals
<1>2. requests + 1 \in 0..MaxRequests
  BY <1>1, BoundsAssumption DEF BoundsAssumption, PipelineInv, QueueInv
<1>3. pc # "idle" => Task' = Task
  BY <1>1, <1>2, AppendMessage DEF PipelineInv, QueueInv
<1> QED BY <1>1, <1>2, <1>3, RunningTask DEF PipelineInv

LEMMA ChainSends ==
    ASSUME PipelineInv, ChainSend
    PROVE  /\ msgs' = Append(msgs, Message("build_frontend", 0))
           /\ pc = "chainSend" /\ pc' = "ack"
           /\ UNCHANGED <<state, version, walks, gens, openRows, specStored, sources, repo,
                          cur, tree, gated, published, rowOpen, requests, failures, crashes,
                          badPushes, badRenders>>
           /\ Task' = Task /\ cur \in DOMAIN msgs
<1>1. /\ msgs' = Append(msgs, Message("build_frontend", 0))
      /\ pc = "chainSend" /\ pc' = "ack"
      /\ UNCHANGED <<state, version, walks, gens, openRows, specStored, sources, repo,
                     cur, tree, gated, published, rowOpen, requests, failures, crashes,
                     badPushes, badRenders>>
  BY DEF ChainSend, database, durable, locals, history
<1>2. "build_frontend" \in TaskNames /\ 0 \in 0..MaxRequests
  BY BoundsAssumption DEF BoundsAssumption, TaskNames
<1>3. cur \in DOMAIN msgs /\ cur # 0 BY <1>1, RunningTask DEF PipelineInv, QueueInv
<1> QED BY <1>1, <1>2, <1>3, AppendMessage DEF PipelineInv

LEMMA Delivered ==
    ASSUME PipelineInv, Deliver
    PROVE  /\ pc = "idle" /\ cur' \in DOMAIN msgs /\ msgs[cur'].status = "queued"
           /\ Task' = msgs[cur'].task /\ Task' \in TaskNames
           /\ pc' = TakesOver(Task')
           /\ state' = IF Task' = "build_frontend" /\ walks = 0 THEN "failed" ELSE state
           /\ UNCHANGED <<version, walks, gens, openRows, specStored, sources, repo, msgs,
                          tree, gated, published, rowOpen, requests, failures, crashes,
                          badPushes, badRenders>>
<1>1. PICK m \in DOMAIN msgs :
         /\ msgs[m].status = "queued" /\ cur' = m /\ pc' = TakesOver(msgs[m].task)
         /\ state' = IF msgs[m].task = "build_frontend" /\ walks = 0 THEN "failed" ELSE state
  BY DEF Deliver
<1>2. /\ UNCHANGED <<version, walks, gens, openRows, specStored, sources, repo, msgs,
                     tree, gated, published, rowOpen, requests, failures, crashes,
                     badPushes, badRenders>>
      /\ pc = "idle"
  BY DEF Deliver, durable, locals, history
<1>3. msgs[m] \in Messages BY DEF PipelineInv, QueueInv
<1>4. Task' = msgs[m].task /\ Task' \in TaskNames BY <1>1, <1>2, <1>3 DEF Task, Messages
<1> QED BY <1>1, <1>2, <1>4

-----------------------------------------------------------------------------
\* Which task is at which step; an app has been analysed; rework and reverify
\* are only asked for an app that is there.
TaskInv ==
    /\ walks \in Nat
    /\ gens # <<>> => walks > 0
    /\ pc \in {"hydrate", "codeStart", "generate", "archive", "commit"} => walks > 0
    /\ pc \in {"rearchive", "stage", "cmStart", "integrate"} => Task = "build_frontend"
    /\ pc \in {"hydrate", "verifyStart", "verify"} => Task # "rework_frontend"
    /\ \A m \in DOMAIN msgs :
          msgs[m].task \in {"rework_frontend", "reverify_web"} => gens # <<>>

\* A request number names one message, and a running task is not yet over.
RequestInv ==
    /\ pc # "idle" => msgs[cur].status = "queued"
    /\ \A m \in DOMAIN msgs :
          /\ msgs[m].req <= requests
          /\ msgs[m].task = "rework_frontend" => msgs[m].req # 0
    /\ \A m, n \in DOMAIN msgs : msgs[m].req = msgs[n].req /\ msgs[m].req # 0 => m = n

LEMMA TaskStep == PipelineInv /\ TaskInv /\ [Next]_vars => TaskInv'
<1> SUFFICES ASSUME PipelineInv, TaskInv, [Next]_vars PROVE TaskInv' OBVIOUS
<1> DEFINE Where ==
       /\ walks \in Nat
       /\ gens # <<>> => walks > 0
       /\ pc \in {"hydrate", "codeStart", "generate", "archive", "commit"} => walks > 0
       /\ pc \in {"rearchive", "stage", "cmStart", "integrate"} => Task = "build_frontend"
       /\ pc \in {"hydrate", "verifyStart", "verify"} => Task # "rework_frontend"
<1>1. CASE Works
  <2>1. /\ UNCHANGED <<msgs, cur, requests, crashes>> /\ Task' = Task
        /\ pc # "idle" /\ cur \in DOMAIN msgs /\ Task \in TaskNames
    BY <1>1, WorkKeepsTask
  <2>2. Where /\ PipelineInv' BY NextKeepsInv DEF TaskInv
  <2>3. /\ pc \in {"hydrate", "archive", "commit"} => Task \in FrontendTasks
        /\ pc \in BuiltSteps \cup {"edit"} => gens # <<>> /\ Task \in FrontendTasks
    BY DEF PipelineInv, StepInv, FrontendTasks
  <2> USE DEF database, durable, locals, history
  <2>4. Where' /\ (gens # <<>> => gens' # <<>>)
    <3>1. CASE StartStage
      BY <2>1, <2>2, <3>1, StageNames DEF StartStage, Stages
    <3>2. CASE Walk \/ Analyse \/ Handoff \/ Chain
      BY <2>1, <2>2, <3>2 DEF Walk, Analyse, Handoff, Chain
    <3>3. CASE Hydrate \/ NoSpec \/ Generate \/ Edit
      BY <2>1, <2>2, <2>3, <3>3 DEF Hydrate, NoSpec, Generate, Edit
    <3>4. CASE Verify \/ RenderFails
      BY <2>1, <2>2, <2>3, <3>4 DEF Verify, RenderFails, AfterVerify, BuiltSteps
    <3>5. CASE Archive \/ StageAssets \/ Push \/ PushFails \/ Finish \/ Send
      BY <2>1, <2>2, <2>3, <3>5 DEF Archive, StageAssets, Push, PushFails, Finish, Send
    <3>6. CASE Commit
      <4>1. gens' # <<>> BY <3>6, <2>2, <2>3 DEF Commit, PipelineInv, RowInv, FrontendTasks
      <4> QED BY <2>1, <2>2, <2>3, <3>6, <4>1 DEF Commit, AfterCommit, FrontendTasks
    <3>7. CASE RecordPush \/ Integrate
      <4>1. gens # <<>> BY <3>7 DEF RecordPush, Integrate, PipelineInv, StepInv, BuiltSteps
      <4>2. gens' # <<>> BY <3>7, <4>1, RowMarked DEF RecordPush, Integrate, PipelineInv
      <4> QED BY <2>1, <2>2, <3>7, <4>1 DEF RecordPush, Integrate
    <3> QED BY <1>1, <3>1, <3>2, <3>3, <3>4, <3>5, <3>6, <3>7 DEF Works, Moves
  <2> QED BY <2>1, <2>4 DEF TaskInv
<1>2. CASE Deliver
  <2>1. /\ pc' = TakesOver(Task') /\ Task' \in TaskNames
        /\ UNCHANGED <<walks, gens, msgs>>
    BY <1>2, Delivered
  <2> QED BY <2>1 DEF TaskInv, TakesOver, TaskNames
<1>3. CASE ChainSend
  <2>1. /\ pc' = "ack" /\ UNCHANGED <<walks, gens>>
        /\ msgs' = Append(msgs, Message("build_frontend", 0)) /\ requests' = requests
    BY <1>3, ChainSends
  <2>2. "build_frontend" \in TaskNames /\ 0 \in 0..MaxRequests
    BY BoundsAssumption DEF BoundsAssumption, TaskNames
  <2>3. /\ MessagesGrow /\ DOMAIN msgs' = DOMAIN msgs \cup {Len(msgs) + 1}
        /\ msgs'[Len(msgs) + 1].task = "build_frontend"
    BY <2>1, <2>2, SentGrows DEF Message
  <2> QED BY <2>1, <2>3 DEF TaskInv, MessagesGrow
<1>4. CASE Ends
  <2>1. /\ pc' = "idle" /\ UNCHANGED <<walks, gens>> /\ MessagesGrow /\ DOMAIN msgs' = DOMAIN msgs
    BY <1>4, EndChanges
  <2> QED BY <2>1 DEF TaskInv, MessagesGrow
<1>5. ASSUME NEW t \in TaskNames, Routed(t) PROVE TaskInv'
  <2>1. /\ UNCHANGED <<walks, gens, pc>> /\ (pc # "idle" => Task' = Task)
        /\ requests + 1 \in 0..MaxRequests /\ requests' = requests + 1
        /\ msgs' = Append(msgs, Message(t, requests + 1))
    BY <1>5, RequestSends DEF Routed
  <2>2. /\ MessagesGrow /\ DOMAIN msgs' = DOMAIN msgs \cup {Len(msgs) + 1}
        /\ msgs'[Len(msgs) + 1].task = t
    BY <2>1, SentGrows DEF Message
  <2> QED BY <1>5, <2>1, <2>2 DEF TaskInv, MessagesGrow, Routed
<1>6. CASE UNCHANGED vars BY <1>6, VarsKept DEF TaskInv, Task
<1> QED BY <1>1, <1>2, <1>3, <1>4, <1>5, <1>6, NextCases

LEMMA InitTasks == Init => TaskInv /\ RequestInv
<1> SUFFICES ASSUME Init PROVE TaskInv /\ RequestInv OBVIOUS
<1>1. \A m \in DOMAIN msgs : m = 1 /\ msgs[m].task = "run_job" /\ msgs[m].req = 0
  <2>1. CASE msgs = <<>> BY <2>1
  <2>2. CASE msgs = <<Message("run_job", 0)>> BY <2>2 DEF Message
  <2> QED BY <2>1, <2>2 DEF Init
<1>2. pc = "idle" /\ walks = 0 /\ gens = <<>> /\ requests = 0 BY DEF Init
<1> QED BY <1>1, <1>2 DEF TaskInv, RequestInv

\* A request takes a new number; the chain asks for the build without one.
LEMMA RequestStep == PipelineInv /\ RequestInv /\ [Next]_vars => RequestInv'
<1> SUFFICES ASSUME PipelineInv, RequestInv, [Next]_vars PROVE RequestInv' OBVIOUS
<1> DEFINE Numbered ==
       /\ \A m \in DOMAIN msgs :
             /\ msgs[m].req <= requests
             /\ msgs[m].task = "rework_frontend" => msgs[m].req # 0
       /\ \A m, n \in DOMAIN msgs : msgs[m].req = msgs[n].req /\ msgs[m].req # 0 => m = n
<1>1. ASSUME MessagesGrow PROVE Numbered'
  <2>1. ASSUME NEW m \in DOMAIN msgs
        PROVE  /\ msgs[m].req \in Nat /\ msgs[m].req <= requests
               /\ msgs[m].task = "rework_frontend" => msgs[m].req # 0
    <3>1. msgs[m] \in Messages BY DEF PipelineInv, QueueInv
    <3> QED BY <3>1, BoundsAssumption DEF Messages, RequestInv
  <2>2. ASSUME NEW m \in DOMAIN msgs'
        PROVE  /\ msgs'[m].req <= requests'
               /\ msgs'[m].task = "rework_frontend" => msgs'[m].req # 0
    BY <1>1, <2>1, BoundsAssumption DEF MessagesGrow
  <2>3. ASSUME NEW m \in DOMAIN msgs', NEW n \in DOMAIN msgs',
               msgs'[m].req = msgs'[n].req, msgs'[m].req # 0
        PROVE  m = n
    BY <1>1, <2>1, <2>3 DEF MessagesGrow, RequestInv
  <2> QED BY <2>2, <2>3
<1>2. CASE Works
  BY <1>1, <1>2, WorkKeepsTask, SameGrows DEF RequestInv
<1>3. CASE Deliver
  BY <1>1, <1>3, Delivered, SameGrows DEF RequestInv
<1>4. CASE ChainSend
  <2>1. "build_frontend" \in TaskNames /\ 0 \in 0..MaxRequests
    BY BoundsAssumption DEF BoundsAssumption, TaskNames
  <2>2. /\ MessagesGrow /\ cur' = cur /\ cur \in DOMAIN msgs /\ pc # "idle"
        /\ \A m \in DOMAIN msgs : msgs'[m] = msgs[m]
    BY <1>4, <2>1, ChainSends, SentGrows
  <2> QED BY <1>1, <2>2 DEF RequestInv
<1>5. CASE Ends BY <1>1, <1>5, EndChanges DEF RequestInv
<1>6. ASSUME NEW t \in TaskNames, Routed(t) PROVE RequestInv'
  <2>1. /\ UNCHANGED <<pc, cur>> /\ (pc # "idle" => cur \in DOMAIN msgs)
        /\ requests + 1 \in 0..MaxRequests /\ requests' = requests + 1
        /\ msgs' = Append(msgs, Message(t, requests + 1))
    BY <1>6, RequestSends DEF Routed
  <2>2. MessagesGrow /\ \A m \in DOMAIN msgs : msgs'[m] = msgs[m] BY <2>1, SentGrows
  <2> QED BY <1>1, <2>1, <2>2 DEF RequestInv
<1>7. CASE UNCHANGED vars BY <1>7, VarsKept DEF RequestInv
<1> QED BY <1>2, <1>3, <1>4, <1>5, <1>6, <1>7, NextCases

-----------------------------------------------------------------------------
\* From the archive on the directory holds the stored app: it is what is stored until
\* build_frontend stages its assets; a task that has published is past its upload, and
\* the repository holds the stored app.
TreeInv ==
    /\ gens # <<>> => sources \in Trees
    /\ pc \in {"archive", "commit", "verifyStart", "verify", "rearchive", "stage", "uploadStart",
               "push", "pushed"} => tree \in Trees
    /\ pc \in {"commit", "stage"} => tree = sources
    /\ pc \in {"uploadStart", "push", "pushed"} => Holds(tree, sources)
    /\ pc = "pushed" => repo = tree
    /\ published =>
         repo \in Trees /\ Holds(repo, sources)
         /\ pc \in {"cmStart", "integrate", "finish", "send", "ack"}
    /\ pc \in {"cmStart", "integrate", "send"} => published

LEMMA FreshTree ==
    [applied |-> [r \in Requests |-> 0], verdict |-> "unknown", staged |-> FALSE] \in Trees
BY DEF Trees, Verdicts

LEMMA SameTree == \A t \in Trees : t # NoTree /\ Holds(t, t)
BY TreeAssumption DEF Holds

LEMMA StagedTree ==
    ASSUME NEW t \in Trees
    PROVE  /\ [t EXCEPT !.staged = TRUE] \in Trees
           /\ [t EXCEPT !.staged = TRUE].staged = TRUE
           /\ [t EXCEPT !.staged = TRUE].applied = t.applied
           /\ [t EXCEPT !.staged = TRUE].verdict = t.verdict
           /\ Holds([t EXCEPT !.staged = TRUE], t)
<1>1. /\ [t EXCEPT !.staged = TRUE] \in Trees
      /\ [t EXCEPT !.staged = TRUE].staged = TRUE
      /\ [t EXCEPT !.staged = TRUE].applied = t.applied
      /\ [t EXCEPT !.staged = TRUE].verdict = t.verdict
  BY DEF Trees
<1> DEFINE s == [t EXCEPT !.staged = TRUE]
<1> HIDE DEF s
<1>2. s \in Trees /\ s.staged = TRUE /\ s.applied = t.applied /\ s.verdict = t.verdict
  BY <1>1 DEF s
<1>3. s # NoTree /\ t # NoTree BY <1>2, TreeAssumption
<1> QED BY <1>2, <1>3 DEF Holds, s

LEMMA EditedTree ==
    ASSUME NEW t \in Trees, NEW r \in Requests
    PROVE  LET e == [t EXCEPT !.applied[r] = @ + 1, !.verdict = "unknown", !.staged = TRUE]
           IN  /\ e \in Trees
               /\ e.verdict = "unknown" /\ e.staged = TRUE
               /\ e.applied = [t.applied EXCEPT ![r] = @ + 1]
<1> DEFINE a == [t.applied EXCEPT ![r] = @ + 1]
           Edited(f) == [[[t EXCEPT !.applied = f] EXCEPT !.verdict = "unknown"] EXCEPT !.staged = TRUE]
<1>1. t.applied \in [Requests -> Nat] /\ DOMAIN t = {"applied", "verdict", "staged"}
  BY DEF Trees
<1>2. a \in [Requests -> Nat]
  <2>1. t.applied[r] + 1 \in Nat BY <1>1
  <2> QED BY <1>1, <2>1
<1>3. [t EXCEPT !.applied[r] = @ + 1, !.verdict = "unknown", !.staged = TRUE] = Edited(a)
  OBVIOUS
<1>4. \A f \in [Requests -> Nat] :
         LET e == Edited(f)
         IN  e \in Trees /\ e.verdict = "unknown" /\ e.staged = TRUE /\ e.applied = f
  BY DEF Trees, Verdicts
<1> HIDE DEF a, Edited
<1>5. /\ Edited(a) \in Trees /\ Edited(a).verdict = "unknown" /\ Edited(a).staged = TRUE
      /\ Edited(a).applied = a
  BY <1>2, <1>4
<1> QED BY <1>3, <1>5 DEF a

LEMMA JudgedTree ==
    ASSUME NEW t \in Trees, NEW v \in Verdicts
    PROVE  /\ [t EXCEPT !.verdict = v] \in Trees
           /\ [t EXCEPT !.verdict = v].verdict = v
           /\ [t EXCEPT !.verdict = v].applied = t.applied
           /\ [t EXCEPT !.verdict = v].staged = t.staged
BY DEF Trees

LEMMA ReworkRequest ==
    ASSUME PipelineInv, RequestInv, NEW m \in DOMAIN msgs, msgs[m].task = "rework_frontend"
    PROVE  msgs[m].req \in Requests
<1>1. msgs[m] \in Messages BY DEF PipelineInv, QueueInv
<1>2. msgs[m].req \in 0..MaxRequests /\ msgs[m].req # 0 BY <1>1 DEF Messages, RequestInv
<1> QED BY <1>2, BoundsAssumption DEF Requests, BoundsAssumption

LEMMA TreeStep == PipelineInv /\ RequestInv /\ TreeInv /\ [Next]_vars => TreeInv'
<1> SUFFICES ASSUME PipelineInv, RequestInv, TreeInv, [Next]_vars PROVE TreeInv' OBVIOUS
<1> USE DEF database, durable, locals, history
<1>1. CASE Works
  <2>1. /\ pc \in {"hydrate", "archive", "commit"} =>
             Task \in FrontendTasks /\ (Task = "build_frontend" <=> gens = <<>>)
        /\ pc \in BuiltSteps \cup {"edit"} => gens # <<>> /\ Task \in FrontendTasks
    BY DEF PipelineInv, StepInv, FrontendTasks
  <2>2. Task' = Task BY <1>1, WorkKeepsTask
  <2>3. CASE StartStage
    <3>1. /\ UNCHANGED <<gens, sources, repo, tree, published>>
          /\ <<pc, pc'>> \in {<<"walkStart", "walk">>, <<"analyseStart", "analyse">>,
                             <<"codeStart", "generate">>, <<"editStart", "edit">>,
                             <<"verifyStart", "verify">>, <<"uploadStart", "push">>,
                             <<"cmStart", "integrate">>}
      BY <2>3, StageNames DEF StartStage
    <3> QED BY <3>1 DEF TreeInv
  <2>4. CASE Walk \/ Analyse \/ Handoff \/ Chain \/ NoSpec
    BY <2>4 DEF TreeInv, Walk, Analyse, Handoff, Chain, NoSpec
  <2>5. CASE Hydrate BY <2>1, <2>5 DEF TreeInv, Hydrate
  <2>6. CASE Generate BY <2>6, FreshTree DEF TreeInv, Generate
  <2>7. CASE Edit
    <3>1. Task = "rework_frontend" /\ cur \in DOMAIN msgs
      BY <1>1, <2>7, WorkKeepsTask DEF Edit, PipelineInv, StepInv
    <3>2. msgs[cur].req \in Requests BY <3>1, ReworkRequest DEF Task
    <3>3. sources \in Trees BY <2>1, <2>7 DEF TreeInv, Edit
    <3> QED BY <2>7, <3>2, <3>3, EditedTree DEF TreeInv, Edit
  <2>8. CASE Verify \/ RenderFails
    <3>1. tree' \in Trees
      <4>1. tree \in Trees BY <2>8 DEF TreeInv, Verify, RenderFails
      <4>2. PICK v \in Verdicts : tree' = [tree EXCEPT !.verdict = v]
        BY <2>8, <4>1 DEF Verify, RenderFails, Verdicts, Trees
      <4> QED BY <4>1, <4>2, JudgedTree
    <3> QED BY <2>8, <3>1 DEF TreeInv, Verify, RenderFails, AfterVerify
  <2>9. CASE Archive BY <2>9 DEF TreeInv, Archive
  <2>10. CASE Commit
    <3>1. pc' \in {"verifyStart", "stage", "uploadStart", "finish"}
      BY <2>1, <2>10 DEF Commit, AfterCommit, FrontendTasks
    <3>2. tree \in Trees /\ tree = sources /\ Holds(tree, sources)
      BY <2>10, SameTree DEF TreeInv, Commit
    <3> QED BY <2>10, <3>1, <3>2 DEF TreeInv, Commit
  <2>11. CASE Push \/ PushFails \/ Finish \/ Send
    BY <2>11 DEF TreeInv, Push, PushFails, Finish, Send, Follows
  <2>13. CASE StageAssets
    <3>1. /\ pc = "stage" /\ pc' \in {"uploadStart", "finish"} /\ tree' = [tree EXCEPT !.staged = TRUE]
          /\ UNCHANGED <<gens, sources, repo, published>>
      BY <2>13 DEF StageAssets
    <3>2. tree \in Trees /\ tree = sources BY <3>1 DEF TreeInv
    <3>3. tree' \in Trees /\ Holds(tree', sources) BY <3>1, <3>2, StagedTree
    <3>4. Holds(tree, sources)' BY <3>1, <3>3
    <3> QED BY <3>1, <3>3, <3>4 DEF TreeInv
  <2>12. CASE RecordPush \/ Integrate
    BY <2>1, <2>12 DEF TreeInv, RecordPush, Integrate, BuiltSteps
  <2> QED BY <1>1, <2>3, <2>4, <2>5, <2>6, <2>7, <2>8, <2>9, <2>10, <2>11, <2>12, <2>13
          DEF Works, Moves
<1>2. CASE Deliver
  <2>1. /\ pc' = TakesOver(Task') /\ Task' \in TaskNames /\ pc = "idle"
        /\ UNCHANGED <<gens, sources, repo, tree, published>>
    BY <1>2, Delivered
  <2> QED BY <2>1 DEF TreeInv, TakesOver, TaskNames
<1>3. CASE ChainSend BY <1>3, ChainSends DEF TreeInv
<1>4. CASE Ends BY <1>4, EndChanges DEF TreeInv, Forget
<1>5. ASSUME NEW t \in TaskNames, Routed(t) PROVE TreeInv'
  BY <1>5, RequestSends DEF TreeInv, Routed
<1>6. CASE UNCHANGED vars BY <1>6, VarsKept DEF TreeInv
<1> QED BY <1>1, <1>2, <1>3, <1>4, <1>5, <1>6, NextCases

\* Where the staged assets are: in the sources as soon as a rework is recorded, in what
\* the agents or the judge work on if they are in the sources, and in what
\* build_frontend and rework_frontend push.
AssetInv ==
    /\ (\E g \in DOMAIN gens : gens[g].by = "rework_frontend") => sources.staged
    /\ pc \in {"archive", "verifyStart", "verify", "rearchive"} /\ gens # <<>> =>
         (sources.staged => tree.staged)
    /\ pc = "archive" /\ Task = "rework_frontend" => tree.staged
    /\ pc = "commit" /\ Task = "rework_frontend" => sources.staged
    /\ pc \in {"uploadStart", "push", "pushed"} /\ Task # "reverify_web" => tree.staged
    /\ published /\ Task # "reverify_web" => repo.staged

LEMMA AssetStep ==
    PipelineInv /\ TaskInv /\ RequestInv /\ TreeInv /\ AssetInv /\ [Next]_vars => AssetInv'
<1> SUFFICES ASSUME PipelineInv, TaskInv, RequestInv, TreeInv, AssetInv, [Next]_vars
             PROVE  AssetInv'
  OBVIOUS
<1> USE DEF database, durable, locals, history
<1>1. CASE Works
  <2>1. /\ pc \in {"hydrate", "archive", "commit"} =>
             Task \in FrontendTasks /\ (Task = "build_frontend" <=> gens = <<>>)
        /\ pc \in BuiltSteps \cup {"edit"} => gens # <<>> /\ Task \in FrontendTasks
        /\ pc \in {"codeStart", "generate"} => Task = "build_frontend" /\ gens = <<>>
        /\ pc \in {"rearchive", "stage"} => Task = "build_frontend"
    BY DEF PipelineInv, StepInv, FrontendTasks, TaskInv
  <2>2. Task' = Task /\ cur \in DOMAIN msgs /\ UNCHANGED <<msgs, cur>> BY <1>1, WorkKeepsTask
  <2>3. CASE StartStage
    <3>1. /\ UNCHANGED <<gens, sources, repo, tree, published>>
          /\ <<pc, pc'>> \in {<<"walkStart", "walk">>, <<"analyseStart", "analyse">>,
                             <<"codeStart", "generate">>, <<"editStart", "edit">>,
                             <<"verifyStart", "verify">>, <<"uploadStart", "push">>,
                             <<"cmStart", "integrate">>}
      BY <2>3, StageNames DEF StartStage
    <3> QED BY <2>2, <3>1 DEF AssetInv
  <2>4. CASE Walk \/ Analyse \/ Handoff \/ Chain \/ NoSpec
    BY <2>2, <2>4 DEF AssetInv, Walk, Analyse, Handoff, Chain, NoSpec
  <2>5. CASE Hydrate BY <2>1, <2>2, <2>5 DEF AssetInv, Hydrate
  <2>6. CASE Generate BY <2>1, <2>2, <2>6 DEF AssetInv, Generate
  <2>7. CASE Edit
    <3>1. Task = "rework_frontend"
      BY <1>1, <2>7, WorkKeepsTask DEF Edit, PipelineInv, StepInv
    <3>2. msgs[cur].req \in Requests BY <2>2, <3>1, ReworkRequest DEF Task
    <3>3. sources \in Trees BY <2>1, <2>7 DEF TreeInv, Edit
    <3>4. /\ pc' = "archive" /\ UNCHANGED <<gens, sources, repo, published>>
          /\ tree' = [sources EXCEPT !.applied[msgs[cur].req] = @ + 1, !.verdict = "unknown",
                                     !.staged = TRUE]
      BY <2>7 DEF Edit
    <3>5. tree'.staged BY <3>2, <3>3, <3>4, EditedTree
    <3> QED BY <2>2, <3>4, <3>5 DEF AssetInv
  <2>8. CASE Verify \/ RenderFails
    <3>1. tree \in Trees /\ pc = "verify" BY <2>8 DEF TreeInv, Verify, RenderFails
    <3>2. PICK v \in Verdicts : tree' = [tree EXCEPT !.verdict = v]
      BY <2>8, <3>1 DEF Verify, RenderFails, Verdicts, Trees
    <3>3. tree'.staged = tree.staged BY <3>1, <3>2, JudgedTree
    <3>4. /\ UNCHANGED <<gens, sources, repo, published>> /\ pc' = AfterVerify
          /\ AfterVerify \in {"archive", "rearchive"}
      BY <2>8 DEF Verify, RenderFails, AfterVerify
    <3>5. Task # "rework_frontend" BY <3>1 DEF TaskInv
    <3> QED BY <2>1, <2>2, <3>1, <3>3, <3>4, <3>5 DEF AssetInv, BuiltSteps
  <2>9. CASE Archive
    <3>1. /\ pc \in {"archive", "rearchive"} /\ pc' \in {"commit", "stage"} /\ sources' = tree
          /\ UNCHANGED <<gens, repo, tree, published>>
      BY <2>9 DEF Archive
    <3>2. ~published BY <3>1 DEF TreeInv
    <3>3. pc = "archive" \/ Task # "rework_frontend" BY <2>1, <3>1
    <3>4. (\E g \in DOMAIN gens : gens[g].by = "rework_frontend") => gens # <<>> OBVIOUS
    <3> QED BY <2>2, <3>1, <3>2, <3>3, <3>4 DEF AssetInv
  <2>10. CASE Commit
    <3>1. /\ pc = "commit" /\ pc' \in {"verifyStart", "stage", "uploadStart", "finish"}
          /\ Task = "build_frontend" => pc' # "uploadStart"
          /\ UNCHANGED <<sources, repo, tree, published>>
      BY <2>1, <2>10 DEF Commit, AfterCommit, FrontendTasks
    <3>2. tree = sources /\ ~published BY <3>1 DEF TreeInv
    <3>3. \A g \in DOMAIN gens' : \/ g \in DOMAIN gens /\ gens'[g] = gens[g]
                                 \/ gens'[g].by = Task
      <4> DEFINE old == IF gens = <<>> THEN [repo |-> FALSE, cm |-> FALSE] ELSE LastGen
                 n == [by |-> Task, repo |-> old.repo, cm |-> old.cm]
      <4>1. n.by = Task /\ gens' = Append(gens, n)
        BY <2>10 DEF Commit
      <4>2. gens \in Seq(Gens) BY DEF PipelineInv, RowInv
      <4> HIDE DEF n
      <4>3. /\ DOMAIN gens' = DOMAIN gens \cup {Len(gens) + 1}
            /\ gens'[Len(gens) + 1] = n /\ \A g \in DOMAIN gens : gens'[g] = gens[g]
        BY <4>1, <4>2
      <4> QED BY <4>1, <4>3
    <3>4. (\E g \in DOMAIN gens' : gens'[g].by = "rework_frontend")
            => \/ Task = "rework_frontend"
               \/ \E g \in DOMAIN gens : gens[g].by = "rework_frontend"
      BY <3>3
    <3>5. Task = "rework_frontend" => sources.staged BY <3>1 DEF AssetInv
    <3>6. (\E g \in DOMAIN gens' : gens'[g].by = "rework_frontend") => sources.staged
      BY <3>4, <3>5 DEF AssetInv
    <3>7. pc' = "uploadStart" /\ Task # "reverify_web" => tree.staged
      BY <2>1, <3>1, <3>2, <3>5 DEF FrontendTasks
    <3> QED BY <2>2, <3>1, <3>2, <3>6, <3>7 DEF AssetInv
  <2>11. CASE PushFails \/ Finish \/ Send
    BY <2>2, <2>11 DEF AssetInv, PushFails, Finish, Send
  <2>12. CASE Push
    <3>1. ~published BY <2>12 DEF TreeInv, Push
    <3> QED BY <2>2, <2>12, <3>1 DEF AssetInv, Push
  <2>13. CASE StageAssets
    <3>1. /\ pc = "stage" /\ pc' \in {"uploadStart", "finish"} /\ tree' = [tree EXCEPT !.staged = TRUE]
          /\ UNCHANGED <<gens, sources, repo, published>>
      BY <2>13 DEF StageAssets
    <3>2. tree \in Trees BY <3>1 DEF TreeInv
    <3>3. tree'.staged BY <3>1, <3>2, StagedTree
    <3> QED BY <2>2, <3>1, <3>3 DEF AssetInv
  <2>14. CASE RecordPush \/ Integrate
    <3>1. /\ UNCHANGED <<sources, repo, tree>> /\ pc \in {"pushed", "integrate"}
          /\ pc' \in {"cmStart", "finish"}
      BY <2>14 DEF RecordPush, Integrate
    <3>2. \A g \in DOMAIN gens' : g \in DOMAIN gens /\ gens'[g].by = gens[g].by
      <4>1. gens \in Seq(Gens) BY DEF PipelineInv, RowInv
      <4>2. gens # <<>> BY <2>1, <3>1 DEF BuiltSteps
      <4>3. Len(gens) \in DOMAIN gens /\ gens[Len(gens)] \in Gens BY <4>1, <4>2
      <4>4. CASE UNCHANGED gens BY <4>4
      <4>5. CASE gens' = [gens EXCEPT ![Len(gens)].repo = TRUE]
        BY <4>1, <4>3, <4>5 DEF Gens
      <4>6. CASE gens' = [gens EXCEPT ![Len(gens)].cm = TRUE]
        BY <4>1, <4>3, <4>6 DEF Gens
      <4> QED BY <2>14, <4>4, <4>5, <4>6 DEF RecordPush, Integrate
    <3>3. published' => published \/ pc = "pushed" BY <2>14 DEF RecordPush, Integrate
    <3>4. pc = "pushed" => repo = tree BY DEF TreeInv
    <3> QED BY <2>2, <3>1, <3>2, <3>3, <3>4 DEF AssetInv
  <2> QED BY <1>1, <2>3, <2>4, <2>5, <2>6, <2>7, <2>8, <2>9, <2>10, <2>11, <2>12, <2>13, <2>14
          DEF Works, Moves
<1>2. CASE Deliver
  <2>1. /\ pc' = TakesOver(Task') /\ Task' \in TaskNames /\ pc = "idle"
        /\ UNCHANGED <<gens, sources, repo, tree, published>>
    BY <1>2, Delivered
  <2>2. pc' \in {"walkStart", "hydrate", "editStart", "ack"} BY <2>1 DEF TakesOver, TaskNames
  <2>3. ~published BY <2>1 DEF TreeInv
  <2> QED BY <2>1, <2>2, <2>3 DEF AssetInv
<1>3. CASE ChainSend
  <2>1. pc = "chainSend" /\ pc' = "ack" /\ UNCHANGED <<gens, sources, repo, tree, published>>
    BY <1>3 DEF ChainSend
  <2>2. ~published BY <2>1 DEF TreeInv
  <2> QED BY <2>1, <2>2 DEF AssetInv
<1>4. CASE Ends
  BY <1>4, EndChanges DEF AssetInv, Forget
<1>5. ASSUME NEW t \in TaskNames, Routed(t) PROVE AssetInv'
  <2>1. UNCHANGED <<gens, sources, repo, tree, pc, published>> /\ (pc # "idle" => Task' = Task)
    BY <1>5, RequestSends DEF Routed
  <2>2. pc = "idle" => ~published BY DEF TreeInv
  <2> QED BY <2>1, <2>2 DEF AssetInv
<1>6. CASE UNCHANGED vars BY <1>6, VarsKept DEF AssetInv, Task
<1> QED BY <1>1, <1>2, <1>3, <1>4, <1>5, <1>6, NextCases

\* build_frontend, rework_frontend and reverify_web store the sources and push at
\* steps of their own, build_frontend stages assets between the two, and a push may
\* fail: a CodeMagic build is asked for only when the repository holds the stored app,
\* and only a reverification of an app that was never reworked leaves out the assets.
THEOREM BuildsStored == Spec => []CodemagicBuildsStored
<1>1. Init => TaskInv /\ RequestInv /\ TreeInv /\ AssetInv
  BY InitTasks DEF Init, TreeInv, AssetInv
<1>2. PipelineInv /\ TaskInv /\ TreeInv /\ AssetInv => CodemagicBuildsStored
  <2> SUFFICES ASSUME TreeInv, AssetInv, pc = "send" PROVE
        /\ Holds(repo, sources)
        /\ repo.staged \/ (Task = "reverify_web"
                           /\ \A g \in DOMAIN gens : gens[g].by # "rework_frontend")
    BY DEF CodemagicBuildsStored
  <2>1. published /\ Holds(repo, sources) BY DEF TreeInv
  <2>2. sources.staged => repo.staged BY <2>1 DEF Holds
  <2> QED BY <2>1, <2>2 DEF AssetInv
<1> QED BY InitInv, NextKeepsInv, TaskStep, RequestStep, TreeStep, AssetStep, <1>1, <1>2, PTL DEF Spec

-----------------------------------------------------------------------------
\* Where a tree with known gaps may be: under a gate, or where no push follows.
GateInv ==
    /\ badRenders \in Nat
    /\ HardGate /\ badRenders = 0 /\ pc \in {"archive", "commit", "rearchive", "stage"} =>
         (tree.verdict = "gaps" => gated /\ Task # "rework_frontend")
    /\ HardGate /\ badRenders = 0 /\ pc \in {"uploadStart", "push"} => tree.verdict # "gaps"
    /\ KnownGapsNotPublished

LEMMA GateStep ==
    PipelineInv /\ TaskInv /\ RequestInv /\ TreeInv /\ GateInv /\ [Next]_vars => GateInv'
<1> SUFFICES ASSUME PipelineInv, TaskInv, RequestInv, TreeInv, GateInv, [Next]_vars
             PROVE  GateInv'
  OBVIOUS
<1> USE DEF database, durable, locals, history, KnownGapsNotPublished
<1>1. CASE Works
  <2>1. /\ pc \in {"hydrate", "archive", "commit"} =>
             Task \in FrontendTasks /\ (Task = "build_frontend" <=> gens = <<>>)
        /\ pc \in BuiltSteps \cup {"edit"} => gens # <<>> /\ Task \in FrontendTasks
    BY DEF PipelineInv, StepInv, FrontendTasks
  <2>2. Task' = Task BY <1>1, WorkKeepsTask
  <2>3. CASE StartStage
    BY <2>3, StageNames DEF GateInv, StartStage
  <2>4. CASE Walk \/ Analyse \/ Handoff \/ Chain \/ NoSpec
    BY <2>4 DEF GateInv, Walk, Analyse, Handoff, Chain, NoSpec
  <2>5. CASE Hydrate BY <2>5 DEF GateInv, Hydrate
  <2>6. CASE Generate BY <2>6 DEF GateInv, Generate
  <2>7. CASE Edit
    <3>1. Task = "rework_frontend" /\ cur \in DOMAIN msgs
      BY <1>1, <2>7, WorkKeepsTask DEF Edit, PipelineInv, StepInv
    <3>2. msgs[cur].req \in Requests BY <3>1, ReworkRequest DEF Task
    <3>3. sources \in Trees BY <2>1, <2>7 DEF TreeInv, Edit
    <3> QED BY <2>7, <3>2, <3>3, EditedTree DEF GateInv, Edit
  <2>8. CASE Verify
    <3>1. Task # "rework_frontend" /\ tree \in Trees BY <2>8 DEF TaskInv, TreeInv, Verify
    <3>2. tree'.verdict = "gaps" => (HardGate => gated')
      <4>1. PICK v \in {"closed", "gaps"} :
                tree' = [tree EXCEPT !.verdict = v] /\ gated' = (HardGate /\ v = "gaps")
        BY <2>8 DEF Verify
      <4>2. v \in Verdicts
        BY DEF Verdicts
      <4>3. tree'.verdict = v
        BY <3>1, <4>1, <4>2, JudgedTree
      <4> QED  BY <4>1, <4>3
    <3> QED BY <2>2, <2>8, <3>1, <3>2 DEF GateInv, Verify, AfterVerify
  <2>9. CASE RenderFails
    BY <2>9 DEF GateInv, RenderFails, AfterVerify
  <2>10. CASE Archive BY <2>2, <2>10 DEF GateInv, Archive
  <2>11. CASE Commit
    BY <2>1, <2>2, <2>11 DEF GateInv, Commit, AfterCommit, FrontendTasks
  <2>12. CASE PushFails \/ Finish \/ Send
    BY <2>12 DEF GateInv, PushFails, Finish, Send
  <2>15. CASE StageAssets
    <3>1. /\ pc = "stage" /\ pc' = (IF GithubPublish /\ ~gated THEN "uploadStart" ELSE "finish")
          /\ tree' = [tree EXCEPT !.staged = TRUE] /\ UNCHANGED <<repo, badRenders>>
      BY <2>15 DEF StageAssets
    <3>2. tree \in Trees BY <3>1 DEF TreeInv
    <3>3. tree'.verdict = tree.verdict BY <3>1, <3>2, StagedTree
    <3> QED BY <3>1, <3>3 DEF GateInv
  <2>13. CASE Push BY <2>13 DEF GateInv, Push
  <2>14. CASE RecordPush \/ Integrate
    BY <2>14 DEF GateInv, RecordPush, Integrate
  <2> QED BY <1>1, <2>3, <2>4, <2>5, <2>6, <2>7, <2>8, <2>9, <2>10, <2>11, <2>12, <2>13, <2>14, <2>15
          DEF Works, Moves
<1>2. CASE Deliver
  <2>1. /\ pc' = TakesOver(Task') /\ Task' \in TaskNames
        /\ UNCHANGED <<repo, tree, badRenders>>
    BY <1>2, Delivered
  <2> QED BY <2>1 DEF GateInv, TakesOver, TaskNames
<1>3. CASE ChainSend BY <1>3, ChainSends DEF GateInv
<1>4. CASE Ends
  <2>1. badRenders' = badRenders
    BY <1>4 DEF Ends, Ack, Fail, SendFails, Crash
  <2> QED BY <1>4, <2>1, EndChanges DEF GateInv, Forget
<1>5. ASSUME NEW t \in TaskNames, Routed(t) PROVE GateInv'
  BY <1>5, RequestSends DEF GateInv, Routed
<1>6. CASE UNCHANGED vars BY <1>6, VarsKept DEF GateInv, Task
<1> QED BY <1>1, <1>2, <1>3, <1>4, <1>5, <1>6, NextCases

\* A version whose structural gaps are known never becomes the head of the
\* repository, although build, rework and reverify reach the upload by three
\* different paths and only one of them asks the gate at the upload itself.
THEOREM GapsKeptBack == Spec => []KnownGapsNotPublished
<1>1. Init => TaskInv /\ RequestInv /\ TreeInv /\ GateInv
  BY InitTasks DEF Init, TreeInv, GateInv, KnownGapsNotPublished
<1>2. GateInv => KnownGapsNotPublished BY DEF GateInv
<1> QED
  BY InitInv, NextKeepsInv, TaskStep, RequestStep, TreeStep, GateStep, <1>1, <1>2, PTL DEF Spec

-----------------------------------------------------------------------------
(***************************************************************************)
(* How often a request is in the stored sources.  A message is Worked once *)
(* the archive of its task is stored; then its request is in the sources   *)
(* one more time than the task was retried or its worker died.             *)
(***************************************************************************)
Before == {"idle", "editStart", "edit", "archive"}
Worked(m) == msgs[m].status # "queued" \/ (m = cur /\ pc \notin Before)
Times(m)  == sources.applied[msgs[m].req]
Counted(m) ==
    /\ Times(m) <= msgs[m].retries + crashes + (IF Worked(m) THEN 1 ELSE 0)
    /\ Worked(m) /\ msgs[m].status # "dead" => Times(m) >= 1

\* A request that was not made yet is in no tree.
NotYet(t) == \A r \in Requests : r > requests => t.applied[r] = 0

ReworkInv ==
    /\ crashes \in Nat
    /\ gens # <<>> => NotYet(sources)
    /\ pc \in {"archive", "commit", "verifyStart", "verify", "rearchive"} => NotYet(tree)
    /\ pc \in {"verifyStart", "verify", "rearchive"} => tree.applied = sources.applied
    /\ pc = "archive" /\ Task = "reverify_web" => tree.applied = sources.applied
    /\ pc = "archive" /\ Task = "rework_frontend" =>
         tree.applied = [sources.applied EXCEPT ![msgs[cur].req] = @ + 1]
    /\ \A m \in Reworks : Counted(m)

\* The numbers that Counted compares.
LEMMA ReworkTypes ==
    ASSUME PipelineInv, TaskInv, RequestInv, TreeInv, NEW m \in Reworks
    PROVE  /\ m \in DOMAIN msgs /\ msgs[m].req \in Requests /\ msgs[m].retries \in Nat
           /\ gens # <<>> /\ sources \in Trees /\ Times(m) \in Nat
<1>1. m \in DOMAIN msgs /\ msgs[m].task = "rework_frontend" BY DEF Reworks
<1>2. msgs[m] \in Messages BY <1>1 DEF PipelineInv, QueueInv
<1>3. msgs[m].retries \in Nat BY <1>2, BoundsAssumption DEF Messages
<1>4. msgs[m].req \in Requests BY <1>1, ReworkRequest
<1>5. gens # <<>> /\ sources \in Trees BY <1>1 DEF TaskInv, TreeInv
<1>6. sources.applied \in [Requests -> Nat] BY <1>5 DEF Trees
<1> QED BY <1>1, <1>3, <1>4, <1>5, <1>6 DEF Times

\* A step that stores nothing, at which no rework passes its archive.
LEMMA CountsKept ==
    ASSUME \A m \in Reworks : Counted(m), UNCHANGED <<msgs, cur, crashes>>,
           sources'.applied = sources.applied,
           cur \in Reworks => (pc \in Before <=> pc' \in Before)
    PROVE  \A m \in Reworks' : Counted(m)'
<1> SUFFICES ASSUME NEW m \in Reworks' PROVE Counted(m)' OBVIOUS
<1>1. m \in Reworks /\ Counted(m) BY DEF Reworks
<1>2. Worked(m)' <=> Worked(m) BY <1>1 DEF Worked
<1>3. Times(m)' = Times(m) BY DEF Times
<1> QED BY <1>1, <1>2, <1>3 DEF Counted

LEMMA ArchiveCounts ==
    PipelineInv /\ TaskInv /\ RequestInv /\ TreeInv /\ ReworkInv /\ Archive => ReworkInv'
<1> SUFFICES ASSUME PipelineInv, TaskInv, RequestInv, TreeInv, ReworkInv, Archive
             PROVE  ReworkInv'
  OBVIOUS
<1>1. /\ pc \in {"archive", "rearchive"} /\ pc' \in {"commit", "stage"} /\ sources' = tree
      /\ UNCHANGED <<gens, tree, requests>>
  BY DEF Archive, database, locals, history
<1>2. /\ UNCHANGED <<msgs, cur, requests, crashes>> /\ Task' = Task /\ cur \in DOMAIN msgs
      /\ Task \in TaskNames
  BY WorkKeepsTask DEF Works, Moves
<1>3. NotYet(tree) /\ NotYet(tree)' /\ NotYet(sources)'
  BY <1>1 DEF ReworkInv, NotYet
<1>4. \A m \in Reworks' : Counted(m)'
  <2>1. CASE pc = "archive" /\ Task = "rework_frontend"
    <3> SUFFICES ASSUME NEW m \in Reworks' PROVE Counted(m)' OBVIOUS
    <3>1. m \in Reworks /\ cur \in Reworks BY <1>2, <2>1 DEF Reworks, Task
    <3>2. /\ msgs[m].req \in Requests /\ msgs[m].retries \in Nat /\ m \in DOMAIN msgs
          /\ Times(m) \in Nat /\ msgs[cur].req \in Requests
          /\ sources.applied \in [Requests -> Nat]
      BY <3>1, ReworkTypes DEF Trees
    <3>3. sources'.applied = [sources.applied EXCEPT ![msgs[cur].req] = @ + 1]
      BY <1>1, <2>1 DEF ReworkInv
    <3>4. Counted(m) /\ crashes \in Nat /\ crashes' = crashes BY <1>2, <3>1 DEF ReworkInv
    <3>5. CASE m = cur
      <4>1. ~Worked(m) /\ Worked(m)'
        BY <1>1, <1>2, <2>1, <3>5 DEF Worked, RequestInv, Before
      <4>2. Times(m)' = Times(m) + 1 BY <1>2, <3>2, <3>3, <3>5 DEF Times
      <4>3. Times(m) <= msgs[m].retries + crashes BY <3>2, <3>4, <4>1 DEF Counted
      <4> QED BY <1>2, <3>2, <3>4, <4>1, <4>2, <4>3 DEF Counted
    <3>6. CASE m # cur
      <4>1. msgs[m].req # msgs[cur].req
        BY <1>2, <3>1, <3>2, <3>6 DEF RequestInv, Reworks
      <4>2. Times(m)' = Times(m) BY <1>2, <3>2, <3>3, <4>1 DEF Times
      <4>3. Worked(m)' <=> Worked(m) BY <1>2, <3>6 DEF Worked
      <4> QED BY <1>2, <3>4, <4>2, <4>3 DEF Counted
    <3> QED BY <3>5, <3>6
  <2>2. CASE pc = "archive" /\ Task = "build_frontend"
    <3>1. gens = <<>> BY <2>2 DEF PipelineInv, StepInv
    <3>2. Reworks' = {} BY <1>2, <3>1 DEF Reworks, TaskInv
    <3> QED BY <3>2
  <2>3. CASE pc = "rearchive" \/ (pc = "archive" /\ Task = "reverify_web")
    <3>1. sources'.applied = sources.applied BY <1>1, <2>3 DEF ReworkInv
    <3>2. Task # "rework_frontend" BY <2>3 DEF TaskInv
    <3>3. cur \notin Reworks BY <3>2 DEF Reworks, Task
    <3> QED BY <1>2, <3>1, <3>3, CountsKept DEF ReworkInv
  <2>4. pc = "archive" => Task \in FrontendTasks BY DEF PipelineInv, StepInv
  <2> QED BY <1>1, <2>1, <2>2, <2>3, <2>4 DEF FrontendTasks
<1> QED BY <1>1, <1>2, <1>3, <1>4 DEF ReworkInv

\* The steps of a task between its delivery and its end, but for the archive.
LEMMA WorkCounts ==
    /\ PipelineInv /\ TaskInv /\ RequestInv /\ TreeInv /\ ReworkInv
    /\ Works /\ ~Archive
    => ReworkInv'
<1> SUFFICES ASSUME PipelineInv, TaskInv, RequestInv, TreeInv, ReworkInv, Works, ~Archive
             PROVE  ReworkInv'
  OBVIOUS
<1> USE DEF database, durable, locals, history
<1> DEFINE Held ==
       /\ pc \in {"archive", "commit", "verifyStart", "verify", "rearchive"} => NotYet(tree)
       /\ pc \in {"verifyStart", "verify", "rearchive"} => tree.applied = sources.applied
       /\ pc = "archive" /\ Task = "reverify_web" => tree.applied = sources.applied
       /\ pc = "archive" /\ Task = "rework_frontend" =>
            tree.applied = [sources.applied EXCEPT ![msgs[cur].req] = @ + 1]
       /\ gens # <<>> => NotYet(sources)
<1>1. /\ UNCHANGED <<msgs, cur, requests, crashes>> /\ Task' = Task /\ cur \in DOMAIN msgs
      /\ pc # "idle" /\ (cur \in Reworks <=> Task = "rework_frontend")
  BY WorkKeepsTask DEF Reworks, Task
<1>2. Held /\ crashes \in Nat BY DEF ReworkInv
<1>3. /\ pc \in {"hydrate", "archive", "commit"} =>
           Task \in FrontendTasks /\ (Task = "build_frontend" <=> gens = <<>>)
      /\ pc \in BuiltSteps \cup {"edit"} => gens # <<>> /\ Task \in FrontendTasks
      /\ pc \in {"codeStart", "generate"} => Task = "build_frontend"
      /\ pc \in {"editStart", "edit"} => Task = "rework_frontend"
      /\ pc \in {"hydrate", "verifyStart", "verify"} => Task # "rework_frontend"
      /\ pc \in {"walkStart", "walk", "analyseStart", "analyse", "handoff", "chain"} =>
           Task = "run_job"
  BY DEF PipelineInv, StepInv, FrontendTasks, RunJobSteps, TaskInv
<1> DEFINE Sound == /\ Held'
                    /\ sources' = sources
                    /\ cur \in Reworks => (pc \in Before <=> pc' \in Before)
<1>4. ASSUME StartStage PROVE Sound
  <2>1. <<pc, pc'>> \in {<<"walkStart", "walk">>, <<"analyseStart", "analyse">>,
                         <<"codeStart", "generate">>, <<"editStart", "edit">>,
                         <<"verifyStart", "verify">>, <<"uploadStart", "push">>,
                         <<"cmStart", "integrate">>}
    BY <1>4, StageNames DEF StartStage
  <2>2. UNCHANGED <<gens, sources, tree>> BY <1>4 DEF StartStage
  <2> QED BY <1>1, <1>2, <1>3, <2>1, <2>2 DEF Before, NotYet
<1>5. ASSUME Walk \/ Analyse \/ Handoff \/ Chain \/ NoSpec PROVE Sound
  BY <1>1, <1>2, <1>3, <1>5 DEF Before, NotYet, Walk, Analyse, Handoff, Chain, NoSpec
<1>6. ASSUME Hydrate PROVE Sound
  BY <1>1, <1>2, <1>3, <1>6 DEF Before, NotYet, Hydrate, FrontendTasks
<1>7. ASSUME Generate PROVE Sound
  BY <1>1, <1>2, <1>3, <1>7, FreshTree DEF Before, NotYet, Generate
<1>8. ASSUME Edit PROVE Sound
  <2>1. msgs[cur].req \in Requests /\ gens # <<>> /\ sources \in Trees
    BY <1>1, <1>3, <1>8, ReworkRequest DEF Edit, Task, TreeInv
  <2>2. tree'.applied = [sources.applied EXCEPT ![msgs[cur].req] = @ + 1]
    BY <1>8, <2>1, EditedTree DEF Edit
  <2>3. msgs[cur].req <= requests BY <1>1 DEF RequestInv
  <2>4. NotYet(tree)'
    <3> SUFFICES ASSUME NEW r \in Requests, r > requests PROVE tree'.applied[r] = 0
      BY <1>1 DEF NotYet
    <3>1. r # msgs[cur].req
      BY <2>1, <2>3, BoundsAssumption DEF Requests, PipelineInv, QueueInv
    <3>2. sources.applied \in [Requests -> Nat] BY <2>1 DEF Trees
    <3> QED BY <1>2, <2>1, <2>2, <3>1, <3>2 DEF NotYet
  <2> QED BY <1>1, <1>2, <1>3, <1>8, <2>2, <2>4 DEF Before, NotYet, Edit
<1>9. ASSUME Verify \/ RenderFails PROVE Sound
  <2>1. tree \in Trees /\ pc = "verify" BY <1>9 DEF TreeInv, Verify, RenderFails
  <2>2. PICK v \in Verdicts : tree' = [tree EXCEPT !.verdict = v]
    BY <1>9, <2>1 DEF Verify, RenderFails, Verdicts, Trees
  <2>3. tree'.applied = tree.applied BY <2>1, <2>2, JudgedTree
  <2>4. UNCHANGED <<gens, sources>> /\ pc' \in {"archive", "rearchive"}
    BY <1>9 DEF Verify, RenderFails, AfterVerify
  <2> QED BY <1>1, <1>2, <1>3, <2>1, <2>3, <2>4 DEF Before, NotYet
<1>10. ASSUME Commit PROVE Sound
  <2>1. /\ pc = "commit" /\ UNCHANGED <<sources, tree>>
        /\ pc' \in {"verifyStart", "stage", "uploadStart", "finish"}
    BY <1>3, <1>10 DEF Commit, AfterCommit, FrontendTasks
  <2>2. tree = sources BY <2>1 DEF TreeInv
  <2> QED BY <1>1, <1>2, <1>3, <2>1, <2>2 DEF Before, NotYet
<1>11. ASSUME StageAssets \/ Push \/ PushFails \/ Finish \/ Send PROVE Sound
  BY <1>1, <1>2, <1>3, <1>11
     DEF Before, NotYet, BuiltSteps, StageAssets, Push, PushFails, Finish, Send
<1>12. ASSUME RecordPush \/ Integrate PROVE Sound
  BY <1>1, <1>2, <1>3, <1>12 DEF Before, NotYet, BuiltSteps, RecordPush, Integrate
<1>13. Sound
  <2> HIDE DEF Sound
  <2> QED BY <1>4, <1>5, <1>6, <1>7, <1>8, <1>9, <1>10, <1>11, <1>12 DEF Works, Moves
<1>14. \A m \in Reworks' : Counted(m)'
  BY <1>1, <1>13, CountsKept DEF ReworkInv
<1> QED BY <1>1, <1>2, <1>13, <1>14 DEF ReworkInv

\* The end of a task: a retry or a death allows the request once more.
LEMMA EndCounts ==
    PipelineInv /\ TaskInv /\ RequestInv /\ TreeInv /\ ReworkInv /\ Ends => ReworkInv'
<1> SUFFICES ASSUME PipelineInv, TaskInv, RequestInv, TreeInv, ReworkInv, Ends
             PROVE  ReworkInv'
  OBVIOUS
<1>1. /\ pc # "idle" /\ pc' = "idle" /\ cur' = 0 /\ cur \in DOMAIN msgs
      /\ UNCHANGED <<gens, sources, requests>>
      /\ MessagesGrow /\ DOMAIN msgs' = DOMAIN msgs
      /\ \A m \in DOMAIN msgs : m # cur => msgs'[m] = msgs[m]
  BY EndChanges
<1>2. /\ msgs \in Seq(Messages) /\ msgs[cur] \in Messages /\ msgs[cur].status = "queued"
      /\ 0 \notin DOMAIN msgs
  BY <1>1 DEF PipelineInv, QueueInv, RequestInv
<1>3. crashes \in Nat /\ crashes' \in Nat /\ crashes <= crashes'
  <2>1. crashes' = crashes \/ crashes' = crashes + 1
    BY DEF Ends, Ack, Fail, SendFails, Crash, history
  <2> QED BY <2>1 DEF ReworkInv
<1>4. ASSUME NEW m \in Reworks' PROVE Counted(m)'
  <2>1. m \in Reworks /\ m # 0 BY <1>1, <1>2, <1>4 DEF Reworks, MessagesGrow
  <2>2. /\ m \in DOMAIN msgs /\ msgs[m].retries \in Nat /\ Times(m) \in Nat /\ Counted(m)
    BY <2>1, ReworkTypes DEF ReworkInv
  <2>3. Times(m)' = Times(m) BY <1>1, <2>2 DEF Times, MessagesGrow
  <2>4. CASE m # cur
    <3>1. Worked(m)' <=> Worked(m) BY <1>1, <2>1, <2>2, <2>4 DEF Worked
    <3>2. msgs'[m] = msgs[m] BY <1>1, <2>2, <2>4
    <3> QED BY <1>3, <2>2, <2>3, <3>1, <3>2 DEF Counted
  <2>5. CASE m = cur
    <3>1. Times(m) <= msgs[m].retries + crashes + 1 BY <1>3, <2>2 DEF Counted
    <3>2. CASE Ack
      <4>1. msgs' = [msgs EXCEPT ![cur].status = "acked"] /\ pc = "ack" /\ crashes' = crashes
        BY <3>2 DEF Ack, history
      <4>2. msgs'[m].status = "acked" /\ msgs'[m].retries = msgs[m].retries
        BY <1>1, <1>2, <2>5, <4>1 DEF Messages
      <4>3. Worked(m) BY <2>5, <4>1 DEF Worked, Before
      <4>4. Times(m) >= 1 BY <1>2, <2>2, <2>5, <4>3 DEF Counted
      <4>5. Worked(m)' BY <4>2 DEF Worked
      <4> QED BY <1>3, <2>2, <2>3, <3>1, <4>1, <4>2, <4>4, <4>5 DEF Counted
    <3>3. CASE RetryOrDie
      <4>1. CASE msgs[cur].retries < MaxRetries
        <5>1. msgs'[m].retries = msgs[m].retries + 1 /\ msgs'[m].status = "queued"
          BY <1>1, <1>2, <2>5, <3>3, <4>1 DEF RetryOrDie, Messages
        <5>2. ~Worked(m)' BY <1>1, <2>1, <5>1 DEF Worked
        <5> QED BY <1>3, <2>2, <2>3, <3>1, <5>1, <5>2 DEF Counted
      <4>2. CASE ~(msgs[cur].retries < MaxRetries)
        <5>1. msgs'[m].retries = msgs[m].retries /\ msgs'[m].status = "dead"
          BY <1>1, <1>2, <2>5, <3>3, <4>2 DEF RetryOrDie, Messages
        <5>2. Worked(m)' BY <5>1 DEF Worked
        <5> QED BY <1>3, <2>2, <2>3, <3>1, <5>1, <5>2 DEF Counted
      <4> QED BY <4>1, <4>2
    <3>4. CASE Crash
      <4>1. msgs' = msgs /\ crashes' = crashes + 1 BY <3>4 DEF Crash
      <4>2. ~Worked(m)' BY <1>1, <1>2, <2>1, <2>5, <4>1 DEF Worked
      <4> QED BY <1>3, <2>2, <2>3, <3>1, <4>1, <4>2 DEF Counted
    <3> QED BY <3>2, <3>3, <3>4 DEF Ends, Fail, SendFails
  <2> QED BY <2>4, <2>5
<1> QED BY <1>1, <1>3, <1>4 DEF ReworkInv, NotYet

\* A message sent is not worked on, and its request is in no tree.
LEMMA SendCounts ==
    ASSUME PipelineInv, TaskInv, RequestInv, TreeInv, ReworkInv,
           NEW t \in TaskNames, NEW r \in 0..MaxRequests,
           msgs' = Append(msgs, Message(t, r)),
           \/ t = "build_frontend" /\ r = 0 /\ requests' = requests
           \/ r = requests + 1 /\ requests' = requests + 1,
           t = "rework_frontend" => gens # <<>>,
           UNCHANGED <<gens, sources, tree, cur, crashes>>,
           pc' = pc \/ (pc = "chainSend" /\ pc' = "ack"),
           pc # "idle" => Task' = Task
    PROVE  ReworkInv'
<1>1. /\ \A m \in DOMAIN msgs : msgs'[m] = msgs[m]
      /\ DOMAIN msgs' = DOMAIN msgs \cup {Len(msgs) + 1}
      /\ msgs'[Len(msgs) + 1] = Message(t, r)
      /\ requests <= requests' /\ requests \in Nat /\ requests' \in Nat
  BY SentGrows DEF MessagesGrow
<1>2. /\ msgs \in Seq(Messages) /\ cur \in 0..Len(msgs) /\ cur # Len(msgs) + 1
      /\ pc # "idle" => cur \in DOMAIN msgs
  BY RunningTask DEF PipelineInv, QueueInv
<1>3. ASSUME NEW m \in Reworks' PROVE Counted(m)'
  <2>1. CASE m \in DOMAIN msgs
    <3>1. m \in Reworks /\ Counted(m) /\ msgs'[m] = msgs[m]
      BY <1>1, <1>3, <2>1 DEF Reworks, ReworkInv
    <3>2. Times(m)' = Times(m) BY <3>1 DEF Times
    <3>3. Worked(m)' <=> Worked(m)
      BY <3>1 DEF Worked, Before
    <3> QED BY <3>1, <3>2, <3>3 DEF Counted
  <2>2. CASE m \notin DOMAIN msgs
    <3>1. m = Len(msgs) + 1 /\ msgs'[m] = Message(t, r) /\ m # cur'
      BY <1>1, <1>2, <1>3, <2>2 DEF Reworks
    <3>2. t = "rework_frontend" /\ r = requests + 1
      BY <1>3, <3>1 DEF Reworks, Message
    <3>3. msgs'[m].status = "queued" /\ msgs'[m].retries = 0 /\ msgs'[m].req = r
      BY <3>1 DEF Message
    <3>4. r \in Requests /\ r > requests
      BY <1>1, <3>2, BoundsAssumption DEF Requests
    <3>5. sources.applied[r] = 0 BY <3>2, <3>4 DEF ReworkInv, NotYet
    <3>6. ~Worked(m)' /\ Times(m)' = 0 BY <3>1, <3>3, <3>5 DEF Worked, Times
    <3> QED BY <3>3, <3>6 DEF Counted, ReworkInv
  <2> QED BY <2>1, <2>2
<1>4. (gens # <<>> => NotYet(sources)') /\ (NotYet(tree) => NotYet(tree)')
  <2>1. \A q \in Requests : q > requests' => q > requests BY <1>1, BoundsAssumption DEF Requests
  <2> QED BY <2>1 DEF ReworkInv, NotYet
<1>5. pc # "idle" => msgs'[cur] = msgs[cur] BY <1>1, <1>2
<1> QED BY <1>3, <1>4, <1>5 DEF ReworkInv

LEMMA ReworkStep ==
    PipelineInv /\ TaskInv /\ RequestInv /\ TreeInv /\ ReworkInv /\ [Next]_vars => ReworkInv'
<1> SUFFICES ASSUME PipelineInv, TaskInv, RequestInv, TreeInv, ReworkInv, [Next]_vars
             PROVE  ReworkInv'
  OBVIOUS
<1>1. CASE Works BY <1>1, WorkCounts, ArchiveCounts
<1>2. CASE Deliver
  <2>1. /\ pc = "idle" /\ pc' = TakesOver(Task') /\ Task' \in TaskNames
        /\ msgs[cur'].status = "queued" /\ Task' = msgs[cur'].task /\ cur' \in DOMAIN msgs
        /\ UNCHANGED <<gens, sources, tree, msgs, requests, crashes>>
    BY <1>2, Delivered
  <2>2. /\ Task' = "rework_frontend" => pc' = "editStart"
        /\ pc' \in {"walkStart", "hydrate", "editStart", "ack"}
    BY <2>1 DEF TaskInv, TakesOver, TaskNames
  <2>3. ASSUME NEW m \in Reworks' PROVE Counted(m)'
    <3>1. m \in Reworks /\ Counted(m) BY <2>1, <2>3 DEF Reworks, ReworkInv
    <3>2. Worked(m)' <=> Worked(m)
      BY <2>1, <2>2, <3>1 DEF Worked, Before, Reworks
    <3> QED BY <2>1, <3>1, <3>2 DEF Counted, Times
  <2> QED BY <2>1, <2>2, <2>3 DEF ReworkInv, NotYet
<1>3. CASE ChainSend
  <2>1. "build_frontend" \in TaskNames /\ 0 \in 0..MaxRequests
    BY BoundsAssumption DEF BoundsAssumption, TaskNames
  <2> QED BY <1>3, <2>1, ChainSends, SendCounts
<1>4. CASE Ends BY <1>4, EndCounts
<1>5. ASSUME NEW t \in TaskNames, Routed(t) PROVE ReworkInv'
  <2>1. /\ requests + 1 \in 0..MaxRequests /\ requests' = requests + 1
        /\ msgs' = Append(msgs, Message(t, requests + 1))
        /\ UNCHANGED <<gens, sources, tree, cur, crashes, pc>>
        /\ (pc # "idle" => Task' = Task)
        /\ (t = "rework_frontend" => gens # <<>>)
    BY <1>5, RequestSends DEF Routed
  <2> QED BY <2>1, SendCounts
<1>6. CASE UNCHANGED vars
  <2>1. UNCHANGED <<gens, sources, tree, msgs, cur, pc, requests, crashes>> BY <1>6, VarsKept
  <2>2. \A m : Worked(m)' = Worked(m) /\ Times(m)' = Times(m) BY <2>1 DEF Worked, Times
  <2> QED BY <2>1, <2>2 DEF ReworkInv, NotYet, Counted, Reworks, Task
<1> QED BY <1>1, <1>2, <1>3, <1>4, <1>5, <1>6, NextCases

\* A rework edits the sources that another task may have rebuilt, verified or
\* edited since it was asked for: once its message is acknowledged its edit is in
\* the stored sources, and it is there again only for a retry or a death.
THEOREM ReworkNeverLost == Spec => []ReworkKept
<1>1. Init => TaskInv /\ RequestInv /\ TreeInv /\ ReworkInv
  <2> SUFFICES ASSUME Init PROVE ReworkInv BY InitTasks DEF Init, TreeInv
  <2>1. pc = "idle" /\ gens = <<>> /\ crashes = 0 BY DEF Init
  <2>2. Reworks = {} BY <2>1, InitTasks DEF Reworks, TaskInv
  <2> QED BY <2>1, <2>2 DEF ReworkInv
<1>2. PipelineInv /\ TaskInv /\ RequestInv /\ TreeInv /\ ReworkInv => ReworkKept
  <2> SUFFICES ASSUME PipelineInv, TaskInv, RequestInv, TreeInv, ReworkInv, NEW m \in Reworks
               PROVE  /\ msgs[m].status = "acked" => Times(m) >= 1
                      /\ Times(m) <= 1 + msgs[m].retries + crashes
    BY DEF ReworkKept, Times
  <2>1. msgs[m].retries \in Nat /\ Times(m) \in Nat /\ crashes \in Nat /\ Counted(m)
    BY ReworkTypes DEF ReworkInv
  <2> QED BY <2>1 DEF Counted, Worked
<1> QED
  BY InitInv, NextKeepsInv, TaskStep, RequestStep, TreeStep, ReworkStep, <1>1, <1>2, PTL DEF Spec

-----------------------------------------------------------------------------
(***************************************************************************)
(* What the state of the job means when nothing runs.                      *)
(***************************************************************************)

\* The newest row after the steps that write rows.
LEMMA NewestRow ==
    ASSUME PipelineInv
    PROVE  /\ RecordPush => LastGen'.repo = TRUE /\ LastGen'.cm = LastGen.cm
           /\ Integrate => /\ LastGen'.repo = LastGen.repo
                           /\ LastGen'.cm = TRUE \/ LastGen' = LastGen
           /\ Commit => IF gens = <<>> THEN LastGen'.repo = FALSE /\ LastGen'.cm = FALSE
                                       ELSE LastGen'.repo = LastGen.repo /\ LastGen'.cm = LastGen.cm
           /\ RecordPush \/ Integrate \/ Commit => gens' # <<>>
<1>1. gens \in Seq(Gens) BY DEF PipelineInv, RowInv
<1>2. gens # <<>> => LastGen \in Gens /\ Len(gens) \in DOMAIN gens BY <1>1 DEF LastGen
<1>3. CASE RecordPush \/ Integrate
  <2>1. gens # <<>> BY <1>3 DEF RecordPush, Integrate, PipelineInv, StepInv, BuiltSteps
  <2>2. gens' # <<>> BY <1>3, <2>1, RowMarked DEF RecordPush, Integrate, PipelineInv
  <2>3. ~Commit BY <1>3 DEF RecordPush, Integrate, Commit
  <2>4. CASE RecordPush
    <3>1. ~Integrate BY <2>4 DEF RecordPush, Integrate
    <3>2. gens' = [gens EXCEPT ![Len(gens)].repo = TRUE] BY <2>4 DEF RecordPush
    <3>3. Len(gens') = Len(gens) BY <1>1, <1>2, <2>1, <3>2
    <3>4. LastGen' = [LastGen EXCEPT !.repo = TRUE] BY <1>2, <2>1, <3>2, <3>3 DEF LastGen
    <3> QED BY <1>2, <2>1, <2>2, <2>3, <3>1, <3>4 DEF Gens
  <2>5. CASE Integrate
    <3>1. ~RecordPush BY <2>5 DEF RecordPush, Integrate
    <3>2. CASE gens' = [gens EXCEPT ![Len(gens)].cm = TRUE]
      <4>1. Len(gens') = Len(gens) BY <1>1, <1>2, <2>1, <3>2
      <4>2. LastGen' = [LastGen EXCEPT !.cm = TRUE] BY <1>2, <2>1, <3>2, <4>1 DEF LastGen
      <4> QED BY <1>2, <2>1, <2>2, <2>3, <3>1, <4>2 DEF Gens
    <3>3. CASE gens' = gens BY <2>2, <2>3, <3>1, <3>3 DEF LastGen
    <3> QED BY <2>5, <3>2, <3>3 DEF Integrate
  <2> QED BY <1>3, <2>4, <2>5
<1>4. CASE Commit
  <2>1. ~RecordPush /\ ~Integrate BY <1>4 DEF RecordPush, Integrate, Commit
  <2> DEFINE old == IF gens = <<>> THEN [repo |-> FALSE, cm |-> FALSE] ELSE LastGen
             row == [by |-> Task, repo |-> old.repo, cm |-> old.cm]
  <2>2. gens' = Append(gens, row) BY <1>4 DEF Commit
  <2>3. gens' # <<>> /\ LastGen' = row
    <3> HIDE DEF row
    <3> QED BY <1>1, <2>2 DEF LastGen
  <2> QED BY <2>1, <2>3
<1> QED BY <1>3, <1>4

\* Something is on its way for a job that is neither queued nor in a final
\* state: the CodeMagic build, or a build of the app, which is there already or
\* waits in the queue.
FollowUp ==
    \/ state = "codemagic_integration" /\ gens # <<>> /\ LastGen.cm
    \/ /\ state = "codegen"
       /\ \/ gens # <<>>
          \/ \E m \in DOMAIN msgs :
                m # cur /\ msgs[m].task = "build_frontend" /\ msgs[m].status = "queued"

SettledInv ==
    /\ crashes \in Nat
    /\ gated => /\ pc \in {"archive", "commit", "rearchive", "stage", "finish", "ack"}
                /\ state = "needs_input" /\ Task # "rework_frontend" /\ ~published
                /\ pc \in {"archive", "commit"} => Task = "reverify_web"
    /\ state = "queued" => /\ pc \in {"idle", "walkStart"} /\ walks = 0
                           /\ \A m \in DOMAIN msgs : msgs[m].status = "queued"
    /\ pc = "chainSend" => state = "codegen"
    /\ pc \in BuiltSteps \ {"finish", "send"} /\ Task = "build_frontend" => ~LastGen.cm
    /\ pc = "integrate" => state = "codemagic_integration"
    /\ pc \in {"finish", "send"} /\ Task = "build_frontend" /\ LastGen.cm =>
         state = "codemagic_integration"
    /\ pc = "send" => LastGen.cm /\ gens # <<>> /\ (Task # "build_frontend" => state \in Terminal)
    /\ pc = "ack" /\ crashes = 0 => state \in Terminal \/ FollowUp
    /\ pc = "idle" /\ crashes = 0 => state = "queued" \/ state \in Terminal \/ FollowUp

LEMMA WorkSettles ==
    PipelineInv /\ TaskInv /\ RequestInv /\ TreeInv /\ SettledInv /\ Works => SettledInv'
<1> SUFFICES ASSUME PipelineInv, TaskInv, RequestInv, TreeInv, SettledInv, Works
             PROVE  SettledInv'
  OBVIOUS
<1> USE DEF database, durable, locals, history
<1>1. /\ UNCHANGED <<msgs, cur, requests, crashes>> /\ Task' = Task /\ cur \in DOMAIN msgs
      /\ pc # "idle"
  BY WorkKeepsTask
<1>2. /\ pc \in {"hydrate", "archive", "commit"} =>
           Task \in FrontendTasks /\ (Task = "build_frontend" <=> gens = <<>>)
      /\ pc \in BuiltSteps => gens # <<>> /\ Task \in FrontendTasks
      /\ pc \in {"editStart", "edit"} => Task = "rework_frontend"
      /\ pc \in {"rearchive", "stage", "cmStart", "integrate"} => Task = "build_frontend"
      /\ pc \in {"hydrate", "verifyStart", "verify"} => Task # "rework_frontend"
  BY DEF PipelineInv, StepInv, FrontendTasks, TaskInv
<1>3. ASSUME StartStage PROVE SettledInv'
  <2>1. <<pc, pc', state'>> \in {<<"walkStart", "walk", "walkthrough">>,
                                 <<"analyseStart", "analyse", "analysis">>,
                                 <<"codeStart", "generate", "codegen">>,
                                 <<"editStart", "edit", "codegen">>,
                                 <<"verifyStart", "verify", "verify">>,
                                 <<"uploadStart", "push", "github_upload">>,
                                 <<"cmStart", "integrate", "codemagic_integration">>}
    BY <1>3, StageNames DEF StartStage, Stages
  <2>2. UNCHANGED <<gens, walks, gated, published>> BY <1>3 DEF StartStage
  <2> QED BY <1>1, <2>1, <2>2 DEF SettledInv, BuiltSteps, LastGen
<1>4. ASSUME Walk \/ Analyse \/ Handoff \/ Chain \/ NoSpec PROVE SettledInv'
  BY <1>1, <1>4 DEF SettledInv, BuiltSteps, LastGen, Terminal, Walk, Analyse, Handoff, Chain, NoSpec
<1>5. ASSUME Hydrate PROVE SettledInv'
  <2>1. Task # "build_frontend" => pc' = "verifyStart" BY <1>5 DEF Hydrate
  <2> QED BY <1>1, <1>2, <1>5, <2>1 DEF SettledInv, BuiltSteps, LastGen, Hydrate
<1>6. ASSUME Generate \/ Edit PROVE SettledInv'
  BY <1>1, <1>2, <1>6 DEF SettledInv, BuiltSteps, LastGen, Generate, Edit
<1>7. ASSUME Verify \/ RenderFails PROVE SettledInv'
  <2>1. pc = "verify" /\ ~gated /\ ~published
    BY <1>7 DEF SettledInv, TreeInv, Verify, RenderFails
  <2>2. /\ UNCHANGED <<walks, gens, published>> /\ pc' \in {"archive", "rearchive"}
        /\ state' = IF gated' THEN "needs_input" ELSE state
        /\ pc' = "archive" => Task = "reverify_web"
    BY <1>2, <1>7, <2>1 DEF Verify, RenderFails, AfterVerify, BuiltSteps, FrontendTasks
  <2> QED BY <1>1, <1>2, <2>1, <2>2 DEF SettledInv, BuiltSteps, LastGen
<1>8. ASSUME Archive PROVE SettledInv'
  BY <1>1, <1>2, <1>8 DEF SettledInv, BuiltSteps, LastGen, Archive
<1>9. ASSUME Commit PROVE SettledInv'
  <2>1. /\ pc = "commit" /\ UNCHANGED <<state, walks, gated, published>>
        /\ pc' \in {"verifyStart", "stage", "uploadStart", "finish"}
        /\ gated => pc' \in {"stage", "finish"}
    BY <1>2, <1>9 DEF Commit, AfterCommit, FrontendTasks, SettledInv
  <2>2. Task = "build_frontend" => ~LastGen'.cm BY <1>2, <1>9, <2>1, NewestRow
  <2> QED BY <1>1, <1>2, <2>1, <2>2 DEF SettledInv, BuiltSteps
<1>10. ASSUME StageAssets \/ Push \/ PushFails PROVE SettledInv'
  BY <1>1, <1>2, <1>10 DEF SettledInv, BuiltSteps, LastGen, StageAssets, Push, PushFails
<1>11. ASSUME RecordPush PROVE SettledInv'
  BY <1>1, <1>2, <1>11, NewestRow DEF SettledInv, BuiltSteps, RecordPush
<1>12. ASSUME Integrate PROVE SettledInv'
  BY <1>1, <1>2, <1>12, NewestRow DEF SettledInv, BuiltSteps, Integrate
<1>13. ASSUME Finish PROVE SettledInv'
  BY <1>1, <1>2, <1>13 DEF SettledInv, BuiltSteps, LastGen, Finish, Follows, Terminal, FollowUp
<1>14. ASSUME Send PROVE SettledInv'
  BY <1>1, <1>2, <1>14 DEF SettledInv, BuiltSteps, LastGen, Send, FollowUp
<1> QED
  BY <1>3, <1>4, <1>5, <1>6, <1>7, <1>8, <1>9, <1>10, <1>11, <1>12, <1>13, <1>14
     DEF Works, Moves

LEMMA EndSettles ==
    PipelineInv /\ TaskInv /\ RequestInv /\ SettledInv /\ Ends => SettledInv'
<1> SUFFICES ASSUME PipelineInv, TaskInv, RequestInv, SettledInv, Ends PROVE SettledInv'
  OBVIOUS
<1>1. /\ pc # "idle" /\ pc' = "idle" /\ cur' = 0 /\ cur \in DOMAIN msgs
      /\ UNCHANGED <<walks, gens>> /\ DOMAIN msgs' = DOMAIN msgs /\ ~gated'
      /\ \A m \in DOMAIN msgs : m # cur => msgs'[m] = msgs[m]
  BY EndChanges DEF Forget
<1>2. msgs \in Seq(Messages) /\ 0 \notin DOMAIN msgs BY DEF PipelineInv, QueueInv
<1>3. CASE Ack
  <2>1. pc = "ack" /\ UNCHANGED <<state, crashes>> BY <1>3 DEF Ack, database, history
  <2>2. FollowUp => FollowUp' BY <1>1, <1>2, <2>1 DEF FollowUp, LastGen
  <2> QED BY <1>1, <2>1, <2>2 DEF SettledInv, BuiltSteps
<1>4. CASE Fail
  <2>1. state' = "failed" /\ crashes' = crashes BY <1>4 DEF Fail
  <2> QED BY <1>1, <2>1 DEF SettledInv, BuiltSteps, Terminal
<1>5. CASE SendFails
  <2>1. /\ pc = "send" /\ Task # "build_frontend" /\ UNCHANGED <<state, crashes>>
    BY <1>5 DEF SendFails, database
  <2>2. state \in Terminal BY <2>1 DEF SettledInv
  <2> QED BY <1>1, <2>1, <2>2 DEF SettledInv, BuiltSteps, Terminal
<1>6. CASE Crash
  <2>1. crashes' = crashes + 1 /\ crashes' # 0 /\ UNCHANGED <<state, msgs>> /\ crashes' \in Nat
    BY <1>6 DEF Crash, database, SettledInv
  <2> QED BY <1>1, <2>1 DEF SettledInv, BuiltSteps
<1> QED BY <1>3, <1>4, <1>5, <1>6 DEF Ends

LEMMA SendSettles ==
    ASSUME PipelineInv, SettledInv, NEW t \in TaskNames, NEW r \in 0..MaxRequests,
           msgs' = Append(msgs, Message(t, r)),
           \/ t = "build_frontend" /\ r = 0 /\ requests' = requests
           \/ r = requests + 1 /\ requests' = requests + 1,
           UNCHANGED <<state, walks, gens, cur, crashes, gated, published>>,
           pc' = pc \/ (pc = "chainSend" /\ pc' = "ack" /\ t = "build_frontend"),
           pc # "idle" => Task' = Task
    PROVE  SettledInv'
<1>1. /\ \A m \in DOMAIN msgs : m \in DOMAIN msgs' /\ msgs'[m] = msgs[m]
      /\ DOMAIN msgs' = DOMAIN msgs \cup {Len(msgs) + 1}
      /\ msgs'[Len(msgs) + 1] = Message(t, r)
  BY SentGrows DEF MessagesGrow
<1>2. msgs \in Seq(Messages) /\ cur # Len(msgs) + 1 BY DEF PipelineInv, QueueInv
<1>3. Message(t, r).status = "queued" /\ Message(t, r).task = t BY DEF Message
<1>4. FollowUp => FollowUp' BY <1>1 DEF FollowUp, LastGen
<1>5. \A m \in DOMAIN msgs' : msgs'[m].status = "queued" \/ (m \in DOMAIN msgs /\ msgs'[m] = msgs[m])
  BY <1>1, <1>3
<1>6. CASE pc' = pc BY <1>1, <1>4, <1>5, <1>6 DEF SettledInv, BuiltSteps, LastGen
<1>7. CASE pc = "chainSend" /\ pc' = "ack" /\ t = "build_frontend"
  <2>1. FollowUp' BY <1>1, <1>2, <1>3, <1>7 DEF FollowUp, SettledInv
  <2> QED BY <1>5, <1>7, <2>1 DEF SettledInv, BuiltSteps
<1> QED BY <1>6, <1>7

LEMMA SettledStep ==
    /\ PipelineInv /\ TaskInv /\ RequestInv /\ TreeInv /\ SettledInv
    /\ [Next]_vars
    => SettledInv'
<1> SUFFICES ASSUME PipelineInv, TaskInv, RequestInv, TreeInv, SettledInv, [Next]_vars
             PROVE  SettledInv'
  OBVIOUS
<1>1. CASE Works BY <1>1, WorkSettles
<1>2. CASE Deliver
  <2>1. /\ pc = "idle" /\ pc' = TakesOver(Task') /\ Task' \in TaskNames
        /\ Task' = msgs[cur'].task /\ cur' \in DOMAIN msgs
        /\ state' = IF Task' = "build_frontend" /\ walks = 0 THEN "failed" ELSE state
        /\ UNCHANGED <<walks, gens, msgs, gated, published, crashes>>
    BY <1>2, Delivered
  <2>2. Task' \in {"rework_frontend", "reverify_web"} => gens # <<>>
    BY <2>1 DEF TaskInv
  <2>3. /\ pc' \in {"walkStart", "hydrate", "editStart", "ack"}
        /\ pc' = "ack" => Task' = "build_frontend" /\ (walks = 0 \/ gens # <<>>)
        /\ Task' = "run_job" => pc' = "walkStart"
    BY <2>1, <2>2 DEF TaskInv, TakesOver, TaskNames
  <2>4. walks = 0 => gens = <<>> BY DEF TaskInv
  <2>5. state = "queued" => pc' = "walkStart" \/ state' = "failed"
    BY <2>1, <2>2, <2>3, <2>4 DEF SettledInv, TaskNames
  <2>6. pc' = "ack" /\ crashes = 0 => state' \in Terminal \/ FollowUp'
    <3> SUFFICES ASSUME pc' = "ack", crashes = 0, state' # "failed"
                 PROVE  state' \in Terminal \/ FollowUp'
      BY DEF Terminal
    <3>1. gens # <<>> /\ state' = state /\ state # "queued" BY <2>1, <2>3, <2>5
    <3>2. state \in Terminal \/ FollowUp BY <2>1, <3>1 DEF SettledInv
    <3> QED BY <2>1, <3>1, <3>2 DEF FollowUp, LastGen
  <2> QED BY <2>1, <2>3, <2>5, <2>6 DEF SettledInv, BuiltSteps
<1>3. CASE ChainSend
  <2>1. "build_frontend" \in TaskNames /\ 0 \in 0..MaxRequests
    BY BoundsAssumption DEF BoundsAssumption, TaskNames
  <2> QED BY <1>3, <2>1, ChainSends, SendSettles
<1>4. CASE Ends BY <1>4, EndSettles
<1>5. ASSUME NEW t \in TaskNames, Routed(t) PROVE SettledInv'
  <2>1. /\ requests + 1 \in 0..MaxRequests /\ requests' = requests + 1
        /\ msgs' = Append(msgs, Message(t, requests + 1))
        /\ UNCHANGED <<state, walks, gens, cur, crashes, gated, published, pc>>
        /\ (pc # "idle" => Task' = Task)
    BY <1>5, RequestSends DEF Routed
  <2> QED BY <2>1, SendSettles
<1>6. CASE UNCHANGED vars
  <2>1. UNCHANGED <<state, walks, gens, msgs, cur, pc, crashes, gated, published>>
    BY <1>6, VarsKept
  <2>2. FollowUp' <=> FollowUp BY <2>1 DEF FollowUp, LastGen
  <2> QED BY <2>1, <2>2 DEF SettledInv, LastGen, Task
<1> QED BY <1>1, <1>2, <1>3, <1>4, <1>5, <1>6, NextCases

LEMMA InitSettles == Init => SettledInv
<1> SUFFICES ASSUME Init PROVE SettledInv OBVIOUS
<1>1. \A m \in DOMAIN msgs : msgs[m].status = "queued"
  <2>1. CASE msgs = <<>> BY <2>1
  <2>2. CASE msgs = <<Message("run_job", 0)>> BY <2>2 DEF Message
  <2> QED BY <2>1, <2>2 DEF Init
<1> QED BY <1>1 DEF Init, SettledInv, BuiltSteps

\* Three tasks, their retries and their early returns set the state of the job;
\* when nothing is left to run, the job rests in a final state, or in one of the
\* two others that the README names, whatever was enqueued in whatever order.
THEOREM QuietSettled == Spec => []QuietJobSettled
<1>1. Init => TaskInv /\ RequestInv /\ TreeInv /\ SettledInv
  BY InitTasks, InitSettles DEF Init, TreeInv
<1>2. PipelineInv /\ SettledInv => QuietJobSettled
  <2> SUFFICES ASSUME PipelineInv, SettledInv, Quiet, crashes = 0, state \notin Terminal
               PROVE  \/ state = "queued" /\ msgs = <<>>
                      \/ state = "codemagic_integration" /\ LastGen.cm
                      \/ state = "codegen" /\ gens # <<>>
    BY DEF QuietJobSettled
  <2>1. pc = "idle" /\ \A m \in DOMAIN msgs : msgs[m].status # "queued" BY DEF Quiet
  <2>2. msgs \in Seq(Messages) BY DEF PipelineInv, QueueInv
  <2>3. CASE state = "queued"
    <3>1. DOMAIN msgs = {} BY <2>1, <2>3 DEF SettledInv
    <3> QED BY <2>2, <2>3, <3>1
  <2>4. CASE FollowUp BY <2>1, <2>4 DEF FollowUp
  <2> QED BY <2>1, <2>3, <2>4 DEF SettledInv
<1> QED
  BY InitInv, NextKeepsInv, TaskStep, RequestStep, TreeStep, SettledStep, <1>1, <1>2, PTL DEF Spec

-----------------------------------------------------------------------------
(***************************************************************************)
(* A job that is done.                                                     *)
(***************************************************************************)

\* The steps that may change the rows, the sources or the repository.
Rewriting ==
    {"generate", "edit", "archive", "commit", "verify", "rearchive", "stage", "uploadStart",
     "push", "pushed", "cmStart", "integrate"}

\* A task at work is not DONE; the build has no repository before its upload, and
\* whoever finishes with a repository has pushed or is held back.
DoneInv ==
    /\ badPushes \in Nat
    /\ state = "done" => pc \notin Rewriting
    /\ pc \in {"analyseStart", "analyse", "handoff", "chain"} /\ walks = 1 => gens = <<>>
    /\ pc \in {"verifyStart", "verify", "rearchive", "stage"} /\ Task = "build_frontend" =>
         ~LastGen.repo
    /\ pc = "finish" /\ ~gated /\ badPushes = 0 /\ LastGen.repo => Holds(repo, sources)
    /\ DoneMeansPushed

LEMMA WorkDone ==
    PipelineInv /\ TaskInv /\ TreeInv /\ DoneInv /\ Works => DoneInv'
<1> SUFFICES ASSUME PipelineInv, TaskInv, TreeInv, DoneInv, Works PROVE DoneInv'
  OBVIOUS
<1> USE DEF database, durable, locals, history
<1>1. /\ UNCHANGED <<msgs, cur, requests, crashes>> /\ Task' = Task /\ cur \in DOMAIN msgs
      /\ pc # "idle"
  BY WorkKeepsTask
<1>2. /\ pc \in {"hydrate", "archive", "commit"} =>
           Task \in FrontendTasks /\ (Task = "build_frontend" <=> gens = <<>>)
      /\ pc \in BuiltSteps => gens # <<>> /\ Task \in FrontendTasks
      /\ pc \in {"editStart", "edit"} => Task = "rework_frontend"
      /\ pc \in {"rearchive", "stage", "cmStart", "integrate"} => Task = "build_frontend"
      /\ pc \in {"hydrate", "verifyStart", "verify"} => Task # "rework_frontend"
      /\ walks \in Nat /\ (gens # <<>> => walks > 0)
  BY DEF PipelineInv, StepInv, FrontendTasks, TaskInv
<1>3. ASSUME StartStage PROVE DoneInv'
  <2>1. /\ <<pc, pc'>> \in {<<"walkStart", "walk">>, <<"analyseStart", "analyse">>,
                           <<"codeStart", "generate">>, <<"editStart", "edit">>,
                           <<"verifyStart", "verify">>, <<"uploadStart", "push">>,
                           <<"cmStart", "integrate">>}
        /\ state' # "done"
    BY <1>3, StageNames DEF StartStage, Stages
  <2>2. UNCHANGED <<gens, walks, gated, badPushes>> BY <1>3 DEF StartStage
  <2> QED BY <1>1, <2>1, <2>2 DEF DoneInv, DoneMeansPushed, LastGen
<1>4. ASSUME Walk PROVE DoneInv'
  BY <1>1, <1>2, <1>4 DEF DoneInv, DoneMeansPushed, LastGen, Rewriting, Walk
<1>5. ASSUME Analyse \/ Handoff PROVE DoneInv'
  BY <1>1, <1>5 DEF DoneInv, DoneMeansPushed, LastGen, Rewriting, Analyse, Handoff
<1>6. ASSUME Chain PROVE DoneInv'
  BY <1>1, <1>6 DEF DoneInv, DoneMeansPushed, LastGen, Rewriting, Chain
<1>7. ASSUME NoSpec PROVE DoneInv'
  BY <1>1, <1>7 DEF DoneInv, DoneMeansPushed, LastGen, Rewriting, NoSpec
<1>8. ASSUME Hydrate PROVE DoneInv'
  <2>1. Task # "build_frontend" => pc' = "verifyStart" BY <1>8 DEF Hydrate
  <2> QED BY <1>1, <1>2, <1>8, <2>1 DEF DoneInv, DoneMeansPushed, LastGen, Rewriting, Hydrate
<1>9. ASSUME Generate \/ Edit PROVE DoneInv'
  BY <1>1, <1>9 DEF DoneInv, DoneMeansPushed, LastGen, Rewriting, Generate, Edit
<1>10. ASSUME Verify \/ RenderFails PROVE DoneInv'
  <2>1. /\ UNCHANGED <<walks, gens, sources, repo, badPushes>>
        /\ pc = "verify" /\ pc' \in {"archive", "rearchive"}
        /\ state' = state \/ state' = "needs_input"
    BY <1>10 DEF Verify, RenderFails, AfterVerify
  <2> QED BY <1>1, <2>1 DEF DoneInv, DoneMeansPushed, LastGen, Rewriting
<1>11. ASSUME Archive PROVE DoneInv'
  BY <1>1, <1>11 DEF DoneInv, DoneMeansPushed, LastGen, Rewriting, Archive
<1>12. ASSUME Commit PROVE DoneInv'
  <2>1. /\ pc = "commit" /\ UNCHANGED <<state, walks, gated, badPushes, sources, repo>>
        /\ pc' \in {"verifyStart", "stage", "uploadStart", "finish"}
        /\ pc' = "finish" => gated \/ (gens # <<>> /\ ~LastGen.repo)
    BY <1>2, <1>12 DEF Commit, AfterCommit, FrontendTasks
  <2>2. /\ Task = "build_frontend" => ~LastGen'.repo
        /\ gens # <<>> => LastGen'.repo = LastGen.repo
    BY <1>2, <1>12, <2>1, NewestRow
  <2>3. state # "done" BY <2>1 DEF DoneInv, Rewriting
  <2> QED BY <1>1, <2>1, <2>2, <2>3 DEF DoneInv, DoneMeansPushed
<1>13. ASSUME StageAssets \/ Push PROVE DoneInv'
  BY <1>1, <1>2, <1>13 DEF DoneInv, DoneMeansPushed, LastGen, Rewriting, StageAssets, Push
<1>14. ASSUME PushFails PROVE DoneInv'
  BY <1>1, <1>14 DEF DoneInv, DoneMeansPushed, LastGen, Rewriting, PushFails
<1>15. ASSUME RecordPush \/ Integrate PROVE DoneInv'
  <2>1. Holds(repo, sources) /\ UNCHANGED <<sources, repo>>
    BY <1>15 DEF TreeInv, RecordPush, Integrate
  <2>2. Holds(repo, sources)' BY <2>1
  <2> QED BY <1>1, <1>15, <2>1, <2>2 DEF DoneInv, DoneMeansPushed, Rewriting, RecordPush, Integrate
<1>16. ASSUME Finish PROVE DoneInv'
  BY <1>1, <1>16 DEF DoneInv, DoneMeansPushed, LastGen, Rewriting, Finish
<1>17. ASSUME Send PROVE DoneInv'
  BY <1>1, <1>17 DEF DoneInv, DoneMeansPushed, LastGen, Rewriting, Send
<1> QED
  BY <1>3, <1>4, <1>5, <1>6, <1>7, <1>8, <1>9, <1>10, <1>11, <1>12, <1>13, <1>14,
     <1>15, <1>16, <1>17
     DEF Works, Moves

LEMMA DoneStep ==
    /\ PipelineInv /\ TaskInv /\ TreeInv /\ SettledInv /\ DoneInv
    /\ [Next]_vars
    => DoneInv'
<1> SUFFICES ASSUME PipelineInv, TaskInv, TreeInv, SettledInv, DoneInv, [Next]_vars
             PROVE  DoneInv'
  OBVIOUS
<1>1. CASE Works BY <1>1, WorkDone
<1>2. CASE Deliver
  <2>1. /\ pc' = TakesOver(Task') /\ Task' \in TaskNames
        /\ state' = "failed" \/ state' = state
        /\ UNCHANGED <<walks, gens, sources, repo, badPushes, crashes>>
    BY <1>2, Delivered
  <2>2. pc' \in {"walkStart", "hydrate", "editStart", "ack"}
    BY <2>1 DEF TakesOver, TaskNames
  <2> QED BY <2>1, <2>2 DEF DoneInv, DoneMeansPushed, LastGen, Rewriting
<1>3. CASE ChainSend BY <1>3, ChainSends DEF DoneInv, DoneMeansPushed, LastGen, Rewriting
<1>4. CASE Ends
  <2>1. /\ state' = state \/ state' = "failed"
        /\ badPushes' = badPushes /\ (crashes' = crashes \/ crashes' = crashes + 1)
    BY <1>4 DEF Ends, Ack, Fail, SendFails, Crash, database, history
  <2>2. pc' = "idle" /\ UNCHANGED <<walks, gens, sources, repo>> BY <1>4, EndChanges
  <2>3. crashes \in Nat BY DEF SettledInv
  <2> QED BY <2>1, <2>2, <2>3 DEF DoneInv, DoneMeansPushed, LastGen, Rewriting
<1>5. ASSUME NEW t \in TaskNames, Routed(t) PROVE DoneInv'
  <2>1. /\ UNCHANGED <<state, walks, gens, sources, repo, pc, gated, badPushes, crashes>>
        /\ (pc # "idle" => Task' = Task)
    BY <1>5, RequestSends DEF Routed
  <2> QED BY <2>1 DEF DoneInv, DoneMeansPushed, LastGen, Rewriting
<1>6. CASE UNCHANGED vars
  BY <1>6, VarsKept DEF DoneInv, DoneMeansPushed, LastGen, Task
<1> QED BY <1>1, <1>2, <1>3, <1>4, <1>5, <1>6, NextCases

\* DONE is set by whichever task ends last, at a step far from the one that
\* pushed: unless a worker died, a push failed or the analysis was repeated, a job
\* that is DONE and has a repository has its stored sources in it.
THEOREM DonePushed == Spec => []DoneMeansPushed
<1>1. Init => TaskInv /\ RequestInv /\ TreeInv /\ SettledInv /\ DoneInv
  BY InitTasks, InitSettles DEF Init, TreeInv, DoneInv, DoneMeansPushed, Rewriting
<1>2. DoneInv => DoneMeansPushed BY DEF DoneInv
<1> QED
  BY InitInv, NextKeepsInv, TaskStep, RequestStep, TreeStep, SettledStep, DoneStep, <1>1, <1>2, PTL
     DEF Spec

-----------------------------------------------------------------------------
\* The types that the invariants above leave open.
PlacesInv ==
    /\ state \in States /\ version \in Nat
    /\ specStored \in BOOLEAN /\ gated \in BOOLEAN /\ published \in BOOLEAN
    /\ {sources, repo, tree} \subseteq Trees \cup {NoTree}

HarmInv ==
    /\ failures \in 0..MaxFailures /\ crashes \in 0..MaxCrashes
    /\ badPushes \in 0..failures /\ badRenders \in 0..failures

LEMMA PlacesStep == PipelineInv /\ RequestInv /\ TreeInv /\ PlacesInv /\ [Next]_vars => PlacesInv'
<1> SUFFICES ASSUME PipelineInv, RequestInv, TreeInv, PlacesInv, [Next]_vars PROVE PlacesInv' OBVIOUS
<1> USE DEF database, durable, locals, history, PlacesInv
<1>1. CASE Works
  <2>1. CASE StartStage
    <3>1. state' \in States BY <2>1, StageNames DEF StartStage, Stages, States
    <3> QED BY <2>1, <3>1 DEF StartStage
  <2>2. CASE Walk \/ Analyse \/ Handoff \/ Chain \/ NoSpec \/ Hydrate
    BY <2>2 DEF Walk, Analyse, Handoff, Chain, NoSpec, Hydrate, States
  <2>3. CASE Generate BY <2>3, FreshTree DEF Generate
  <2>4. CASE Edit
    <3>1. tree' \in Trees
      <4>1. TreeInv' /\ pc' = "archive" BY <2>4, TreeStep DEF Edit
      <4> QED BY <4>1 DEF TreeInv
    <3> QED BY <2>4, <3>1 DEF Edit
  <2>5. CASE Verify \/ RenderFails
    <3>1. tree' \in Trees
      <4>1. tree \in Trees BY <2>5 DEF TreeInv, Verify, RenderFails
      <4>2. PICK v \in Verdicts : tree' = [tree EXCEPT !.verdict = v]
        BY <2>5, <4>1 DEF Verify, RenderFails, Verdicts, Trees
      <4> QED BY <4>1, <4>2, JudgedTree
    <3> QED BY <2>5, <3>1 DEF Verify, RenderFails, States
  <2>6. CASE Archive \/ Push \/ PushFails \/ Finish \/ Send
    BY <2>6 DEF Archive, Push, PushFails, Finish, Send, States
  <2>8. CASE StageAssets
    <3>1. tree \in Trees BY <2>8 DEF TreeInv, StageAssets
    <3> QED BY <2>8, <3>1, StagedTree DEF StageAssets
  <2>7. CASE Commit \/ RecordPush \/ Integrate
    <3>1. UNCHANGED <<state, specStored, sources, repo, tree, gated>>
      BY <2>7 DEF Commit, RecordPush, Integrate
    <3>2. published' = published \/ published' = TRUE
      BY <2>7 DEF Commit, RecordPush, Integrate
    <3>3. version' \in {version, version + 1}
      BY <2>7 DEF Commit, RecordPush, Integrate
    <3>4. published' \in BOOLEAN BY <3>2
    <3>5. version' \in Nat BY <3>3
    <3> QED BY <3>1, <3>4, <3>5
  <2> QED BY <1>1, <2>1, <2>2, <2>3, <2>4, <2>5, <2>6, <2>7, <2>8 DEF Works, Moves
<1>2. CASE Deliver BY <1>2 DEF Deliver, States
<1>3. CASE ChainSend BY <1>3 DEF ChainSend
<1>4. CASE Ends BY <1>4 DEF Ends, Ack, Fail, SendFails, Crash, Forget, States
<1>5. ASSUME NEW t \in TaskNames, Routed(t) PROVE PlacesInv' BY <1>5 DEF Routed, Request
<1>6. CASE UNCHANGED vars BY <1>6, VarsKept
<1> QED BY <1>1, <1>2, <1>3, <1>4, <1>5, <1>6, NextCases

LEMMA HarmStep == HarmInv /\ [Next]_vars => HarmInv'
<1> SUFFICES ASSUME HarmInv, [Next]_vars PROVE HarmInv' OBVIOUS
<1> USE DEF database, durable, locals, history, HarmInv
<1>1. MaxFailures \in Nat /\ MaxCrashes \in Nat BY BoundsAssumption DEF BoundsAssumption
<1>2. Misfortune => failures' = failures + 1 /\ failures' \in 0..MaxFailures
  BY <1>1 DEF Misfortune
<1>3. CASE StartStage \/ Walk \/ Analyse \/ Handoff \/ Chain \/ Hydrate \/ Generate \/ Edit
  BY <1>3 DEF StartStage, Walk, Analyse, Handoff, Chain, Hydrate, Generate, Edit
<1>4. CASE Verify \/ Archive \/ StageAssets \/ Push \/ Finish \/ Send \/ Commit \/ RecordPush
  BY <1>4 DEF Verify, Archive, StageAssets, Push, Finish, Send, Commit, RecordPush
<1>5. CASE NoSpec \/ RenderFails \/ PushFails \/ Integrate
  BY <1>1, <1>2, <1>5 DEF NoSpec, RenderFails, PushFails, Integrate
<1>6. CASE Deliver \/ ChainSend BY <1>6 DEF Deliver, ChainSend
<1>7. CASE Ends BY <1>1, <1>2, <1>7 DEF Ends, Ack, Fail, SendFails, Crash
<1>8. ASSUME NEW t \in TaskNames, Routed(t) PROVE HarmInv' BY <1>8 DEF Routed, Request
<1>9. CASE UNCHANGED vars BY <1>9, VarsKept
<1> QED BY <1>3, <1>4, <1>5, <1>6, <1>7, <1>8, <1>9, NextCases DEF Works, Moves

\* For all settings and bounds the variables have their types: the running task has a
\* message, every stored and pushed tree is an edited app, the state of the job one of
\* JobState, and no stage is closed that was not opened.
THEOREM TypeCorrect == Spec => []TypeOK
<1>1. Init => TaskInv /\ RequestInv /\ TreeInv
  BY InitTasks DEF Init, TreeInv
<1>2. Init => TimelineInv /\ PlacesInv /\ HarmInv
  <2> SUFFICES ASSUME Init PROVE TimelineInv /\ PlacesInv /\ HarmInv OBVIOUS
  <2>1. openRows = 0 /\ crashes = 0 /\ ~rowOpen /\ pc = "idle" /\ rowOpen \in BOOLEAN
    BY DEF Init
  <2>2. TimelineInv BY <2>1 DEF TimelineInv, OpenSteps, ClosedSteps
  <2>3. HarmInv BY BoundsAssumption DEF Init, HarmInv, BoundsAssumption
  <2>4. specStored \in BOOLEAN /\ gated \in BOOLEAN /\ published \in BOOLEAN BY DEF Init
  <2>5. state \in States /\ version \in Nat /\ {sources, repo, tree} \subseteq Trees \cup {NoTree}
    BY DEF Init, States
  <2> QED BY <2>2, <2>3, <2>4, <2>5 DEF PlacesInv
<1>3. PipelineInv /\ TaskInv /\ TimelineInv /\ PlacesInv /\ HarmInv => TypeOK
  BY DEF PipelineInv, QueueInv, RowInv, TaskInv, TimelineInv, PlacesInv, HarmInv, TypeOK
<1> QED
  BY InitInv, NextKeepsInv, TaskStep, RequestStep, TreeStep, TimelineStep, PlacesStep, HarmStep,
     <1>1, <1>2, <1>3, PTL DEF Spec
================================================================================
