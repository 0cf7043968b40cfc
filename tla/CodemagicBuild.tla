---------------------------- MODULE CodemagicBuild ----------------------------
(***************************************************************************)
(* The iOS builds of one job whose repository is connected to CodeMagic:   *)
(* run_codemagic_build on the worker of the queue "delivery", the reworks  *)
(* that replace the repository on the worker of the queue "codegen" at the *)
(* same time (their inside is JobPipeline's), the admin's button and the   *)
(* build settings, and the two outside services.                           *)
(*                                                                         *)
(* A rework force-pushes a tree without codemagic.yaml.                    *)
(* run_codemagic_build puts the file back, starts a remote build of what   *)
(* the branch holds when CodeMagic clones it, and polls.  The identity of  *)
(* a build (bundle id, display name, profile) is a number, the version of  *)
(* the settings.                                                           *)
(***************************************************************************)
EXTENDS Naturals, Sequences, FiniteSets

CONSTANTS
    MaxTicks,     \* polls before the deadline of 2700 s
    MaxRetries,   \* PipelineTask.max_retries
    MaxRequests,  \* bound: requests of the admin
    MaxFailures,  \* bound: exceptions and failed calls
    MaxCrashes    \* bound: deaths of either worker

ASSUME BoundsAssumption ==
    {MaxTicks, MaxRetries, MaxRequests, MaxFailures, MaxCrashes} \subseteq Nat

VARIABLES
    \* database
    ident,      \* version of the build settings in Job.source_app_metadata
    rows,       \* CodemagicBuild rows in the order of created_at
    \* GitHub: the head of the branch
    head,       \* [tree, made, yaml]: made and yaml are versions of ident, yaml 0 if absent
    past,       \* the codemagic.yaml of the heads before: the contents API may still show it
    \* CodeMagic
    remote,     \* the builds in the order of their start
    \* worker of the queue "codegen"
    reworks,    \* rework messages that are not acknowledged
    rwPc, rwIdent,
    \* queue and worker of "delivery"
    queued,     \* number of waiting messages by their retries: they differ in nothing else
    pc,
    cur,        \* the retries of the message that is being worked on
    want,       \* the identity read at the start of the task
    seen,       \* codemagic.yaml as the contents API showed it
    build,      \* the build of this task
    waited,
    \* history
    sent,       \* messages enqueued
    requests, failures, crashes, timeouts, lostAnswers,
    lagged      \* the newest task was shown another codemagic.yaml than the head has

lag     == <<past, lagged>>
codegen == <<reworks, rwPc, rwIdent>>
queue   == <<queued, sent, pc, cur, want, seen, build, waited>>
history == <<requests, failures, crashes, timeouts, lostAnswers>>
vars    == <<ident, rows, head, lag, remote, codegen, queue, history>>

TERMINAL == {"finished", "failed"}
Status   == TERMINAL \cup {"queued"}
Pcs      == {"idle", "yamlGet", "yamlPut", "start", "row", "poll", "ack"}

TypeOK ==
    /\ ident \in 1..(1 + MaxRequests)
    /\ rows \in Seq([build : 0..Len(remote), status : Status])
    /\ head \in [tree : Nat, made : 1..ident, yaml : 0..ident]
    /\ past \subseteq 0..ident /\ lagged \in BOOLEAN
    /\ remote \in Seq([tree : 0..head.tree, made : 0..ident, yaml : 0..ident, status : Status])
    /\ reworks \in 0..MaxRequests /\ rwPc \in {"idle", "push", "send"} /\ rwIdent \in 0..ident
    /\ queued \in [0..MaxRetries -> Nat] /\ sent \in Nat
    /\ pc \in Pcs /\ cur \in 0..MaxRetries
    /\ want \in 0..ident /\ seen \in 0..ident /\ build \in 0..Len(remote)
    /\ waited \in 0..(MaxTicks + 1)
    /\ requests \in 0..MaxRequests
    /\ failures \in 0..MaxFailures /\ crashes \in 0..MaxCrashes
    /\ timeouts \in Nat /\ lostAnswers \in 0..failures

\* build_frontend has pushed and integrated the repository; its own build follows
\* if settings.codemagic_auto_build is set.
Init ==
    /\ ident = 1 /\ rows = <<>> /\ remote = <<>>
    /\ head = [tree |-> 1, made |-> 1, yaml |-> 1]
    /\ past = {0} /\ lagged = FALSE
    /\ reworks = 0 /\ rwPc = "idle" /\ rwIdent = 0
    /\ sent \in {0, 1} /\ queued = [n \in 0..MaxRetries |-> IF n = 0 THEN sent ELSE 0]
    /\ pc = "idle" /\ cur = 0 /\ want = 0 /\ seen = 0 /\ build = 0 /\ waited = 0
    /\ requests = 0 /\ failures = 0 /\ crashes = 0 /\ timeouts = 0
    /\ lostAnswers = 0

\* A message is enqueued.
Enqueue == queued' = [queued EXCEPT ![0] = @ + 1] /\ sent' = sent + 1

\* One of the failures a run may have.
Misfortune == failures < MaxFailures /\ failures' = failures + 1

-----------------------------------------------------------------------------
(***************************************************************************)
(* The admin and the codegen worker.                                       *)
(***************************************************************************)

\* jobs_rework asks for a rework, jobs_build_settings stores new settings first,
\* and keeps them when the broker is down.
RouteRework ==
    /\ requests < MaxRequests /\ requests' = requests + 1
    /\ \/ reworks' = reworks + 1 /\ ident' \in {ident, ident + 1} /\ UNCHANGED failures
       \/ Misfortune /\ ident' = ident + 1 /\ UNCHANGED reworks
    /\ UNCHANGED <<rows, head, lag, remote, rwPc, rwIdent, queue, crashes, timeouts,
                   lostAnswers>>

\* jobs_codemagic_build.
RouteButton ==
    /\ requests < MaxRequests /\ requests' = requests + 1
    /\ Enqueue
    /\ UNCHANGED <<ident, rows, head, lag, remote, codegen, pc, cur, want, seen, build, waited,
                   failures, crashes, timeouts, lostAnswers>>

\* rework_frontend reads the settings and edits the tree.
ReworkEdit ==
    /\ rwPc = "idle" /\ reworks > 0
    /\ rwPc' = "push" /\ rwIdent' = ident
    /\ UNCHANGED <<ident, rows, head, lag, remote, reworks, queue, history>>

\* push_existing replaces the whole tree: codemagic.yaml is not in it.
ReworkPush ==
    /\ rwPc = "push"
    /\ head' = [tree |-> head.tree + 1, made |-> rwIdent, yaml |-> 0]
    /\ past' = past \cup {head.yaml}
    /\ rwPc' = "send"
    /\ UNCHANGED <<ident, rows, lagged, remote, reworks, rwIdent, queue, history>>

\* run_codemagic_build.apply_async, then the rework is acknowledged.
ReworkSend ==
    /\ rwPc = "send"
    /\ Enqueue
    /\ reworks' = reworks - 1
    /\ rwPc' = "idle" /\ rwIdent' = 0
    /\ UNCHANGED <<ident, rows, head, lag, remote, pc, cur, want, seen, build, waited, history>>

\* The codegen worker dies, or the broker refuses the message: the rework is
\* delivered again and pushes again, or its retries are used up.
ReworkAgain ==
    /\ rwPc # "idle"
    /\ \/ /\ crashes < MaxCrashes /\ crashes' = crashes + 1
          /\ UNCHANGED <<failures, reworks>>
       \/ /\ rwPc = "send" /\ Misfortune
          /\ reworks' \in {reworks, reworks - 1}
          /\ UNCHANGED crashes
    /\ rwPc' = "idle" /\ rwIdent' = 0
    /\ UNCHANGED <<ident, rows, head, lag, remote, queue, requests, timeouts, lostAnswers>>

Codegen == ReworkEdit \/ ReworkPush \/ ReworkSend

-----------------------------------------------------------------------------
(***************************************************************************)
(* CodeMagic, as run_codemagic_build sees it.                              *)
(***************************************************************************)

\* A build clones the branch and ends; without codemagic.yaml its workflow does
\* not exist.  The states before the end are one for the poll.
Remote ==
    /\ \E b \in DOMAIN remote, s \in TERMINAL :
          /\ remote[b].status = "queued"
          /\ head.yaml = 0 => s = "failed"
          /\ remote' = [remote EXCEPT ![b] =
                [tree |-> head.tree, made |-> head.made, yaml |-> head.yaml, status |-> s]]
    /\ UNCHANGED <<ident, rows, head, lag, codegen, queue, history>>

-----------------------------------------------------------------------------
(***************************************************************************)
(* run_codemagic_build.                                                    *)
(***************************************************************************)

\* The task ends; only its message remains.
Forget == pc' = "idle" /\ cur' = 0 /\ want' = 0 /\ seen' = 0 /\ build' = 0 /\ waited' = 0

\* Mutant of Deliver: the file that integrate has committed is taken for granted.
DeliverNoYaml ==
    /\ pc = "idle"
    /\ \E n \in 0..MaxRetries :
          queued[n] > 0 /\ queued' = [queued EXCEPT ![n] = @ - 1] /\ cur' = n
    /\ want' = ident /\ pc' = "start"
    /\ UNCHANGED <<ident, rows, head, lag, remote, codegen, sent, seen, build, waited, history>>
\* The newest GenerationResult is connected; the identity is resolved from the job.
Deliver ==
    /\ pc = "idle"
    /\ \E n \in 0..MaxRetries :
          queued[n] > 0 /\ queued' = [queued EXCEPT ![n] = @ - 1] /\ cur' = n
    /\ want' = ident /\ pc' = "yamlGet"
    /\ UNCHANGED <<ident, rows, head, lag, remote, codegen, sent, seen, build, waited, history>>

\* autoretry_for: the message waits again until max_retries is used up.
Retry == queued' = IF cur < MaxRetries THEN [queued EXCEPT ![cur + 1] = @ + 1] ELSE queued

\* No token, or the signing key cannot be read: the task is retried.
Raise ==
    /\ pc \in {"yamlGet", "start"} /\ Misfortune
    /\ Retry /\ Forget
    /\ UNCHANGED <<ident, rows, head, lag, remote, codegen, sent, requests, crashes, timeouts,
                   lostAnswers>>

\* ensure_codemagic_yaml reads the file, and writes it when it differs.  The contents
\* API lags behind a push: it may show the file of an older head, or none.
YamlGet ==
    /\ pc = "yamlGet"
    /\ seen' \in past \cup {head.yaml}
    /\ lagged' = (seen' # head.yaml)
    /\ pc' = IF seen' = want THEN "start" ELSE "yamlPut"
    /\ UNCHANGED <<ident, rows, head, past, remote, codegen, queued, sent, cur, want, build,
                   waited, history>>

\* The write names the version that was read; GitHub refuses it if that is not the
\* file of the head, and the task goes on without.
YamlPut ==
    /\ pc = "yamlPut"
    /\ IF head.yaml = seen
       THEN head' = [head EXCEPT !.yaml = want] /\ past' = past \cup {head.yaml}
       ELSE UNCHANGED <<head, past>>
    /\ pc' = "start"
    /\ UNCHANGED <<ident, rows, lagged, remote, codegen, queued, sent, cur, want, seen, build,
                   waited, history>>

\* Either call fails: best effort.
YamlFails ==
    /\ pc \in {"yamlGet", "yamlPut"} /\ Misfortune
    /\ pc' = "start"
    /\ UNCHANGED <<ident, rows, head, lag, remote, codegen, queued, sent, cur, want, seen, build, waited,
                   requests, crashes, timeouts, lostAnswers>>

NewBuild == [tree |-> 0, made |-> 0, yaml |-> 0, status |-> "queued"]

\* start_build.
Start ==
    /\ pc = "start"
    /\ remote' = Append(remote, NewBuild)
    /\ build' = Len(remote')
    /\ pc' = "row" /\ want' = 0 /\ seen' = 0      \* not read any more
    /\ UNCHANGED <<ident, rows, head, lag, codegen, queued, sent, cur, waited, history>>

\* The request is refused, or CodeMagic has accepted it and the answer is lost:
\* a failed row without a build, and the task has succeeded.
StartFails ==
    /\ pc = "start" /\ Misfortune
    /\ \/ UNCHANGED <<remote, lostAnswers>>
       \/ remote' = Append(remote, NewBuild) /\ lostAnswers' = lostAnswers + 1
    /\ rows' = Append(rows, [build |-> 0, status |-> "failed"])
    /\ pc' = "ack"
    /\ UNCHANGED <<ident, head, lag, codegen, queued, sent, cur, want, seen, build, waited, requests,
                   crashes, timeouts>>

InsertRow ==
    /\ pc = "row"
    /\ rows' = Append(rows, [build |-> build, status |-> "queued"])
    /\ pc' = "poll"
    /\ UNCHANGED <<ident, head, lag, remote, codegen, queued, sent, cur, want, seen, build, waited, history>>

\* The status as polled is stored in the row of this build.
StoreStatus ==
    rows' = [r \in DOMAIN rows |->
                IF rows[r].build = build THEN [rows[r] EXCEPT !.status = remote[build].status]
                                         ELSE rows[r]]

\* Mutant of Poll: only terminal states end the loop.
PollForever ==
    /\ pc = "poll"
    /\ StoreStatus
    /\ pc' = IF remote[build].status \in TERMINAL THEN "ack" ELSE "poll"
    /\ UNCHANGED <<ident, head, lag, remote, codegen, queued, sent, cur, want, seen, build, waited, history>>
\* Mutant of Poll: a terminal state returns before it is stored.
PollReturnsEarly ==
    /\ pc = "poll" /\ waited <= MaxTicks
    /\ IF remote[build].status \in TERMINAL
       THEN pc' = "ack" /\ UNCHANGED <<rows, waited>>
       ELSE StoreStatus /\ waited' = waited + 1 /\ UNCHANGED pc
    /\ UNCHANGED <<ident, head, lag, remote, codegen, queued, sent, cur, want, seen, build, history>>
\* get_build and summarize, and the end of the loop.
Poll ==
    /\ pc = "poll" /\ waited <= MaxTicks
    /\ StoreStatus
    /\ IF remote[build].status \in TERMINAL
       THEN pc' = "ack" /\ UNCHANGED waited
       ELSE waited' = waited + 1 /\ UNCHANGED pc
    /\ UNCHANGED <<ident, head, lag, remote, codegen, queued, sent, cur, want, seen, build, history>>

\* Mutant of PollFails: the exception is not caught and the task is retried.
PollRaises ==
    /\ pc = "poll" /\ waited <= MaxTicks /\ Misfortune
    /\ Retry /\ Forget
    /\ UNCHANGED <<ident, rows, head, lag, remote, codegen, sent, requests, crashes, timeouts,
                   lostAnswers>>
\* A poll that raises is one tick lost.
PollFails ==
    /\ pc = "poll" /\ waited <= MaxTicks /\ Misfortune
    /\ waited' = waited + 1
    /\ UNCHANGED <<ident, rows, head, lag, remote, codegen, queued, sent, pc, cur, want, seen, build, requests, crashes, timeouts, lostAnswers>>

\* Mutant of TimeOut: the row is closed as failed.
TimeOutFails ==
    /\ pc = "poll" /\ waited > MaxTicks
    /\ rows' = [rows EXCEPT ![Len(rows)].status = "failed"]
    /\ timeouts' = timeouts + 1
    /\ pc' = "ack"
    /\ UNCHANGED <<ident, head, lag, remote, codegen, queued, sent, cur, want, seen, build, waited,
                   requests, failures, crashes, lostAnswers>>
\* The deadline: the task returns and leaves the row as it is.
TimeOut ==
    /\ pc = "poll" /\ waited > MaxTicks
    /\ timeouts' = timeouts + 1
    /\ pc' = "ack"
    /\ UNCHANGED <<ident, rows, head, lag, remote, codegen, queued, sent, cur, want, seen, build, waited,
                   requests, failures, crashes, lostAnswers>>

Ack ==
    /\ pc = "ack"
    /\ Forget
    /\ UNCHANGED <<ident, rows, head, lag, remote, codegen, queued, sent, history>>

\* The delivery worker dies; the message is delivered again from the start.
Crash ==
    /\ pc # "idle"
    /\ crashes < MaxCrashes /\ crashes' = crashes + 1
    /\ queued' = [queued EXCEPT ![cur] = @ + 1]
    /\ Forget
    /\ UNCHANGED <<ident, rows, head, lag, remote, codegen, sent, requests, failures, timeouts,
                   lostAnswers>>

Delivery ==
    \/ Deliver \/ Raise \/ YamlGet \/ YamlPut \/ YamlFails \/ Start \/ StartFails \/ InsertRow
    \/ Poll \/ PollFails \/ TimeOut \/ Ack

Next ==
    \/ RouteRework \/ RouteButton \/ Codegen \/ ReworkAgain \/ Delivery \/ Crash
    \/ Remote

Spec == Init /\ [][Next]_vars

\* Both workers keep working; nothing is assumed of CodeMagic.
FairSpec == Spec /\ WF_vars(Codegen) /\ WF_vars(Delivery)

-----------------------------------------------------------------------------
(***************************************************************************)
(* Properties.                                                             *)
(***************************************************************************)
Quiet ==
    /\ pc = "idle" /\ \A n \in 0..MaxRetries : queued[n] = 0
    /\ rwPc = "idle" /\ reworks = 0

Open == {r \in DOMAIN rows : rows[r].status \notin TERMINAL}
Rowless == {b \in DOMAIN remote : \A r \in DOMAIN rows : rows[r].build # b}

\* A push may take codemagic.yaml away at any moment of a build that is being
\* started; still, when nothing is left to do and no call has failed, the last
\* build, whose row the admin page shows, was made from the head of the branch with
\* the settings of the job in the app, and, unless its task was shown the
\* codemagic.yaml of an older head, with those settings in codemagic.yaml.
LatestBuilt ==
    Quiet /\ failures = 0 /\ head.tree > 1 =>
        LET last == remote[Len(remote)]
        IN  /\ rows[Len(rows)].build = Len(remote)
            /\ head.made = ident
            /\ last.tree \in {0, head.tree}
            /\ last.tree # 0 => last.made = ident
            /\ ~lagged => head.yaml = ident /\ (last.tree # 0 => last.yaml = ident)

\* CodeMagic minutes cost money: a message starts one build, and one more only
\* after a death of the worker, whatever fails before, during and after the start.
OneBuildPerMessage == Len(remote) <= sent + crashes

\* No build is forgotten: a row stays open only after a death or at the deadline,
\* and a build has no row only when the worker died, or the answer was lost, in
\* between.
BuildsAccounted ==
    pc = "idle" =>
        /\ Cardinality(Open) <= crashes + timeouts
        /\ Cardinality(Rowless) <= crashes + lostAnswers

\* A row that is final says how its build has ended, and a build has one row.
RowsTellTruth ==
    \A r \in DOMAIN rows : rows[r].build # 0 =>
        /\ rows[r].status \in TERMINAL => rows[r].status = remote[rows[r].build].status
        /\ \A q \in DOMAIN rows : rows[q].build = rows[r].build => q = r

\* Every message is used up, even if CodeMagic never answers with a final state.
DeliveryDrains == <>[]Quiet
===============================================================================
