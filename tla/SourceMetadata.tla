---------------------------- MODULE SourceMetadata ----------------------------
(***************************************************************************)
(* Job.source_app_metadata, one JSON document: the build settings of the   *)
(* form in admin/routes_jobs.py and what _ingest_appstore of run_job adds. *)
(* Each reads the document and later writes it back as a whole.  The       *)
(* session does not expire what it has read (db/session.py), so that a     *)
(* task works with the document of its start.                              *)
(***************************************************************************)
EXTENDS StoreWorker

CONSTANT NoApp       \* no GenerationResult

ASSUME MetaAssumption == NoApp \notin Nat

VARIABLES
    metadata,   \* whose settings it holds, and whether the App Store's fields
    analysis,   \* what run_job has stored: "none", "walk", the walkthrough, or "spec", all
    app,        \* the settings that the generated sources carry
    forms,      \* forms under way: [id, at, seen]
    saved,      \* history: the form that was committed last
    unseen,     \* history: a write over, or a build past, settings not read
    unasked,    \* history: settings without the rebuild that they ask for
    turned      \* history: a build was turned away, its message acknowledged

metaVars == <<metadata, analysis, app, forms, saved, unseen, unasked, turned>>

MetaInit(built) ==
    /\ metadata = [settings |-> 0, source |-> FALSE] /\ app = built
    /\ analysis = (IF built = NoApp THEN "none" ELSE "spec")
    /\ forms = {} /\ saved = 0 /\ unseen = FALSE /\ unasked = FALSE /\ turned = FALSE

-----------------------------------------------------------------------------
AskSettings ==
    /\ Visit /\ forms' = forms \cup {[id |-> requests', at |-> "read", seen |-> metadata]}
    /\ UNCHANGED <<queue, held, pc, mem, dead, failures, crashes, metadata, analysis, app, saved, unseen, unasked, turned>>

\* jobs_build_settings commits the document as it has read it, with the settings changed.
CommitSettings ==
    \E form \in forms :
        /\ form.at = "read"
        /\ metadata' = [form.seen EXCEPT !.settings = form.id] /\ saved' = form.id
        /\ forms' = (forms \ {form}) \cup {[form EXCEPT !.at = "committed"]}
        /\ unseen' = (unseen \/ form.seen # metadata \/ pc = "generate")
        /\ UNCHANGED <<worker, analysis, app, unasked, turned>>

\* Then the app is rebuilt: by a rework when there is one, else by a first build.
EnqueueRebuild ==
    \E form \in forms :
        /\ form.at = "committed" /\ forms' = forms \ {form}
        /\ queue' = queue \cup {[id |-> form.id, arg |-> 0, retries |-> 0,
                                 task |-> IF app = NoApp THEN "build_frontend" ELSE "rework_frontend"]}
        /\ UNCHANGED <<held, pc, mem, dead, budget, metadata, analysis, app, saved, unseen, unasked, turned>>

\* The broker does not answer: the settings are saved, and that is all.
EnqueueFails ==
    \E form \in forms :
        /\ form.at = "committed" /\ forms' = forms \ {form}
        /\ Misfortune /\ unasked' = TRUE
        /\ UNCHANGED <<queue, held, pc, mem, dead, requests, crashes, metadata, analysis, app, saved, unseen, turned>>

\* run_job: the document of its start is written back once the App Store has answered.
BeginIngest ==
    /\ Step("ingest", "merge") /\ mem' = [seeded |-> metadata]
    /\ UNCHANGED <<failures, metaVars>>

\* Mutant of Seeded: only what was there when the job was created is kept.
SeededAtCreation(document) == [settings |-> 0, source |-> TRUE]
Seeded(document) == [document EXCEPT !.source = TRUE]

\* Metadata is enrichment: without an answer the job goes on.
Ingest ==
    /\ Step("merge", "walk") /\ mem' = Blank
    /\ \/ /\ metadata' = Seeded(mem.seeded) /\ unseen' = (unseen \/ mem.seeded # metadata)
          /\ UNCHANGED failures
       \/ Misfortune /\ UNCHANGED <<metadata, unseen>>
    /\ UNCHANGED <<analysis, app, forms, saved, unasked, turned>>

\* The walkthrough is committed before the analysis begins.
StoreWalk ==
    /\ Step("walk", "spec") /\ analysis' = (IF analysis = "none" THEN "walk" ELSE analysis)
    /\ UNCHANGED <<mem, failures, metadata, app, forms, saved, unseen, unasked, turned>>

\* The spec is stored; with auto_build_frontend the first build is queued at once.
FirstBuild == [id |-> 0, task |-> "build_frontend", arg |-> 0, retries |-> 0]
Analyse ==
    /\ held # NoMessage /\ pc = "spec" /\ pc' = "analysed" /\ analysis' = "spec"
    /\ queue' \in {queue, queue \cup {FirstBuild}}
    /\ UNCHANGED <<held, mem, dead, budget, metadata, app, forms, saved, unseen, unasked, turned>>

EndAnalysis == pc = "analysed" /\ Return /\ UNCHANGED <<failures, metaVars>>

\* build_frontend: a job that has been built is not built again.
BeginBuild ==
    /\ pc = "build" /\ analysis # "none" /\ UNCHANGED <<failures, metaVars>>
    /\ \/ app # NoApp /\ Return
       \/ /\ app = NoApp /\ analysis = "spec"
          /\ Step("build", "generate") /\ mem' = [settings |-> metadata.settings]

\* Without a walkthrough, without the spec or when storage does not give the spec, the job
\* has failed, and the message is acknowledged and not retried.
TurnAway ==
    /\ pc = "build" /\ Return /\ turned' = TRUE
    /\ \/ analysis = "none" /\ UNCHANGED failures
       \/ app = NoApp /\ analysis = "walk" /\ UNCHANGED failures
       \/ app = NoApp /\ analysis = "spec" /\ Misfortune
    /\ UNCHANGED <<metadata, analysis, app, forms, saved, unseen, unasked>>

\* rework_frontend: what has not been built is not reworked.
BeginRework ==
    /\ pc = "rework" /\ UNCHANGED <<failures, metaVars>>
    /\ IF app = NoApp THEN Return ELSE Step("rework", "reworking") /\ mem' = [settings |-> metadata.settings]

StoreSources ==
    /\ pc \in {"generate", "reworking"} /\ Return /\ app' = mem.settings
    /\ UNCHANGED <<failures, metadata, analysis, forms, saved, unseen, unasked, turned>>

MetaTaskFails ==
    /\ pc \in {"ingest", "walk", "spec", "analysed", "build", "generate", "rework", "reworking"}
    /\ Misfortune /\ Raise /\ UNCHANGED metaVars

MetaTask ==
    \/ BeginIngest \/ Ingest \/ StoreWalk \/ Analyse \/ EndAnalysis
    \/ BeginBuild \/ TurnAway \/ BeginRework \/ StoreSources \/ MetaTaskFails
MetaAdmin == AskSettings \/ CommitSettings \/ EnqueueRebuild \/ EnqueueFails

-----------------------------------------------------------------------------
(***************************************************************************)
(* Properties.                                                             *)
(***************************************************************************)

\* The settings that were saved last are those of the document, unless it was written by
\* somebody who had not read them.  When all is done and nothing is dead, they are those of
\* the app as well, unless they were saved while the first build was running or the admin
\* failed before it asked for the rebuild; or there is no app at all, a build having been
\* turned away, without an analysis or without an answer of storage.
SettingsReachApp ==
    ~unseen =>
        /\ metadata.settings = saved
        /\ Quiet /\ dead = {} /\ forms = {} /\ saved # 0 /\ ~unasked =>
               app = saved \/ (app = NoApp /\ turned)
=============================================================================
