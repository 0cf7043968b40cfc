------------------------------ MODULE StoreDesk ------------------------------
(***************************************************************************)
(* All that an operator does to one job around its App Store listing, and  *)
(* the worker that does it: icon, texts, key and settings together.  The   *)
(* tasks of all parts wait in one queue for one worker process; the        *)
(* requests of the admin run beside it.                                    *)
(***************************************************************************)
EXTENDS IconVersions, StoreListing, SourceMetadata

deskVars == <<worker, iconVars, keyVars, listingVars, metaVars>>

\* A job that run_job is about to analyse, or to analyse again after a death; or one that
\* has been built, with icons, a draft and a key of its own.
Init ==
    /\ WorkerInit
    /\ \/ /\ IconsInit(0) /\ KeyInit(0) /\ ListingInit(NoDraft) /\ MetaInit(NoApp)
          /\ queue = {[id |-> 0, task |-> "run_job", arg |-> 0, retries |-> 0]}
       \/ /\ \E count \in 1..2 : IconsInit(count)
          /\ KeyInit(Earlier) /\ ListingInit([text |-> 0, privacy |-> FALSE]) /\ MetaInit(0)
          /\ queue = {}

TaskStart ==
    [generate_app_icon |-> "drawIcon", stage |-> "stageIcon", publish_legal_pages |-> "publish",
     generate_store_listing |-> "legal", push_store_listing |-> "push",
     autofill_store_metadata |-> "autofill", set_review_contact |-> "contact",
     run_job |-> "ingest", build_frontend |-> "build", rework_frontend |-> "rework"]

Messages == [id : Nat, task : DOMAIN TaskStart, arg : {0}, retries : Nat]

ASSUME DeskAssumption == NoMessage \notin Messages

LoadKey == (ReadEnv \/ ReadKey("target")) /\ UNCHANGED listingVars

\* The admin dies: its requests end where they are.
AdminDies ==
    /\ crashes < MaxCrashes /\ crashes' = crashes + 1
    /\ unasked' = (unasked \/ \E form \in forms : form.at = "committed")
    /\ iconRequests' = {} /\ saves' = {} /\ forms' = {} /\ upload' = [id |-> 0, at |-> 0]
    /\ UNCHANGED <<queue, held, pc, mem, dead, requests, failures, icons, made, thumbs, drawn,
                   crowded, bare, unread, keyFiles, begun, keyed, overlap, moved, draft, legal, pages,
                   asc, linked, clash, refused, kept, metadata, analysis, app, saved, unseen, turned>>

Next ==
    \/ (Deliver(TaskStart) \/ Crash) /\ UNCHANGED <<iconVars, keyVars, listingVars, metaVars>>
    \/ (IconTask \/ IconAdmin \/ IconRequest) /\ UNCHANGED <<keyVars, listingVars, metaVars>>
    \/ (AskUpload \/ Upload \/ LoadKey) /\ UNCHANGED <<iconVars, listingVars, metaVars>>
    \/ (ListingTask \/ ListingRequest \/ AskSave \/ PutSave) /\ UNCHANGED <<iconVars, keyVars, metaVars>>
    \/ (MetaTask \/ MetaAdmin) /\ UNCHANGED <<iconVars, keyVars, listingVars>>
    \/ AdminDies

Spec == Init /\ [][Next]_deskVars
=============================================================================
