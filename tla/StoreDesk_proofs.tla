--------------------------- MODULE StoreDesk_proofs ---------------------------
(***************************************************************************)
(* Proofs about the listing of a job.  DeskInv is the inductive invariant; *)
(* its parts are about the messages, the key, the drafts, the legal pages, *)
(* the push, the settings and the icon, and each part has a lemma that     *)
(* says that a step keeps it.                                              *)
(***************************************************************************)
EXTENDS StoreDesk, SequenceTheorems, TLAPS

Tasks    == DOMAIN TaskStart
Push     == "push_store_listing"

\* The memory of a task that writes to App Store Connect.
IsLoad(m) ==
    m = [text |-> m.text, env |-> m.env, since |-> m.since, account |-> m.account, todo |-> m.todo]

Loaded  == {"target", "version", "info", "infoPlain", "fill"}

\* The steps of a push.
PushSteps == {"push", "env", "key", "target", "version", "info", "infoPlain"}

\* Messages are well formed, and the worker runs one whenever it is not idle.
TypeInv ==
    /\ queue \subseteq Messages
    /\ IF pc = "idle" THEN held = NoMessage ELSE held \in Messages /\ (held.task = Push => pc \in PushSteps)
    /\ requests \in Nat /\ requests <= MaxRequests
    /\ \A form \in forms : form.id \in Nat /\ form = [id |-> form.id, at |-> form.at, seen |-> form.seen]
    /\ pc \in Loaded \cup {"env", "key"} => IsLoad(mem)

\* An upload is known by its id: it is under way while begun and keyed differ, and once they
\* agree both files are from it.
KeyInv ==
    /\ upload = [id |-> upload.id, at |-> upload.at] /\ upload.at \in 0..4
    /\ begun \in Nat /\ keyed \in Nat
    /\ keyed <= requests \/ keyed = Earlier
    /\ begun <= requests \/ begun = Earlier
    /\ begun = keyed => upload.at = 0 /\ p8 = env /\ (keyed # 0 => p8 = keyed)
    /\ upload.at # 0 => upload.id = begun /\ begun # keyed
    /\ upload.at \in {3, 4} => p8 = upload.id

\* What a task has loaded, when no upload was incomplete meanwhile.
LoadInv ==
    /\ pc = "key" /\ ~overlap => begun = keyed /\ mem.since = keyed /\ mem.env = env
    /\ pc \in Loaded /\ ~overlap /\ mem.since # 0 => mem.account = mem.since

\* A generated draft has the URL when the URL is on record, and forms keep what they read.
DraftInv ==
    /\ legal \in BOOLEAN /\ draft \in [text : Nat, privacy : BOOLEAN] \cup {NoDraft}
    /\ \A form \in saves : form.id \in Nat /\ form.base \in [text : Nat, privacy : BOOLEAN] \cup {NoDraft}
    /\ pc = "draft" => mem = [privacy |-> legal]
    /\ linked => legal
    /\ linked /\ ~clash => draft # NoDraft /\ draft.privacy

\* The URL is recorded behind the pages.
PagesInv ==
    /\ pc = "record" /\ ~refused => pages = "site"
    /\ legal /\ ~refused => pages = "site"

PushDead == \E m \in dead : m.task = Push

\* What App Store Connect holds for the app in one account.
Entry(r) == r = [version |-> r.version, info |-> r.info, name |-> r.name, filled |-> r.filled]

\* A push works with the key that is there; only the account of that key can hold texts of
\* two drafts, and only while a push is still to come or running.
PushInv ==
    /\ \A a \in Accounts : Entry(asc[a])
    /\ asc = [a \in Accounts |-> asc[a]] /\ kept = [a \in Accounts |-> kept[a]]
    /\ pc \in {"version", "info", "infoPlain"} => held.task = Push
    /\ pc = "key" /\ held.task = Push /\ ~moved => mem.env = env
    /\ pc \in Loaded /\ held.task = Push /\ ~moved => mem.account = Scope(env, p8)
    /\ pc \in {"info", "infoPlain"} /\ mem.account \in Accounts /\ "version" \notin kept[mem.account] =>
           asc[mem.account].version = mem.text
    /\ ~moved /\ ~PushDead => \A a \in Accounts : ~Whole(a) => PushOutstanding /\ a = Scope(env, p8)

\* The documents of the job, and messages that rebuild the app: a job without sources is built,
\* one with sources is reworked.
Document == [settings : Nat, source : BOOLEAN]

Effective(m) ==
    \/ m.task = "build_frontend" /\ app = NoApp
    \/ m.task = "rework_frontend" /\ app # NoApp

RebuildWaits == (\E form \in forms : form.at = "committed") \/ \E m \in queue : Effective(m)

MetaSteps == {"merge", "build", "generate", "rework", "reworking"}

MetaTypes ==
    /\ metadata \in Document /\ app \in Nat \cup {NoApp}
    /\ \A form \in forms : form.seen \in Document /\ form.at \in {"read", "committed"}
    /\ pc = "merge" => mem.seeded \in Document
    /\ pc \in {"build", "generate"} => held.task = "build_frontend"
    /\ pc \in {"rework", "reworking"} => held.task = "rework_frontend"
    /\ pc \in {"generate", "reworking"} => mem.settings \in Nat
    /\ pc = "generate" => app = NoApp
    /\ pc = "reworking" => app # NoApp

\* The settings that were saved last are in the sources, or on their way into them: with the
\* running task, in a message, or in a form that is about to send one.
Rebuilding ==
    ~unseen /\ ~unasked /\ dead = {} =>
        IF pc \in {"generate", "reworking"}
        THEN mem.settings = saved \/ (pc = "reworking" /\ RebuildWaits)
        ELSE \/ saved = 0 \/ app = saved
             \/ RebuildWaits
             \/ pc \in {"build", "rework"} /\ Effective(held)
             \/ turned /\ app = NoApp

MetaInv == MetaTypes /\ (~unseen => metadata.settings = saved) /\ Rebuilding

\* The images in the bucket were drawn, and have version numbers of their own.
Image == [v : Nat, art : Nat, size : Sizes]

Images ==
    /\ made \in Nat /\ icons \in Seq(Image) /\ drawn \subseteq Nat \X Sizes
    /\ \A i \in 1..Len(icons) : icons[i].v \in 1..made
    /\ \A i \in 1..Len(icons) : <<icons[i].art, icons[i].size>> \in drawn
    /\ \A i, j \in 1..Len(icons) : icons[i].v = icons[j].v => i = j

\* A cached preview of the current icon shows some image of the length in its key; one of a
\* version shows it for as long as it is there.
CurrentCached ==
    \A t \in thumbs : t.key[1] = NoVersion => <<t.art, t.key[2]>> \in drawn

VersionCached ==
    \A t \in thumbs : t.key[1] # NoVersion =>
        /\ t.key[1] \in 1..made
        /\ \A i \in 1..Len(icons) : icons[i].v = t.key[1] => t.art = icons[i].art

Thumbs == CurrentCached /\ VersionCached

Chosen == \A r \in iconRequests : r.at = "select" => r.v \in drawn

\* One deletion at a time, begun with two versions at least, leaves one.
Remaining ==
    /\ bare => crowded \/ unread
    /\ ~crowded =>
           /\ made # 0 \/ pc = "readIcon" => icons # <<>>
           /\ \A r \in Deleting : Deleting = {r} /\ Len(icons) > 1

IconInv == Images /\ Thumbs /\ Chosen /\ Remaining

DeskInv == TypeInv /\ KeyInv /\ LoadInv /\ DraftInv /\ PagesInv /\ PushInv /\ MetaInv /\ IconInv

-----------------------------------------------------------------------------
\* Every step starts where TaskStart says.
LEMMA Starts ==
    /\ Tasks = {"generate_app_icon", "stage", "publish_legal_pages", "generate_store_listing",
                "push_store_listing", "autofill_store_metadata", "set_review_contact",
                "run_job", "build_frontend", "rework_frontend"}
    /\ \A t \in Tasks : TaskStart[t] \in {"drawIcon", "stageIcon", "publish", "legal", "push", "autofill",
                                          "contact", "ingest", "build", "rework"}
    /\ TaskStart[Push] = "push"
BY DEF Tasks, TaskStart, Push

\* A message that is retried is still one of the task.
LEMMA Retried ==
    ASSUME NEW m \in Messages
    PROVE  /\ [m EXCEPT !.retries = @ + 1] \in Messages
           /\ [m EXCEPT !.retries = @ + 1].task = m.task
BY DEF Messages

\* A push is outstanding when it waits or runs, before and after a step.
LEMMA Waiting ==
    /\ PushOutstanding <=> (\E m \in queue : m.task = Push) \/ (held # NoMessage /\ held.task = Push)
    /\ PushOutstanding' <=> (\E m \in queue' : m.task = Push) \/ (held' # NoMessage /\ held'.task = Push)
BY DEF PushOutstanding, Outstanding, Push

\* What the ends of a task do to the worker: a push that neither returns nor is dead waits.
LEMMA Ends ==
    ASSUME TypeInv, pc # "idle", Return \/ Raise \/ Crash
    PROVE  /\ pc' = "idle" /\ held' = NoMessage /\ queue' \subseteq Messages /\ requests' = requests
           /\ PushDead => PushDead'
           /\ PushOutstanding /\ (Raise \/ Crash \/ held.task # Push) => PushOutstanding' \/ PushDead'
<1>1. held \in Messages /\ [held EXCEPT !.retries = @ + 1] \in Messages
      /\ [held EXCEPT !.retries = @ + 1].task = held.task
  BY Retried DEF TypeInv
<1>2. CASE Return /\ ~Raise /\ ~Crash
  BY <1>2, Waiting DEF Return, Forget, TypeInv, PushDead
<1>3. CASE Raise
  <2>1. pc' = "idle" /\ held' = NoMessage /\ requests' = requests
    BY <1>3 DEF Raise, Forget
  <2>2. CASE held.retries < MaxRetries
    <3>1. queue' = queue \cup {[held EXCEPT !.retries = @ + 1]} /\ dead' = dead
      BY <1>3, <2>2 DEF Raise
    <3> QED  BY <1>1, <2>1, <3>1, Waiting DEF TypeInv, PushDead
  <2>3. CASE ~(held.retries < MaxRetries)
    <3>1. queue' = queue /\ dead' = dead \cup {held}
      BY <1>3, <2>3 DEF Raise
    <3> QED  BY <1>1, <2>1, <3>1, Waiting DEF TypeInv, PushDead
  <2> QED  BY <2>2, <2>3
<1>4. CASE Crash
  <2>1. pc' = "idle" /\ held' = NoMessage /\ requests' = requests /\ queue' = queue \cup {held} /\ dead' = dead
    BY <1>4 DEF Crash, Forget
  <2> QED  BY <1>1, <2>1, Waiting DEF TypeInv, PushDead
<1> QED  BY <1>2, <1>3, <1>4

-----------------------------------------------------------------------------
(***************************************************************************)
(* Messages.                                                               *)
(***************************************************************************)

\* A task that ends.
LEMMA TypeEnds ==
    ASSUME TypeInv, pc # "idle", Return \/ Raise \/ Crash, forms' = forms
    PROVE  TypeInv' /\ requests <= requests'
BY Ends DEF TypeInv, Loaded

\* A task that goes on, away from App Store Connect or with the memory of a load.
LEMMA TypeSteps ==
    ASSUME TypeInv, NEW from, NEW to, from # "idle", to # "idle", from \in PushSteps => to \in PushSteps \/ held.task # Push, Step(from, to), forms' = forms,
           to \in Loaded \cup {"env", "key"} => IsLoad(mem')
    PROVE  TypeInv' /\ requests <= requests'
BY DEF TypeInv, Step

\* A request of the admin, with or without a message.
LEMMA TypeVisits ==
    ASSUME TypeInv, Visit, queue' = queue \/ \E task \in Tasks : Enqueue(task, 0),
           UNCHANGED <<held, pc, mem>>,
           \A form \in forms' : form \in forms \/ form = [id |-> requests', at |-> "read", seen |-> metadata]
    PROVE  TypeInv' /\ requests <= requests'
<1>1. requests' \in Nat /\ requests' <= MaxRequests
  BY WorkerAssumption DEF TypeInv, Visit, WorkerAssumption
<1>2. queue' \subseteq Messages
  BY <1>1 DEF TypeInv, Enqueue, Messages, Tasks
<1> QED  BY <1>1, <1>2 DEF TypeInv, Visit

LEMMA TypeKept ==
    ASSUME TypeInv, Next
    PROVE  TypeInv' /\ requests <= requests'
<1>1. CASE Deliver(TaskStart) /\ UNCHANGED forms
  <2>1. PICK m \in queue : held' = m /\ queue' = queue \ {m} /\ pc' = TaskStart[m.task]
    BY <1>1 DEF Deliver
  <2>2. m \in Messages /\ pc' \notin Loaded \cup {"env", "key", "idle"}
    BY <2>1, Starts DEF TypeInv, Messages, Tasks, Loaded
  <2>3. m.task = Push => pc' \in PushSteps
    BY <2>1, Starts DEF PushSteps
  <2> QED  BY <1>1, <2>1, <2>2, <2>3 DEF TypeInv, Deliver, budget
<1>2. CASE Crash /\ UNCHANGED forms
  <2>1. CASE pc = "idle"
    BY <1>2, <2>1 DEF TypeInv, Crash, Forget
  <2> QED  BY <1>2, <2>1, TypeEnds
<1>3. CASE IconTask /\ UNCHANGED forms
  <2>1. CASE DrawIcon \/ DrawIconFails \/ StageIcon \/ StageIconFails
    BY <1>3, <2>1, TypeEnds DEF DrawIcon, DrawIconFails, StageIcon, StageIconFails
  <2>2. CASE LookForIcon
    BY <1>3, <2>2, TypeEnds, TypeSteps DEF PushSteps, LookForIcon, Loaded
  <2> QED  BY <1>3, <2>1, <2>2 DEF IconTask
<1>4. CASE IconAdmin /\ UNCHANGED forms
  <2>1. CASE AskDelete \/ AskSelect \/ AskPreview
    BY <1>4, <2>1, TypeVisits DEF AskDelete, AskSelect, AskPreview
  <2>2. CASE DeleteVersion \/ SelectVersion
    <3>1. UNCHANGED worker
      BY <2>2 DEF DeleteVersion, SelectVersion
    <3> QED  BY <1>4, <3>1 DEF worker, budget, TypeInv
  <2> QED  BY <1>4, <2>1, <2>2 DEF IconAdmin
<1>5. CASE IconRequest /\ UNCHANGED forms
  BY <1>5, Starts, TypeVisits DEF IconRequest, Enqueue
<1>6. CASE (AskUpload \/ Upload) /\ UNCHANGED forms
  BY <1>6, TypeVisits DEF AskUpload, Upload, worker, budget, TypeInv
<1>7. CASE LoadKey /\ UNCHANGED forms
  <2>1. CASE ReadEnv
    <3>1. IsLoad(mem')
      BY <2>1 DEF ReadEnv, Step, TypeInv, IsLoad
    <3>2. Step("env", "key")
      BY <2>1 DEF ReadEnv
    <3> QED  BY <1>7, <3>1, <3>2, TypeSteps DEF PushSteps
  <2>2. CASE ReadKey("target")
    <3>1. IsLoad([mem EXCEPT !.account = Scope(mem.env, p8)])
      BY <2>2 DEF ReadKey, TypeInv, IsLoad
    <3> QED  BY <1>7, <2>2, <3>1, TypeEnds, TypeSteps DEF PushSteps, ReadKey
  <2> QED  BY <1>7, <2>1, <2>2 DEF LoadKey
<1>8. CASE ListingTask /\ UNCHANGED forms
  <2>1. CASE RecordUrls \/ PutDraft \/ WriteInfo \/ ListingTaskFails
    BY <1>8, <2>1, TypeEnds DEF RecordUrls, PutDraft, WriteInfo, ListingTaskFails
  <2>2. CASE GatherFacts \/ PushPages \/ EnablePages \/ ReadLegal
    BY <1>8, <2>2, TypeEnds, TypeSteps DEF PushSteps, GatherFacts, PushPages, EnablePages, ReadLegal, Loaded
  <2>3. CASE ReadDraft \/ BeginFill \/ BeginContact
    BY <1>8, <2>3, TypeEnds, TypeSteps DEF PushSteps, ReadDraft, BeginFill, BeginContact, BeginCall, IsLoad, Loading
  <2>4. CASE FindTarget
    <3>1. CASE mem.account = Mixed
      BY <1>8, <2>4, <3>1, TypeEnds DEF FindTarget
    <3>2. CASE mem.account # Mixed
      <4>1. IsLoad(mem) /\ IsLoad(mem')
        BY <2>4, <3>2 DEF FindTarget, IsLoad, TypeInv, Loaded
      <4>2. Step("target", "version") \/ (held.task # Push /\ Step("target", "fill"))
        BY <2>4, <3>2 DEF FindTarget, Push
      <4> QED  BY <1>8, <4>1, <4>2, TypeSteps DEF PushSteps
    <3> QED  BY <3>1, <3>2
  <2>5. CASE WriteVersion \/ NameLocked
    BY <1>8, <2>5, TypeSteps DEF PushSteps, WriteVersion, NameLocked, TypeInv, Loaded, Step
  <2>6. CASE Fill
    <3>1. CASE mem.todo = <<>>
      BY <1>8, <2>6, <3>1, TypeEnds DEF Fill
    <3>2. CASE mem.todo # <<>>
      BY <1>8, <2>6, <3>2, TypeSteps DEF PushSteps, Fill, IsLoad, TypeInv, Loaded
    <3> QED  BY <3>1, <3>2
  <2> QED  BY <1>8, <2>1, <2>2, <2>3, <2>4, <2>5, <2>6 DEF ListingTask
<1>9. CASE ListingRequest /\ UNCHANGED forms
  BY <1>9, Starts, TypeVisits DEF ListingRequest, Enqueue
<1>10. CASE (AskSave \/ PutSave) /\ UNCHANGED forms
  BY <1>10, TypeVisits DEF AskSave, PutSave, worker, budget, TypeInv
<1>11. CASE MetaTask
  <2>1. CASE BeginIngest \/ Ingest \/ StoreWalk
    BY <2>1, TypeSteps DEF PushSteps, BeginIngest, Ingest, StoreWalk, metaVars, Loaded
  <2>2. CASE EndAnalysis \/ TurnAway \/ StoreSources \/ MetaTaskFails
    BY <2>2, TypeEnds DEF EndAnalysis, TurnAway, StoreSources, MetaTaskFails, metaVars
  <2>3. CASE BeginBuild \/ BeginRework
    BY <2>3, TypeEnds, TypeSteps DEF PushSteps, BeginBuild, BeginRework, metaVars, Loaded
  <2>4. CASE Analyse
    <3>1. pc = "spec" /\ pc' = "analysed" /\ UNCHANGED <<held, mem, requests, forms>>
      BY <2>4 DEF Analyse, budget
    <3>2. queue' \subseteq Messages
      BY <2>4, Starts DEF Analyse, FirstBuild, TypeInv, Messages, Tasks
    <3> QED  BY <3>1, <3>2 DEF TypeInv, PushSteps, Loaded
  <2> QED  BY <1>11, <2>1, <2>2, <2>3, <2>4 DEF MetaTask
<1>12. CASE MetaAdmin
  <2>1. CASE AskSettings
    BY <2>1, TypeVisits DEF AskSettings
  <2>2. CASE CommitSettings
    <3>1. PICK form \in forms : forms' = (forms \ {form}) \cup {[form EXCEPT !.at = "committed"]}
      BY <2>2 DEF CommitSettings
    <3>2. [form EXCEPT !.at = "committed"] = [id |-> form.id, at |-> "committed", seen |-> form.seen]
      BY DEF TypeInv
    <3> QED  BY <2>2, <3>1, <3>2 DEF CommitSettings, worker, budget, TypeInv
  <2>3. CASE EnqueueRebuild
    <3>1. PICK form \in forms :
              queue' = queue \cup {[id |-> form.id, arg |-> 0, retries |-> 0,
                            task |-> IF app = NoApp THEN "build_frontend" ELSE "rework_frontend"]}
      BY <2>3 DEF EnqueueRebuild
    <3>2. queue' \subseteq Messages
      BY <3>1, Starts DEF Messages, TypeInv, Tasks
    <3> QED  BY <2>3, <3>2 DEF EnqueueRebuild, TypeInv, budget
  <2>4. CASE EnqueueFails
    BY <2>4 DEF EnqueueFails, TypeInv
  <2> QED  BY <1>12, <2>1, <2>2, <2>3, <2>4 DEF MetaAdmin
<1>13. CASE AdminDies
  BY <1>13 DEF AdminDies, TypeInv
<1> QED
  BY <1>1, <1>2, <1>3, <1>4, <1>5, <1>6, <1>7, <1>8, <1>9, <1>10, <1>11, <1>12, <1>13
  DEF Next, iconVars, keyVars, listingVars, metaVars

-----------------------------------------------------------------------------
\* The steps at which the parts of the invariant say something.
Writing == Loaded \cup {"key", "draft", "record"}

ListingStep == ListingTask /\ UNCHANGED <<iconVars, keyVars, metaVars>>

\* Away from the listing and the key the running task stays where it is, or is at no step of
\* theirs, and a push that is outstanding stays so or dies.
LEMMA Elsewhere ==
    ASSUME TypeInv, Next, ~ListingStep, ~LoadKey
    PROVE  /\ UNCHANGED <<held, pc, mem>> \/ pc' \notin Writing
           /\ PushDead => PushDead'
           /\ PushOutstanding => PushOutstanding' \/ PushDead'
<1> DEFINE Goal == /\ UNCHANGED <<held, pc, mem>> \/ pc' \notin Writing
                   /\ PushDead => PushDead'
                   /\ PushOutstanding => PushOutstanding' \/ PushDead'
<1>1. ASSUME pc # "idle", pc \notin PushSteps, Return \/ Raise PROVE Goal
  BY <1>1, Ends DEF Writing, Loaded, TypeInv
<1>2. ASSUME NEW from, NEW to, to \notin Writing, Step(from, to) PROVE Goal
  BY <1>2, Waiting DEF Step, PushDead
<1>3. ASSUME UNCHANGED <<held, pc, mem, dead>>, queue \subseteq queue' PROVE Goal
  BY <1>3, Waiting DEF PushDead
<1>4. CASE Deliver(TaskStart)
  <2>1. PICK m \in queue : held' = m /\ queue' = queue \ {m} /\ pc' = TaskStart[m.task] /\ dead' = dead
    BY <1>4 DEF Deliver
  <2>2. pc' \notin Writing /\ pc' # "idle"
    BY <2>1, Starts DEF TypeInv, Messages, Tasks, Writing, Loaded
  <2>3. held = NoMessage /\ held' # NoMessage
    BY <1>4, <2>1, DeskAssumption DEF Deliver, TypeInv, DeskAssumption
  <2> QED  BY <2>1, <2>2, <2>3, Waiting DEF PushDead
<1>5. CASE Crash
  <2>1. pc # "idle" /\ pc' = "idle"
    BY <1>5 DEF Crash, Forget, TypeInv
  <2> QED  BY <1>5, <2>1, Ends DEF Writing, Loaded
<1>6. CASE IconTask
  BY <1>1, <1>2, <1>6 DEF IconTask, DrawIcon, DrawIconFails, LookForIcon, StageIcon, StageIconFails, PushSteps, Writing, Loaded
<1>7. CASE IconAdmin \/ IconRequest
  BY <1>3, <1>7 DEF IconAdmin, IconRequest, AskDelete, DeleteVersion, AskSelect, SelectVersion, AskPreview, Enqueue, worker, budget
<1>8. CASE AskUpload \/ Upload \/ ListingRequest \/ AskSave \/ PutSave
  BY <1>3, <1>8 DEF AskUpload, Upload, ListingRequest, AskSave, PutSave, Enqueue, worker, budget
<1>9. CASE MetaTask
  <2>1. CASE Analyse
    <3>1. pc' = "analysed" /\ UNCHANGED <<held, dead>> /\ queue \subseteq queue'
      BY <2>1 DEF Analyse
    <3> QED  BY <3>1, Waiting DEF PushDead, Writing, Loaded
  <2> QED
    BY <1>1, <1>2, <1>9, <2>1
    DEF MetaTask, BeginIngest, Ingest, StoreWalk, EndAnalysis, BeginBuild, TurnAway, BeginRework, StoreSources, MetaTaskFails, PushSteps, Writing, Loaded
<1>10. CASE MetaAdmin
  BY <1>3, <1>10 DEF MetaAdmin, AskSettings, CommitSettings, EnqueueRebuild, EnqueueFails, worker, budget
<1>11. CASE AdminDies
  BY <1>3, <1>11 DEF AdminDies
<1> QED
  BY <1>4, <1>5, <1>6, <1>7, <1>8, <1>9, <1>10, <1>11 DEF Next, ListingStep

\* What the listing task leaves of the running task, when it is not at a step of its own.
LEMMA Finishes ==
    ASSUME TypeInv, pc # "idle", Return \/ Raise
    PROVE  pc' \notin Writing
BY Ends DEF Writing, Loaded

-----------------------------------------------------------------------------
(***************************************************************************)
(* Legal pages and drafts.                                                 *)
(***************************************************************************)

\* Only RecordUrls, behind EnablePages, records the URL.
LEMMA PagesKept ==
    ASSUME TypeInv, PagesInv, Next
    PROVE  PagesInv'
<1>1. CASE ListingStep
  <2>1. CASE GatherFacts \/ PushPages \/ ReadLegal \/ ReadDraft \/ BeginFill \/ BeginContact
    BY <2>1, Finishes DEF GatherFacts, PushPages, ReadLegal, ReadDraft, BeginFill, BeginContact, BeginCall, Step, listingVars, PagesInv, Writing, Loaded
  <2>2. CASE EnablePages
    BY <2>2 DEF EnablePages, PagesInv
  <2>3. CASE RecordUrls \/ PutDraft \/ WriteInfo \/ ListingTaskFails
    BY <2>3, Finishes DEF RecordUrls, PutDraft, WriteInfo, ListingTaskFails, listingVars, PagesInv, Writing
  <2>4. CASE FindTarget \/ WriteVersion \/ NameLocked
    BY <2>4, Finishes DEF FindTarget, WriteVersion, NameLocked, Step, listingVars, PagesInv, Writing
  <2>5. CASE Fill
    BY <2>5, Finishes DEF Fill, Step, listingVars, PagesInv, Writing
  <2> QED  BY <1>1, <2>1, <2>2, <2>3, <2>4, <2>5 DEF ListingStep, ListingTask
<1>2. CASE LoadKey
  BY <1>2, Finishes DEF LoadKey, ReadEnv, ReadKey, Step, listingVars, PagesInv, Writing
<1>3. CASE ~ListingStep /\ ~LoadKey
  <2>1. UNCHANGED <<legal, pages, refused>>
    BY <1>3 DEF Next, ListingStep, LoadKey, ListingRequest, AskSave, PutSave, AdminDies, listingVars
  <2> QED  BY <1>3, <2>1, Elsewhere DEF PagesInv, Writing
<1> QED  BY <1>1, <1>2, <1>3

\* Drafts and forms take the URL from what they have read.
LEMMA DraftKept ==
    ASSUME TypeInv, DraftInv, Next
    PROVE  DraftInv'
<1>1. CASE ListingStep
  <2>1. CASE GatherFacts \/ PushPages \/ EnablePages \/ ReadDraft \/ BeginFill \/ BeginContact
    BY <2>1, Finishes DEF GatherFacts, PushPages, EnablePages, ReadDraft, BeginFill, BeginContact, BeginCall, Step, listingVars, DraftInv, Writing, Loaded
  <2>2. CASE RecordUrls \/ WriteInfo \/ ListingTaskFails
    <3>1. pc' \notin Writing /\ legal' \in BOOLEAN /\ (legal => legal')
      BY <2>2, Finishes DEF RecordUrls, WriteInfo, ListingTaskFails, listingVars, DraftInv
    <3>2. UNCHANGED <<draft, saves, linked, clash>>
      BY <2>2 DEF RecordUrls, WriteInfo, ListingTaskFails, listingVars
    <3> QED  BY <3>1, <3>2 DEF DraftInv, Writing
  <2>3. CASE ReadLegal
    BY <2>3 DEF ReadLegal, listingVars, DraftInv
  <2>4. CASE PutDraft
    <3>1. held.id \in Nat
      BY <2>4 DEF PutDraft, TypeInv, Messages
    <3>2. mem.privacy = legal /\ pc' \notin Writing
      BY <2>4, Finishes DEF PutDraft, DraftInv
    <3>3. draft' = [text |-> held.id, privacy |-> legal] /\ draft' # NoDraft
      BY <2>4, <3>1, <3>2, DraftAssumption DEF PutDraft, Drafted, DraftInv, DraftAssumption
    <3>4. UNCHANGED <<legal, saves, clash>> /\ (linked' => linked \/ legal)
      BY <2>4, <3>2 DEF PutDraft
    <3> QED  BY <3>1, <3>2, <3>3, <3>4 DEF DraftInv, Writing
  <2>5. CASE FindTarget \/ WriteVersion \/ NameLocked
    BY <2>5, Finishes DEF FindTarget, WriteVersion, NameLocked, Step, listingVars, DraftInv, Writing, Loaded
  <2>6. CASE Fill
    BY <2>6, Finishes DEF Fill, Step, listingVars, DraftInv, Writing
  <2> QED  BY <1>1, <2>1, <2>2, <2>3, <2>4, <2>5, <2>6 DEF ListingStep, ListingTask
<1>2. CASE LoadKey
  BY <1>2, Finishes DEF LoadKey, ReadEnv, ReadKey, Step, listingVars, DraftInv, Writing, Loaded
<1>3. CASE AskSave
  <2>1. requests' \in Nat
    BY <1>3, TypeKept DEF TypeInv
  <2> QED  BY <1>3, <2>1 DEF AskSave, DraftInv
<1>4. CASE PutSave
  BY <1>4, DraftAssumption DEF PutSave, Merged, DraftInv, worker, DraftAssumption
<1>5. CASE ~ListingStep /\ ~LoadKey /\ ~AskSave /\ ~PutSave
  <2>1. UNCHANGED <<legal, draft, linked, clash>> /\ saves' \subseteq saves
    BY <1>5 DEF Next, ListingStep, LoadKey, ListingRequest, AdminDies, listingVars
  <2> QED  BY <1>5, <2>1, Elsewhere DEF DraftInv, Writing
<1> QED  BY <1>1, <1>2, <1>3, <1>4, <1>5

-----------------------------------------------------------------------------
(***************************************************************************)
(* The key.                                                                *)
(***************************************************************************)

\* Files and uploads agree.
LEMMA KeyKept ==
    ASSUME TypeInv, KeyInv, Next
    PROVE  KeyInv'
<1>1. CASE AskUpload
  <2>1. requests' = requests + 1 /\ requests < MaxRequests /\ MaxRequests \in Nat /\ requests \in Nat
    BY <1>1, WorkerAssumption DEF AskUpload, Visit, WorkerAssumption, TypeInv
  <2>2. begun' # keyed
    BY <1>1, <2>1 DEF AskUpload, KeyInv, Earlier
  <2> QED  BY <1>1, <2>1, <2>2 DEF AskUpload, KeyInv, keyFiles
<1>2. CASE Upload
  <2>1. requests' = requests /\ begun' = begun
    BY <1>2 DEF Upload, worker, budget
  <2>2. CASE upload.at = 1
    BY <1>2, <2>1, <2>2 DEF Upload, KeyInv
  <2>3. CASE upload.at = 2
    BY <1>2, <2>1, <2>3 DEF Upload, KeyInv
  <2>4. CASE upload.at = 3
    BY <1>2, <2>1, <2>4 DEF Upload, KeyInv
  <2>5. CASE upload.at = 4
    <3>1. upload' = [id |-> upload.id, at |-> 0] /\ upload.id \in Nat
      BY <1>2, <2>5 DEF Upload, KeyInv
    <3>3. upload.id <= requests' \/ upload.id = Earlier
      BY <1>2, <2>1, <2>5 DEF KeyInv
    <3>2. p8' = upload.id /\ env' = upload.id /\ keyed' = upload.id /\ begun = upload.id
      BY <1>2, <2>5 DEF Upload, KeyInv
    <3> QED  BY <2>1, <3>1, <3>2, <3>3 DEF KeyInv
  <2> QED  BY <1>2, <2>2, <2>3, <2>4, <2>5 DEF Upload, KeyInv
<1>3. CASE ~AskUpload /\ ~Upload
  <2>1. UNCHANGED <<p8, env, begun, keyed>> /\ (upload' = upload \/ upload' = [id |-> 0, at |-> 0])
    BY <1>3 DEF Next, ListingStep, LoadKey, ReadEnv, ReadKey, AdminDies, keyVars, keyFiles
  <2>2. requests' \in Nat /\ requests' >= requests /\ requests \in Nat
    BY TypeKept DEF TypeInv
  <2> QED  BY <2>1, <2>2 DEF KeyInv
<1> QED  BY <1>1, <1>2, <1>3

\* A task loads a key while both files are from one upload, or the history says otherwise.
LEMMA LoadKept ==
    ASSUME TypeInv, KeyInv, LoadInv, Next
    PROVE  LoadInv'
<1>1. CASE LoadKey
  <2>1. CASE ReadEnv
    <3>1. IsLoad(mem) /\ mem' = [mem EXCEPT !.env = env, !.since = keyed] /\ pc' = "key"
      BY <2>1 DEF ReadEnv, Step, TypeInv
    <3>2. mem'.env = env /\ mem'.since = keyed
      BY <3>1 DEF IsLoad
    <3> QED  BY <2>1, <3>1, <3>2 DEF ReadEnv, LoadInv, keyFiles, Loaded
  <2>2. CASE ReadKey("target")
    <3>1. CASE Scope(mem.env, p8) = NoAccount
      BY <2>2, <3>1, Finishes DEF ReadKey, LoadInv, Writing
    <3>2. CASE Scope(mem.env, p8) # NoAccount
      <4>1. IsLoad(mem) /\ mem' = [mem EXCEPT !.account = Scope(mem.env, p8)] /\ pc = "key" /\ pc' = "target"
        BY <2>2, <3>2 DEF ReadKey, Step, TypeInv
      <4>2. mem'.account = Scope(mem.env, p8) /\ mem'.since = mem.since /\ UNCHANGED keyVars
        BY <2>2, <4>1 DEF IsLoad, ReadKey
      <4>3. ~overlap /\ mem.since # 0 => Scope(mem.env, p8) = mem.since
        BY <4>1, KeyAssumption DEF LoadInv, KeyInv, Scope, KeyAssumption, Empty
      <4> QED  BY <4>1, <4>2, <4>3 DEF LoadInv, keyVars, Loaded
    <3> QED  BY <3>1, <3>2
  <2> QED  BY <1>1, <2>1, <2>2 DEF LoadKey
<1>2. CASE ListingStep
  <2>1. CASE GatherFacts \/ PushPages \/ EnablePages \/ ReadLegal \/ ReadDraft \/ BeginFill \/ BeginContact
    BY <1>2, <2>1, Finishes DEF ListingStep, GatherFacts, PushPages, EnablePages, ReadLegal, ReadDraft, BeginFill, BeginContact, BeginCall, Step,
       LoadInv, Writing, Loaded, keyVars, keyFiles
  <2>2. CASE RecordUrls \/ PutDraft \/ WriteInfo \/ ListingTaskFails
    BY <2>2, Finishes DEF RecordUrls, PutDraft, WriteInfo, ListingTaskFails, LoadInv, Writing
  <2>3. CASE FindTarget \/ WriteVersion \/ NameLocked \/ Fill
    <3>1. CASE pc' \notin Writing
      BY <3>1 DEF LoadInv, Writing
    <3>2. CASE pc' \in Writing
      <4>1. IsLoad(mem) /\ pc \in Loaded
        BY <2>3 DEF FindTarget, WriteVersion, NameLocked, Fill, Step, TypeInv, Loaded
      <4>2. pc' # "key" /\ mem'.account = mem.account /\ mem'.since = mem.since
        <5>1. CASE FindTarget
          <6>1. mem.account # Mixed
            BY <3>2, <5>1, Finishes DEF FindTarget
          <6>2. pc' \in {"version", "fill"} /\ (mem' = mem \/ \E todo : mem' = [mem EXCEPT !.todo = todo])
            BY <5>1, <6>1, Zenon DEF FindTarget, Step
          <6> QED  BY <4>1, <6>2 DEF IsLoad
        <5>2. CASE WriteVersion \/ NameLocked
          BY <5>2 DEF WriteVersion, NameLocked, Step
        <5>3. CASE Fill
          <6>1. mem.todo # <<>>
            BY <3>2, <5>3, Finishes DEF Fill
          <6>2. pc' = "fill" /\ \E todo : mem' = [mem EXCEPT !.todo = todo]
            BY <5>3, <6>1, Zenon DEF Fill, Step
          <6> QED  BY <4>1, <6>2 DEF IsLoad
        <5> QED  BY <2>3, <5>1, <5>2, <5>3
      <4> QED  BY <1>2, <4>1, <4>2 DEF ListingStep, LoadInv, keyVars
    <3> QED  BY <3>1, <3>2
  <2> QED  BY <1>2, <2>1, <2>2, <2>3 DEF ListingStep, ListingTask
<1>3. CASE ~LoadKey /\ ~ListingStep
  <2>1. CASE pc' \notin Writing
    BY <2>1 DEF LoadInv, Writing
  <2>2. CASE UNCHANGED <<pc, mem>>
    <3>1. CASE AskUpload
      BY <2>2, <3>1 DEF AskUpload, LoadInv
    <3>2. CASE Upload
      BY <2>2, <3>2 DEF Upload, LoadInv, KeyInv
    <3>3. CASE ~AskUpload /\ ~Upload
      <4>1. UNCHANGED <<env, begun, keyed, overlap>>
        BY <1>3, <3>3 DEF Next, ListingStep, AdminDies, keyVars, keyFiles
      <4> QED  BY <2>2, <4>1 DEF LoadInv
    <3> QED  BY <3>1, <3>2, <3>3
  <2> QED  BY <1>3, <2>1, <2>2, Elsewhere
<1> QED  BY <1>1, <1>2, <1>3

-----------------------------------------------------------------------------
(***************************************************************************)
(* The push.                                                               *)
(***************************************************************************)
ascVars   == <<asc, kept>>
KeyStays  == UNCHANGED <<p8, env, moved>>
PushStays == (PushDead => PushDead') /\ (PushOutstanding => PushOutstanding' \/ PushDead')

\* Where texts and exceptions stay as they are, an account is as whole as it was.
LEMMA WholeStays ==
    ASSUME NEW a, asc'[a].version = asc[a].version, asc'[a].info = asc[a].info,
           asc'[a].name = asc[a].name, kept'[a] = kept[a]
    PROVE  Whole(a)' <=> Whole(a)
BY DEF Whole

\* A step that writes nothing to App Store Connect and leaves the key alone.
LEMMA PushFrame ==
    ASSUME PushInv, UNCHANGED ascVars, KeyStays, PushStays,
           UNCHANGED <<held, pc, mem>> \/ pc' \notin Writing
    PROVE  PushInv'
<1>1. CASE UNCHANGED <<held, pc, mem>>
  BY <1>1, WholeStays DEF PushInv, ascVars, KeyStays, PushStays
<1>2. CASE pc' \notin Writing
  BY <1>2, WholeStays DEF PushInv, ascVars, KeyStays, PushStays, Writing, Loaded
<1> QED  BY <1>1, <1>2

\* A step of the running task keeps the messages; a task that is no push, or raises, ends
\* without the push being forgotten.
LEMMA PushSteady ==
    ASSUME TypeInv,
           \/ \E from, to : Step(from, to)
           \/ pc # "idle" /\ (Raise \/ Return) /\ (Raise \/ held.task # Push)
    PROVE  PushStays
<1>1. CASE \E from, to : Step(from, to)
  BY <1>1, Waiting DEF Step, PushStays, PushDead
<1>2. CASE pc # "idle" /\ (Raise \/ Return) /\ (Raise \/ held.task # Push)
  BY <1>2, Ends DEF PushStays
<1> QED  BY <1>1, <1>2

LEMMA PushKept ==
    ASSUME TypeInv, KeyInv, PushInv, Next
    PROVE  PushInv'
<1>1. CASE LoadKey
  <2>1. CASE ReadEnv
    <3>1. IsLoad(mem) /\ mem' = [mem EXCEPT !.env = env, !.since = keyed] /\ pc' = "key"
      BY <2>1 DEF ReadEnv, Step, TypeInv
    <3>2. mem'.env = env
      BY <3>1 DEF IsLoad
    <3>3. PushStays
      BY <2>1, PushSteady DEF ReadEnv
    <3>4. UNCHANGED ascVars /\ KeyStays
      BY <1>1, <2>1 DEF LoadKey, ReadEnv, keyFiles, listingVars, KeyStays, ascVars
    <3> QED  BY <3>1, <3>2, <3>3, <3>4, WholeStays DEF PushInv, ascVars, PushStays, KeyStays, Loaded
  <2>2. CASE ReadKey("target")
    <3>1. UNCHANGED ascVars /\ KeyStays
      BY <1>1, <2>2 DEF LoadKey, ReadKey, keyVars, keyFiles, listingVars, KeyStays, ascVars
    <3>2. CASE Scope(mem.env, p8) = NoAccount
      <4>1. pc # "idle" /\ Raise
        BY <2>2, <3>2 DEF ReadKey
      <4> QED  BY <3>1, <4>1, Finishes, PushSteady, PushFrame
    <3>3. CASE Scope(mem.env, p8) # NoAccount
      <4>1. IsLoad(mem) /\ mem' = [mem EXCEPT !.account = Scope(mem.env, p8)] /\ pc = "key" /\ pc' = "target"
            /\ held' = held
        BY <2>2, <3>3 DEF ReadKey, Step, TypeInv
      <4>2. mem'.account = Scope(mem.env, p8)
        BY <4>1 DEF IsLoad
      <4>3. PushStays
        BY <2>2, <3>3, PushSteady DEF ReadKey
      <4> QED  BY <3>1, <4>1, <4>2, <4>3, WholeStays DEF PushInv, ascVars, PushStays, KeyStays
    <3> QED  BY <3>2, <3>3
  <2> QED  BY <1>1, <2>1, <2>2 DEF LoadKey
<1>2. CASE ListingStep
  <2>1. KeyStays
    BY <1>2 DEF ListingStep, keyVars, keyFiles, KeyStays
  <2>2. CASE GatherFacts \/ PushPages \/ EnablePages \/ ReadLegal \/ ReadDraft \/ BeginFill \/ BeginContact
    <3>1. UNCHANGED ascVars
      BY <2>2 DEF GatherFacts, PushPages, EnablePages, ReadLegal, ReadDraft, BeginFill, BeginContact, BeginCall, listingVars, ascVars
    <3>2. pc' \notin Writing \/ pc' = "draft" \/ pc' = "record"
      BY <2>2, Finishes DEF GatherFacts, PushPages, EnablePages, ReadLegal, ReadDraft, BeginFill, BeginContact, BeginCall, Step, Writing, Loaded
    <3>3. PushStays
      BY <2>2, PushSteady DEF GatherFacts, PushPages, EnablePages, ReadLegal, ReadDraft, BeginFill, BeginContact, BeginCall, TypeInv, PushSteps
    <3> QED  BY <2>1, <3>1, <3>2, <3>3, WholeStays DEF PushInv, ascVars, PushStays, KeyStays, Writing, Loaded
  <2>3. CASE RecordUrls \/ PutDraft \/ ListingTaskFails
    <3>1. UNCHANGED ascVars
      BY <2>3 DEF RecordUrls, PutDraft, ListingTaskFails, listingVars, ascVars
    <3>2. pc' \notin Writing
      BY <2>3, Finishes DEF RecordUrls, PutDraft, ListingTaskFails
    <3>3. PushStays
      BY <2>3, PushSteady DEF RecordUrls, PutDraft, ListingTaskFails, TypeInv, PushSteps
    <3> QED  BY <2>1, <3>1, <3>2, <3>3, PushFrame
  <2>4. CASE FindTarget
    <3>1. UNCHANGED ascVars
      BY <2>4 DEF FindTarget, listingVars, ascVars
    <3>2. CASE mem.account = Mixed
      BY <2>1, <2>4, <3>1, <3>2, Finishes, PushSteady, PushFrame DEF FindTarget
    <3>3. CASE mem.account # Mixed
      <4>1. \/ held.task = Push /\ Step("target", "version") /\ mem' = mem
            \/ held.task # Push /\ Step("target", "fill")
        BY <2>4, <3>3 DEF FindTarget, Push
      <4>2. PushStays /\ pc = "target" /\ held' = held
        BY <4>1, PushSteady DEF Step
      <4> QED  BY <2>1, <3>1, <4>1, <4>2, WholeStays DEF PushInv, ascVars, PushStays, KeyStays, Step, Loaded
    <3> QED  BY <3>2, <3>3
  <2>5. CASE WriteVersion
    <3> DEFINE acc == mem.account
    <3>1. held.task = Push /\ pc = "version" /\ pc' = "info" /\ mem' = mem /\ held' = held
      BY <2>5 DEF WriteVersion, Step, PushInv
    <3>2. PushStays /\ PushOutstanding'
      BY <2>5, <3>1, PushSteady, Waiting DEF WriteVersion, Step
    <3>3. \/ asc' = [asc EXCEPT ![acc].version = mem.text] /\ kept' = [kept EXCEPT ![acc] = @ \ {"version"}]
          \/ asc' = asc /\ kept' = [kept EXCEPT ![acc] = @ \cup {"version"}]
      BY <2>5 DEF WriteVersion
    <3>4. /\ asc' = [a \in Accounts |-> asc'[a]] /\ kept' = [a \in Accounts |-> kept'[a]]
          /\ \A a \in Accounts : a # acc => asc'[a] = asc[a] /\ kept'[a] = kept[a]
      BY <3>3 DEF PushInv
    <3>5. ASSUME acc \in Accounts
          PROVE  Entry(asc'[acc]) /\ ("version" \notin kept'[acc] => asc'[acc].version = mem.text)
      <4>1. CASE asc' = [asc EXCEPT ![acc].version = mem.text]
        <5>1. asc'[acc] = [version |-> mem.text, info |-> asc[acc].info, name |-> asc[acc].name, filled |-> asc[acc].filled]
          BY <3>5, <4>1 DEF PushInv, Entry
        <5> QED  BY <5>1 DEF Entry
      <4>2. CASE asc' = asc /\ kept' = [kept EXCEPT ![acc] = @ \cup {"version"}]
        BY <3>5, <4>2 DEF PushInv
      <4> QED  BY <3>3, <4>1, <4>2
    <3>6. \A a \in Accounts : Entry(asc'[a])
      BY <3>4, <3>5 DEF PushInv
    <3>7. ~moved /\ ~PushDead => \A a \in Accounts : ~Whole(a)' => a = Scope(env, p8)
      <4>1. ~moved => acc = Scope(env, p8)
        BY <3>1 DEF PushInv, Loaded
      <4>2. \A a \in Accounts : a # acc => (Whole(a)' <=> Whole(a))
        BY <3>4, WholeStays
      <4> HIDE DEF acc
      <4> QED  BY <4>1, <4>2 DEF PushInv
    <3>8. acc = mem'.account
      BY <3>1
    <3> HIDE DEF acc
    <3> QED  BY <2>1, <3>1, <3>2, <3>4, <3>5, <3>6, <3>7, <3>8 DEF PushInv, PushStays, KeyStays, Loaded
  <2>6. CASE NameLocked
    <3>1. UNCHANGED ascVars /\ pc = "info" /\ pc' = "infoPlain" /\ mem' = mem /\ held' = held
      BY <2>6 DEF NameLocked, Step, listingVars, ascVars
    <3>2. PushStays
      BY <2>6, PushSteady DEF NameLocked
    <3> QED  BY <2>1, <3>1, <3>2, WholeStays DEF PushInv, ascVars, PushStays, KeyStays, Loaded
  <2>7. CASE WriteInfo
    <3> DEFINE acc == mem.account
    <3>1. held.task = Push /\ pc \in {"info", "infoPlain"} /\ pc' \notin Writing /\ (PushDead => PushDead')
      BY <2>7, Finishes, Ends DEF WriteInfo, PushInv
    <3>2. \/ /\ asc' = [asc EXCEPT ![acc].info = mem.text, ![acc].name = mem.text]
             /\ kept' = [kept EXCEPT ![acc] = @ \ {"info", "name"}]
          \/ /\ asc' = [asc EXCEPT ![acc].info = mem.text]
             /\ kept' = [kept EXCEPT ![acc] = (@ \ {"info"}) \cup {"name"}]
          \/ asc' = asc /\ kept' = [kept EXCEPT ![acc] = @ \cup {"info", "name"}]
      BY <2>7 DEF WriteInfo
    <3>3. asc = [a \in Accounts |-> asc[a]] /\ kept = [a \in Accounts |-> kept[a]] /\ \A a \in Accounts : Entry(asc[a])
      BY DEF PushInv
    <3>4. /\ asc' = [a \in Accounts |-> asc'[a]] /\ kept' = [a \in Accounts |-> kept'[a]]
          /\ \A a \in Accounts : a # acc => asc'[a] = asc[a] /\ kept'[a] = kept[a]
      BY <3>2, <3>3
    <3>5. ASSUME NEW a \in Accounts, a = acc
          PROVE  Entry(asc'[a]) /\ Whole(a)'
      <4>1. "version" \notin kept[a] => asc[a].version = mem.text
        BY <3>1, <3>5 DEF PushInv
      <4>2. CASE /\ asc' = [asc EXCEPT ![acc].info = mem.text, ![acc].name = mem.text]
                 /\ kept' = [kept EXCEPT ![acc] = @ \ {"info", "name"}]
        <5>1. asc'[a] = [version |-> asc[a].version, info |-> mem.text, name |-> mem.text, filled |-> asc[a].filled]
          <6>1. asc[a] = [version |-> asc[a].version, info |-> asc[a].info, name |-> asc[a].name, filled |-> asc[a].filled]
            BY <3>3 DEF Entry
          <6>2. asc'[a] = [[asc[a] EXCEPT !.info = mem.text] EXCEPT !.name = mem.text]
            <7> HIDE DEF Entry
            <7> QED  BY <3>3, <3>5, <4>2
          <6> QED  BY <6>1, <6>2
        <5>2. kept'[a] = kept[a] \ {"info", "name"}
          BY <3>3, <3>5, <4>2
        <5>3. asc'[a].version = asc[a].version /\ asc'[a].info = mem.text /\ asc'[a].name = mem.text /\ Entry(asc'[a])
          BY <5>1 DEF Entry
        <5>4. "version" \notin kept'[a] => "version" \notin kept[a]
          BY <5>2
        <5> QED  BY <4>1, <5>3, <5>4 DEF Whole
      <4>3. CASE /\ asc' = [asc EXCEPT ![acc].info = mem.text]
                 /\ kept' = [kept EXCEPT ![acc] = (@ \ {"info"}) \cup {"name"}]
        <5>1. asc'[a] = [version |-> asc[a].version, info |-> mem.text, name |-> asc[a].name, filled |-> asc[a].filled]
          <6>1. asc[a] = [version |-> asc[a].version, info |-> asc[a].info, name |-> asc[a].name, filled |-> asc[a].filled]
            BY <3>3 DEF Entry
          <6>2. asc'[a] = [asc[a] EXCEPT !.info = mem.text]
            BY <3>3, <3>5, <4>3
          <6> QED  BY <6>1, <6>2
        <5>2. kept'[a] = (kept[a] \ {"info"}) \cup {"name"}
          BY <3>3, <3>5, <4>3
        <5>3. asc'[a].version = asc[a].version /\ asc'[a].info = mem.text /\ Entry(asc'[a])
          BY <5>1 DEF Entry
        <5>4. ("version" \notin kept'[a] => "version" \notin kept[a]) /\ "name" \in kept'[a]
          BY <5>2
        <5> QED  BY <4>1, <5>3, <5>4 DEF Whole
      <4>4. CASE asc' = asc /\ kept' = [kept EXCEPT ![acc] = @ \cup {"info", "name"}]
        <5>1. kept'[a] = kept[a] \cup {"info", "name"} /\ Entry(asc'[a])
          BY <3>3, <3>5, <4>4
        <5> QED  BY <5>1 DEF Whole
      <4> QED  BY <3>2, <4>2, <4>3, <4>4
    <3>6. \A a \in Accounts : Entry(asc'[a])
      BY <3>3, <3>4, <3>5
    <3>7. ~moved /\ ~PushDead => \A a \in Accounts : Whole(a)'
      <4>1. ~moved => acc = Scope(env, p8)
        BY <3>1 DEF PushInv, Loaded
      <4>2. \A a \in Accounts : a # acc => (Whole(a)' <=> Whole(a))
        BY <3>4, WholeStays
      <4> HIDE DEF acc
      <4> QED  BY <3>5, <4>1, <4>2 DEF PushInv
    <3> HIDE DEF acc
    <3> QED  BY <2>1, <3>1, <3>4, <3>6, <3>7 DEF PushInv, KeyStays, Writing, Loaded
  <2>8. CASE Fill
    <3> DEFINE acc == mem.account
    <3>1. pc = "fill" /\ held.task # Push
      BY <2>8 DEF Fill, TypeInv, PushSteps
    <3>2. kept' = kept /\ ((asc' = asc) \/ asc' = [asc EXCEPT ![acc].filled = @ \cup {Head(mem.todo)}])
      BY <2>8 DEF Fill, listingVars
    <3>3. /\ asc = [a \in Accounts |-> asc[a]]
          /\ \A a \in Accounts : asc[a] = [version |-> asc[a].version, info |-> asc[a].info, name |-> asc[a].name, filled |-> asc[a].filled]
      BY DEF PushInv, Entry
    <3>4. \A a \in Accounts :
              \E filled : asc'[a] = [version |-> asc[a].version, info |-> asc[a].info, name |-> asc[a].name, filled |-> filled]
      <4> SUFFICES ASSUME NEW a \in Accounts
                   PROVE  \E filled : asc'[a] = [version |-> asc[a].version, info |-> asc[a].info,
                                                 name |-> asc[a].name, filled |-> filled]
        OBVIOUS
      <4>1. asc[a] = [version |-> asc[a].version, info |-> asc[a].info, name |-> asc[a].name, filled |-> asc[a].filled]
        BY <3>3
      <4>2. \/ asc'[a] = asc[a]
            \/ asc'[a] = [asc[a] EXCEPT !.filled = @ \cup {Head(mem.todo)}]
        BY <3>2, <3>3
      <4>3. CASE asc'[a] = asc[a]
        BY <4>1, <4>3
      <4>4. CASE asc'[a] = [asc[a] EXCEPT !.filled = @ \cup {Head(mem.todo)}]
        <5>1. asc'[a] = [version |-> asc[a].version, info |-> asc[a].info, name |-> asc[a].name,
                         filled |-> asc[a].filled \cup {Head(mem.todo)}]
          BY <4>1, <4>4
        <5> QED  BY <5>1
      <4> QED  BY <4>2, <4>3, <4>4
    <3>5. /\ asc' = [a \in Accounts |-> asc'[a]]
          /\ \A a \in Accounts : Entry(asc'[a]) /\ (Whole(a)' <=> Whole(a))
      <4>1. asc' = [a \in Accounts |-> asc'[a]]
        BY <3>2, <3>3
      <4>2. ASSUME NEW a \in Accounts PROVE Entry(asc'[a]) /\ (Whole(a)' <=> Whole(a))
        <5>1. PICK filled :
                  asc'[a] = [version |-> asc[a].version, info |-> asc[a].info, name |-> asc[a].name, filled |-> filled]
          BY <3>4
        <5>2. /\ asc'[a].version = asc[a].version /\ asc'[a].info = asc[a].info
              /\ asc'[a].name = asc[a].name /\ Entry(asc'[a])
          BY <5>1 DEF Entry
        <5> QED  BY <3>2, <5>2, WholeStays
      <4> QED  BY <4>1, <4>2
    <3>6. PushStays
      BY <2>8, <3>1, PushSteady DEF Fill
    <3>7. pc' \notin Writing \/ (pc' = "fill" /\ held' = held)
      BY <2>8, <3>1, Finishes DEF Fill, Step
    <3> HIDE DEF acc
    <3> QED  BY <2>1, <3>1, <3>2, <3>5, <3>6, <3>7 DEF PushInv, PushStays, KeyStays, Writing, Loaded
  <2> QED  BY <1>2, <2>2, <2>3, <2>4, <2>5, <2>6, <2>7, <2>8 DEF ListingStep, ListingTask
<1>3. CASE ~LoadKey /\ ~ListingStep
  <2>1. PushStays /\ (UNCHANGED <<held, pc, mem>> \/ pc' \notin Writing)
    BY <1>3, Elsewhere DEF PushStays
  <2>2. CASE AskUpload \/ Upload
    <3>1. UNCHANGED ascVars
      BY <1>3, <2>2 DEF Next, ListingStep, ListingRequest, AskSave, PutSave, AdminDies, listingVars, ascVars
    <3>2. moved' = (moved \/ PushOutstanding) /\ UNCHANGED <<held, pc, mem, queue, dead>>
      BY <2>2 DEF AskUpload, Upload, worker
    <3>3. PushOutstanding' = PushOutstanding /\ PushDead' = PushDead
      BY <3>2 DEF PushOutstanding, Outstanding, PushDead
    <3>4. CASE PushOutstanding \/ moved
      BY <3>1, <3>2, <3>3, <3>4 DEF PushInv, ascVars
    <3>5. CASE ~PushOutstanding /\ ~moved
      <4>1. pc \in Writing => held.task # Push
        BY <3>5, Waiting, DeskAssumption DEF TypeInv, Writing, Loaded, DeskAssumption
      <4> QED  BY <3>1, <3>2, <3>3, <3>5, <4>1, WholeStays DEF PushInv, ascVars, Writing, Loaded
    <3> QED  BY <3>4, <3>5
  <2>3. CASE ~AskUpload /\ ~Upload
    <3>1. UNCHANGED ascVars /\ KeyStays
      BY <1>3, <2>3 DEF Next, ListingStep, ListingRequest, AskSave, PutSave, AdminDies, keyVars, keyFiles, listingVars, KeyStays, ascVars
    <3> QED  BY <2>1, <3>1, PushFrame
  <2> QED  BY <2>2, <2>3
<1> QED  BY <1>1, <1>2, <1>3

-----------------------------------------------------------------------------
(***************************************************************************)
(* The settings.                                                           *)
(***************************************************************************)
\* What a task that ends leaves in the queue: its own message too, unless it returns or that
\* message is dead.
LEMMA Rescued ==
    ASSUME TypeInv, pc # "idle", Return \/ Raise \/ Crash
    PROVE  /\ pc' = "idle" /\ queue \subseteq queue' /\ dead \subseteq dead'
           /\ Raise \/ Crash => (\E m \in queue' : m.task = held.task) \/ dead' # {}
<1>1. [held EXCEPT !.retries = @ + 1].task = held.task
  BY Retried DEF TypeInv
<1>2. CASE Return /\ ~Raise /\ ~Crash
  BY <1>2 DEF Return, Forget
<1>3. CASE Raise
  <2>1. pc' = "idle"
    BY <1>3 DEF Raise, Forget
  <2>2. CASE held.retries < MaxRetries
    <3>1. queue' = queue \cup {[held EXCEPT !.retries = @ + 1]} /\ dead' = dead
      BY <1>3, <2>2 DEF Raise
    <3> QED  BY <1>1, <2>1, <3>1
  <2>3. CASE ~(held.retries < MaxRetries)
    <3>1. queue' = queue /\ dead' = dead \cup {held}
      BY <1>3, <2>3 DEF Raise
    <3> QED  BY <2>1, <3>1
  <2> QED  BY <2>2, <2>3
<1>4. CASE Crash
  <2>1. pc' = "idle" /\ queue' = queue \cup {held} /\ dead' = dead
    BY <1>4 DEF Crash, Forget
  <2> QED  BY <2>1
<1> QED  BY <1>2, <1>3, <1>4

\* The steps of the other tasks and requests, as the settings see them.
MetaIdle ==
    /\ queue \subseteq queue' /\ dead \subseteq dead'
    /\ UNCHANGED <<held, pc, mem>> \/ (pc \notin MetaSteps /\ pc' \notin MetaSteps)

LEMMA MetaElsewhere ==
    ASSUME TypeInv, Next, ~MetaTask, ~MetaAdmin, ~Deliver(TaskStart), ~Crash, ~AdminDies
    PROVE  MetaIdle /\ UNCHANGED metaVars
<1>1. ASSUME pc # "idle", pc \notin MetaSteps, Return \/ Raise PROVE MetaIdle
  BY <1>1, Rescued DEF MetaIdle, MetaSteps
<1>2. ASSUME NEW from, NEW to, from \notin MetaSteps, to \notin MetaSteps, Step(from, to) PROVE MetaIdle
  BY <1>2 DEF Step, MetaIdle
<1>3. ASSUME UNCHANGED <<held, pc, mem, dead>>, queue \subseteq queue' PROVE MetaIdle
  BY <1>3 DEF MetaIdle
<1>4. CASE IconTask /\ UNCHANGED metaVars
  BY <1>1, <1>2, <1>4 DEF IconTask, DrawIcon, DrawIconFails, LookForIcon, StageIcon, StageIconFails, MetaSteps
<1>5. CASE (IconAdmin \/ IconRequest) /\ UNCHANGED metaVars
  BY <1>3, <1>5 DEF IconAdmin, IconRequest, AskDelete, DeleteVersion, AskSelect, SelectVersion, AskPreview, Enqueue, worker, budget
<1>6. CASE (AskUpload \/ Upload \/ ListingRequest \/ AskSave \/ PutSave) /\ UNCHANGED metaVars
  BY <1>3, <1>6 DEF AskUpload, Upload, ListingRequest, AskSave, PutSave, Enqueue, worker, budget
<1>7. CASE LoadKey /\ UNCHANGED metaVars
  BY <1>1, <1>2, <1>7 DEF LoadKey, ReadEnv, ReadKey, MetaSteps
<1>8. CASE ListingTask /\ UNCHANGED metaVars
  <2>1. CASE GatherFacts  BY <1>1, <1>2, <1>8, <2>1 DEF GatherFacts, MetaSteps
  <2>2. CASE PushPages  BY <1>1, <1>2, <1>8, <2>2 DEF PushPages, MetaSteps
  <2>3. CASE EnablePages  BY <1>1, <1>2, <1>8, <2>3 DEF EnablePages, MetaSteps
  <2>4. CASE RecordUrls  BY <1>1, <1>2, <1>8, <2>4 DEF RecordUrls, MetaSteps
  <2>5. CASE ReadLegal  BY <1>1, <1>2, <1>8, <2>5 DEF ReadLegal, MetaSteps
  <2>6. CASE PutDraft  BY <1>1, <1>2, <1>8, <2>6 DEF PutDraft, MetaSteps
  <2>7. CASE ReadDraft  BY <1>1, <1>2, <1>8, <2>7 DEF ReadDraft, MetaSteps
  <2>8. CASE BeginFill  BY <1>1, <1>2, <1>8, <2>8 DEF BeginFill, BeginCall, MetaSteps
  <2>9. CASE BeginContact  BY <1>1, <1>2, <1>8, <2>9 DEF BeginContact, BeginCall, MetaSteps
  <2>10. CASE FindTarget  BY <1>1, <1>2, <1>8, <2>10 DEF FindTarget, MetaSteps
  <2>11. CASE WriteVersion  BY <1>1, <1>2, <1>8, <2>11 DEF WriteVersion, MetaSteps
  <2>12. CASE NameLocked  BY <1>1, <1>2, <1>8, <2>12 DEF NameLocked, MetaSteps
  <2>13. CASE WriteInfo  BY <1>1, <1>2, <1>8, <2>13 DEF WriteInfo, MetaSteps
  <2>14. CASE Fill  BY <1>1, <1>2, <1>8, <2>14 DEF Fill, MetaSteps
  <2>15. CASE ListingTaskFails  BY <1>1, <1>2, <1>8, <2>15 DEF ListingTaskFails, MetaSteps
  <2> QED
    BY <1>8, <2>1, <2>2, <2>3, <2>4, <2>5, <2>6, <2>7, <2>8, <2>9, <2>10, <2>11, <2>12, <2>13, <2>14, <2>15
    DEF ListingTask
<1> QED  BY <1>4, <1>5, <1>6, <1>7, <1>8 DEF Next

\* Where a request or another task steps, a rebuild that waits goes on waiting.
LEMMA MetaFrame ==
    ASSUME MetaInv, MetaIdle, UNCHANGED metaVars
    PROVE  MetaInv'
<1>1. UNCHANGED <<metadata, app, forms, saved, unseen, unasked, turned>>
  BY DEF metaVars
<1>2. RebuildWaits => RebuildWaits'
  BY <1>1 DEF RebuildWaits, Effective, MetaIdle
<1>3. CASE UNCHANGED <<held, pc, mem>>
  BY <1>1, <1>2, <1>3 DEF MetaInv, MetaTypes, Rebuilding, Effective, MetaIdle
<1>4. CASE pc \notin MetaSteps /\ pc' \notin MetaSteps
  BY <1>1, <1>2, <1>4 DEF MetaInv, MetaTypes, Rebuilding, MetaIdle, MetaSteps
<1> QED  BY <1>3, <1>4 DEF MetaIdle

\* A task that raises or dies comes back.
LEMMA MetaRaise ==
    ASSUME TypeInv, MetaInv, pc # "idle", Raise \/ Crash, UNCHANGED metaVars
    PROVE  MetaInv'
<1>1. UNCHANGED <<metadata, app, forms, saved, unseen, unasked, turned>>
  BY DEF metaVars
<1>2. pc' = "idle" /\ queue \subseteq queue' /\ dead \subseteq dead'
      /\ ((\E m \in queue' : m.task = held.task) \/ dead' # {})
  BY Rescued
<1>3. RebuildWaits => RebuildWaits'
  BY <1>1, <1>2 DEF RebuildWaits, Effective
<1>4. Effective(held) => RebuildWaits' \/ dead' # {}
  BY <1>1, <1>2 DEF RebuildWaits, Effective
<1>5. pc \in {"generate", "reworking"} => Effective(held)
  BY DEF MetaInv, MetaTypes, Effective
<1>6. Rebuilding'
  BY <1>1, <1>2, <1>3, <1>4, <1>5 DEF MetaInv, Rebuilding
<1> QED  BY <1>1, <1>2, <1>6 DEF MetaInv, MetaTypes

LEMMA MetaKept ==
    ASSUME TypeInv, MetaInv, Next
    PROVE  MetaInv'
<1>1. CASE Deliver(TaskStart) /\ UNCHANGED metaVars
  <2>1. PICK m \in queue : held' = m /\ queue' = queue \ {m} /\ pc' = TaskStart[m.task] /\ UNCHANGED <<mem, dead>>
    BY <1>1 DEF Deliver
  <2>2. UNCHANGED <<metadata, app, forms, saved, unseen, unasked, turned>>
    BY <1>1 DEF metaVars
  <2>3. pc = "idle"
    BY <1>1, DeskAssumption DEF Deliver, TypeInv, DeskAssumption
  <2>4. m.task \in Tasks
    BY DEF TypeInv, Messages, Tasks
  <2>5. /\ pc' \notin {"merge", "generate", "reworking"}
        /\ pc' = "build" => m.task = "build_frontend"
        /\ pc' = "rework" => m.task = "rework_frontend"
        /\ m.task = "build_frontend" => pc' = "build"
        /\ m.task = "rework_frontend" => pc' = "rework"
    BY <2>1, <2>4 DEF Tasks, TaskStart
  <2>6. RebuildWaits => RebuildWaits' \/ Effective(m)
    BY <2>1, <2>2 DEF RebuildWaits, Effective
  <2>7. Effective(m) => pc' \in {"build", "rework"} /\ Effective(held)'
    BY <2>1, <2>2, <2>5 DEF Effective
  <2>8. Rebuilding'
    BY <2>1, <2>2, <2>3, <2>5, <2>6, <2>7 DEF MetaInv, Rebuilding
  <2> QED  BY <2>1, <2>2, <2>5, <2>8 DEF MetaInv, MetaTypes
<1>2. CASE Crash /\ UNCHANGED metaVars
  <2>1. pc # "idle"
    BY <1>2 DEF Crash, TypeInv
  <2> QED  BY <1>2, <2>1, MetaRaise
<1>3. CASE AdminDies
  <2>1. /\ UNCHANGED <<queue, held, pc, mem, dead, metadata, app, saved, unseen, turned>> /\ forms' = {}
        /\ unasked' = (unasked \/ \E form \in forms : form.at = "committed")
    BY <1>3 DEF AdminDies
  <2>2. ~unasked' /\ RebuildWaits => RebuildWaits'
    BY <2>1 DEF RebuildWaits, Effective
  <2> QED  BY <2>1, <2>2 DEF MetaInv, MetaTypes, Rebuilding, Effective
<1>4. CASE BeginIngest
  <2>1. pc = "ingest" /\ pc' = "merge" /\ mem' = [seeded |-> metadata] /\ UNCHANGED <<queue, held, dead>>
        /\ UNCHANGED <<metadata, app, forms, saved, unseen, unasked, turned>>
    BY <1>4 DEF BeginIngest, Step, metaVars
  <2> QED  BY <2>1 DEF MetaInv, MetaTypes, Rebuilding, RebuildWaits, Effective
<1>5. CASE Ingest
  <2>1. pc = "merge" /\ pc' = "walk" /\ queue' = queue /\ dead' = dead /\ UNCHANGED <<app, forms, saved, unasked, turned>>
    BY <1>5 DEF Ingest, Step
  <2>2. \/ metadata' = Seeded(mem.seeded) /\ unseen' = (unseen \/ mem.seeded # metadata)
        \/ UNCHANGED <<metadata, unseen>>
    BY <1>5 DEF Ingest
  <2>3. mem.seeded \in Document /\ metadata \in Document
    BY <2>1 DEF MetaInv, MetaTypes
  <2>4. Seeded(mem.seeded) \in Document /\ Seeded(mem.seeded).settings = mem.seeded.settings
    BY <2>3 DEF Seeded, Document
  <2>5. metadata' \in Document /\ (~unseen' => ~unseen /\ metadata'.settings = metadata.settings)
    <3>1. CASE metadata' = Seeded(mem.seeded) /\ unseen' = (unseen \/ mem.seeded # metadata)
      BY <2>3, <2>4, <3>1
    <3>2. CASE UNCHANGED <<metadata, unseen>>
      BY <2>3, <3>2
    <3> QED  BY <2>2, <3>1, <3>2
  <2>6. Rebuilding'
    BY <2>1, <2>5 DEF MetaInv, Rebuilding, RebuildWaits, Effective
  <2> QED  BY <2>1, <2>5, <2>6 DEF MetaInv, MetaTypes
<1>6. CASE BeginBuild
  <2>1. pc = "build" /\ UNCHANGED <<queue, dead, metadata, app, forms, saved, unseen, unasked, turned>>
    BY <1>6 DEF BeginBuild, Return, Step, metaVars
  <2>2. CASE app # NoApp
    <3>1. pc' = "idle" /\ ~Effective(held)
      BY <1>6, <2>1, <2>2 DEF BeginBuild, Return, Forget, MetaInv, MetaTypes, Effective
    <3> QED  BY <2>1, <3>1 DEF MetaInv, MetaTypes, Rebuilding, RebuildWaits, Effective
  <2>3. CASE app = NoApp
    <3>1. pc' = "generate" /\ held' = held /\ mem' = [settings |-> metadata.settings]
      BY <1>6, <2>3 DEF BeginBuild, Step
    <3>2. metadata.settings \in Nat
      BY DEF MetaInv, MetaTypes, Document
    <3> QED  BY <2>1, <2>3, <3>1, <3>2 DEF MetaInv, MetaTypes, Rebuilding
  <2> QED  BY <2>2, <2>3
<1>7. CASE BeginRework
  <2>1. pc = "rework" /\ UNCHANGED <<queue, dead, metadata, app, forms, saved, unseen, unasked, turned>>
    BY <1>7 DEF BeginRework, Return, Step, metaVars
  <2>2. CASE app = NoApp
    <3>1. pc' = "idle" /\ ~Effective(held)
      BY <1>7, <2>1, <2>2 DEF BeginRework, Return, Forget, MetaInv, MetaTypes, Effective
    <3> QED  BY <2>1, <3>1 DEF MetaInv, MetaTypes, Rebuilding, RebuildWaits, Effective
  <2>3. CASE app # NoApp
    <3>1. pc' = "reworking" /\ held' = held /\ mem' = [settings |-> metadata.settings]
      BY <1>7, <2>3 DEF BeginRework, Step
    <3>2. metadata.settings \in Nat
      BY DEF MetaInv, MetaTypes, Document
    <3> QED  BY <2>1, <2>3, <3>1, <3>2 DEF MetaInv, MetaTypes, Rebuilding
  <2> QED  BY <2>2, <2>3
<1>8. CASE StoreSources
  <2>1. /\ pc \in {"generate", "reworking"} /\ pc' = "idle" /\ queue' = queue /\ dead' = dead /\ app' = mem.settings
        /\ UNCHANGED <<metadata, forms, saved, unseen, unasked, turned>>
    BY <1>8 DEF StoreSources, Return, Forget
  <2>2. app' \in Nat /\ app' # NoApp
    BY <2>1, MetaAssumption DEF MetaInv, MetaTypes, MetaAssumption
  <2>3. pc = "reworking" /\ RebuildWaits => RebuildWaits'
    BY <2>1, <2>2 DEF MetaInv, MetaTypes, RebuildWaits, Effective
  <2>4. Rebuilding'
    BY <2>1, <2>3 DEF MetaInv, Rebuilding
  <2> QED  BY <2>1, <2>2, <2>4 DEF MetaInv, MetaTypes
<1>9. CASE MetaTaskFails
  BY <1>9, MetaRaise DEF MetaTaskFails
<1>10. CASE AskSettings
  <2>1. /\ UNCHANGED <<queue, held, pc, mem, dead, metadata, app, saved, unseen, unasked, turned>>
        /\ forms' = forms \cup {[id |-> requests', at |-> "read", seen |-> metadata]}
    BY <1>10 DEF AskSettings
  <2>2. RebuildWaits => RebuildWaits'
    BY <2>1 DEF RebuildWaits, Effective
  <2> QED  BY <2>1, <2>2 DEF MetaInv, MetaTypes, Rebuilding, Effective
<1>11. CASE CommitSettings
  <2>1. PICK form \in forms :
            /\ metadata' = [form.seen EXCEPT !.settings = form.id] /\ saved' = form.id
            /\ forms' = (forms \ {form}) \cup {[form EXCEPT !.at = "committed"]}
            /\ unseen' = (unseen \/ form.seen # metadata \/ pc = "generate")
            /\ UNCHANGED <<queue, held, pc, mem, dead, app, unasked, turned>>
    BY <1>11 DEF CommitSettings, worker, budget
  <2>2. /\ form.id \in Nat /\ form.seen \in Document
        /\ [form EXCEPT !.at = "committed"] = [id |-> form.id, at |-> "committed", seen |-> form.seen]
    BY DEF TypeInv, MetaInv, MetaTypes
  <2>3. metadata' \in Document /\ metadata'.settings = form.id
    BY <2>1, <2>2 DEF Document
  <2>4. RebuildWaits'
    <3>1. [id |-> form.id, at |-> "committed", seen |-> form.seen] \in forms'
      BY <2>1, <2>2
    <3> QED  BY <3>1 DEF RebuildWaits
  <2>5. Rebuilding'
    BY <2>1, <2>4 DEF MetaInv, Rebuilding
  <2>6. \A f \in forms' : f.seen \in Document /\ f.at \in {"read", "committed"}
    BY <2>1, <2>2 DEF MetaInv, MetaTypes
  <2> QED  BY <2>1, <2>3, <2>5, <2>6 DEF MetaInv, MetaTypes
<1>12. CASE EnqueueRebuild
  <2> DEFINE Rebuild(form) == [id |-> form.id, arg |-> 0, retries |-> 0,
                               task |-> IF app = NoApp THEN "build_frontend" ELSE "rework_frontend"]
  <2>1. PICK form \in forms :
            /\ forms' = forms \ {form} /\ queue' = queue \cup {Rebuild(form)}
            /\ UNCHANGED <<held, pc, mem, dead, metadata, app, saved, unseen, unasked, turned>>
    BY <1>12 DEF EnqueueRebuild
  <2>2. RebuildWaits'
    <3>1. Rebuild(form) \in queue' /\ Rebuild(form).task = IF app' = NoApp THEN "build_frontend" ELSE "rework_frontend"
      BY <2>1
    <3> HIDE DEF Rebuild
    <3> QED  BY <3>1 DEF RebuildWaits, Effective
  <2> QED  BY <2>1, <2>2 DEF MetaInv, MetaTypes, Rebuilding
<1>13. CASE EnqueueFails
  <2>1. /\ UNCHANGED <<queue, held, pc, mem, dead, metadata, app, saved, unseen, turned>> /\ unasked'
        /\ forms' \subseteq forms
    BY <1>13 DEF EnqueueFails
  <2> QED  BY <2>1 DEF MetaInv, MetaTypes, Rebuilding
<1>14. CASE StoreWalk \/ Analyse \/ EndAnalysis
  <2>1. /\ pc \in {"walk", "spec", "analysed"} /\ pc' \in {"spec", "analysed", "idle"} /\ queue \subseteq queue' /\ dead' = dead
        /\ UNCHANGED <<metadata, app, forms, saved, unseen, unasked, turned>>
    BY <1>14 DEF StoreWalk, Analyse, EndAnalysis, Step, Return, Forget, metaVars
  <2>2. RebuildWaits => RebuildWaits'
    BY <2>1 DEF RebuildWaits, Effective
  <2> QED  BY <2>1, <2>2 DEF MetaInv, MetaTypes, Rebuilding
<1>15. CASE TurnAway
  <2>1. /\ pc = "build" /\ pc' = "idle" /\ UNCHANGED <<queue, dead, metadata, app, forms, saved, unseen, unasked>> /\ turned'
    BY <1>15 DEF TurnAway, Return, Forget
  <2>2. app = NoApp \/ ~Effective(held)
    BY <2>1 DEF MetaInv, MetaTypes, Effective
  <2>3. RebuildWaits => RebuildWaits'
    BY <2>1 DEF RebuildWaits, Effective
  <2> QED  BY <2>1, <2>2, <2>3 DEF MetaInv, MetaTypes, Rebuilding
<1> QED
  BY <1>1, <1>2, <1>3, <1>4, <1>5, <1>6, <1>7, <1>8, <1>9, <1>10, <1>11, <1>12, <1>13, <1>14, <1>15, MetaElsewhere, MetaFrame
  DEF Next, MetaTask, MetaAdmin

-----------------------------------------------------------------------------
(***************************************************************************)
(* The icon.                                                               *)
(***************************************************************************)
\* What is left of a sequence without one of its elements.
LEMMA Without ==
    ASSUME NEW S, NEW s \in Seq(S), NEW i \in 1..Len(s)
    PROVE  LET t == SubSeq(s, 1, i - 1) \o SubSeq(s, i + 1, Len(s))
           IN  /\ t \in Seq(S) /\ Len(t) = Len(s) - 1
               /\ \A k \in 1..Len(t) : t[k] = IF k < i THEN s[k] ELSE s[k + 1]
<1> DEFINE a == SubSeq(s, 1, i - 1)
           b == SubSeq(s, i + 1, Len(s))
<1>1. Len(s) \in Nat /\ i \in Nat /\ i >= 1 /\ i <= Len(s)
  OBVIOUS
<1>2. a \in Seq(S) /\ Len(a) = i - 1 /\ \A k \in 1..(i - 1) : a[k] = s[k]
  BY <1>1
<1>3. b \in Seq(S) /\ Len(b) = Len(s) - i /\ \A k \in 1..(Len(s) - i) : b[k] = s[k + i]
  BY <1>1
<1> HIDE DEF a, b
<1>4. /\ a \o b \in Seq(S) /\ Len(a \o b) = Len(a) + Len(b)
      /\ \A k \in 1..(Len(a) + Len(b)) : (a \o b)[k] = IF k <= Len(a) THEN a[k] ELSE b[k - Len(a)]
  BY <1>2, <1>3, ConcatProperties
<1>5. Len(a \o b) = Len(s) - 1
  BY <1>1, <1>2, <1>3, <1>4
<1>6. ASSUME NEW k \in 1..(Len(s) - 1) PROVE (a \o b)[k] = IF k < i THEN s[k] ELSE s[k + 1]
  <2>1. k \in 1..(Len(a) + Len(b)) /\ (k <= Len(a) <=> k < i)
    BY <1>1, <1>2, <1>3
  <2>2. CASE k < i
    <3>1. k \in 1..(i - 1)
      BY <1>1, <2>2
    <3> QED  BY <1>2, <1>4, <2>1, <2>2, <3>1
  <2>3. CASE ~(k < i)
    <3>1. k - Len(a) \in 1..(Len(s) - i) /\ k - Len(a) + i = k + 1
      BY <1>1, <1>2, <2>3
    <3> QED  BY <1>3, <1>4, <2>1, <2>3, <3>1
  <2> QED  BY <2>2, <2>3
<1> QED  BY <1>4, <1>5, <1>6 DEF a, b

\* The icon of a version, and the current one.
LEMMA IconOf ==
    ASSUME Images, NEW i \in 1..Len(icons)
    PROVE  /\ icons[i].v \in Versions /\ icons[i].v # NoVersion /\ Icon(icons[i].v) = icons[i]
           /\ Icon(NoVersion) = Current
<1>1. icons[i].v \in Nat
  <2>1. icons[i].v \in 1..made
    BY DEF Images
  <2> QED  BY <2>1 DEF Images
<1>2. icons[i].v # NoVersion
  BY <1>1, IconAssumption DEF IconAssumption
<1> DEFINE all == {icons[j] : j \in 1..Len(icons)}
<1>3. \A icon \in all : icon.v = icons[i].v <=> icon = icons[i]
  BY DEF Images
<1>4. icons[i] \in all
  OBVIOUS
<1>5. Icon(icons[i].v) = CHOOSE icon \in all : icon.v = icons[i].v
  BY <1>2 DEF Icon
<1> HIDE DEF all
<1>6. Icon(icons[i].v) = icons[i]
  BY <1>3, <1>4, <1>5
<1> QED  BY <1>2, <1>6 DEF Versions, Icon

\* The current icon is one of them.
LEMMA CurrentIcon ==
    ASSUME Images, Stored
    PROVE  Len(icons) \in 1..Len(icons) /\ Current \in Image /\ <<Current.art, Current.size>> \in drawn
<1>1. icons \in Seq(Image) /\ icons # <<>>
  BY DEF Images, Stored
<1>2. Len(icons) \in 1..Len(icons)
  BY <1>1
<1> QED  BY <1>1, <1>2 DEF Images, Current

\* A preview in the cache, or none.
LEMMA PreviewOf ==
    ASSUME NEW v
    PROVE  \/ Preview(v) = Icon(v).art
           \/ \E t \in thumbs : t.key = CacheKey(v) /\ Preview(v) = t.art
<1>1. CASE \E t \in thumbs : t.key = CacheKey(v)
  <2>1. Preview(v) = (CHOOSE t \in thumbs : t.key = CacheKey(v)).art
    BY <1>1 DEF Preview
  <2> QED  BY <1>1, <2>1
<1>2. CASE ~(\E t \in thumbs : t.key = CacheKey(v))
  BY <1>2 DEF Preview
<1> QED  BY <1>1, <1>2

\* What the operator sees of a version is that version, or an image of the same length that
\* was current when the preview was made.
LEMMA PreviewsShow ==
    ASSUME Images, Thumbs
    PROVE  PreviewTrue
<1>1. ASSUME NEW v \in Versions PROVE Preview(v) = Icon(v).art
  <2>1. PICK i \in 1..Len(icons) : v = icons[i].v
    BY DEF Versions
  <2>2. v # NoVersion /\ Icon(v) = icons[i]
    BY <2>1, IconOf
  <2>3. CASE \E t \in thumbs : t.key = CacheKey(v) /\ Preview(v) = t.art
    <3>1. PICK t \in thumbs : t.key = CacheKey(v) /\ Preview(v) = t.art
      BY <2>3
    <3>2. t.key[1] = v
      BY <3>1 DEF CacheKey
    <3>3. t.art = icons[i].art
      BY <2>1, <2>2, <3>2 DEF Thumbs, VersionCached
    <3> QED  BY <2>2, <3>1, <3>3
  <2> QED  BY <2>3, PreviewOf
<1>2. ASSUME Stored, Preview(NoVersion) # Current.art
      PROVE  \E p, q \in drawn : p # q /\ p[2] = q[2]
  <2>1. Icon(NoVersion) = Current
    BY DEF Icon
  <2>2. PICK t \in thumbs : t.key = CacheKey(NoVersion) /\ Preview(NoVersion) = t.art
    BY <1>2, <2>1, PreviewOf
  <2>3. t.key[1] = NoVersion /\ t.key[2] = Current.size
    BY <2>1, <2>2 DEF CacheKey
  <2> DEFINE p == <<t.art, Current.size>>
             q == <<Current.art, Current.size>>
  <2>4. p \in drawn /\ q \in drawn
    BY <1>2, <2>3, CurrentIcon DEF Thumbs, CurrentCached
  <2>5. p # q /\ p[2] = q[2]
    BY <1>2, <2>2
  <2> HIDE DEF p, q
  <2> QED  BY <2>4, <2>5
<1> QED  BY <1>1, <1>2 DEF PreviewTrue

\* A put appends a version with a number of its own.
LEMMA PutKeeps ==
    ASSUME Images, Thumbs, NEW art \in Nat, NEW size \in Sizes, Put(art, size), thumbs' = thumbs,
           drawn \subseteq drawn', drawn' \subseteq Nat \X Sizes, <<art, size>> \in drawn'
    PROVE  Images' /\ Thumbs' /\ Len(icons') = Len(icons) + 1 /\ icons' # <<>>
<1> DEFINE new == [v |-> made + 1, art |-> art, size |-> size]
<1>1. made \in Nat /\ icons \in Seq(Image) /\ made' = made + 1 /\ icons' = Append(icons, new)
  BY DEF Images, Put
<1>2. new \in Image /\ new.v = made + 1 /\ new.art = art /\ new.size = size
  BY <1>1 DEF Image
<1> HIDE DEF new
<1>3. /\ icons' \in Seq(Image) /\ Len(icons) \in Nat /\ Len(icons') = Len(icons) + 1
      /\ \A i \in 1..Len(icons') : icons'[i] = IF i = Len(icons) + 1 THEN new ELSE icons[i]
      /\ \A i \in 1..Len(icons') : i = Len(icons) + 1 \/ i \in 1..Len(icons)
  BY <1>1, <1>2
<1>4. \A i \in 1..Len(icons) : icons[i].v \in 1..made
  BY DEF Images
<1>5. ASSUME NEW i \in 1..Len(icons')
      PROVE  icons'[i].v \in 1..made' /\ <<icons'[i].art, icons'[i].size>> \in drawn'
  <2>1. CASE i = Len(icons) + 1
    <3>1. icons'[i] = new
      BY <1>3, <2>1
    <3>2. made + 1 \in 1..made'
      BY <1>1
    <3> QED  BY <1>2, <3>1, <3>2
  <2>2. CASE i \in 1..Len(icons)
    <3>1. icons'[i] = icons[i]
      BY <1>1, <1>3, <2>2
    <3>2. icons[i].v \in 1..made'
      BY <1>1, <1>4, <2>2
    <3>3. <<icons[i].art, icons[i].size>> \in drawn
      BY <2>2 DEF Images
    <3> QED  BY <3>1, <3>2, <3>3
  <2> QED  BY <1>3, <2>1, <2>2
<1>6. ASSUME NEW i \in 1..Len(icons'), NEW j \in 1..Len(icons'), icons'[i].v = icons'[j].v
      PROVE  i = j
  <2>1. \A k \in 1..Len(icons) : icons'[k] = icons[k] /\ icons[k].v # made + 1
    BY <1>1, <1>3, <1>4
  <2>2. CASE i \in 1..Len(icons) /\ j \in 1..Len(icons)
    BY <1>6, <2>1, <2>2 DEF Images
  <2> QED  BY <1>2, <1>3, <1>6, <2>1, <2>2
<1>7. Images'
  <2>1. \A i \in 1..Len(icons') : icons'[i].v \in 1..made'
    BY <1>5
  <2>2. \A i \in 1..Len(icons') : <<icons'[i].art, icons'[i].size>> \in drawn'
    BY <1>5, Zenon
  <2>3. \A i, j \in 1..Len(icons') : icons'[i].v = icons'[j].v => i = j
    BY <1>6
  <2>4. made' \in Nat /\ icons' \in Seq(Image)
    BY <1>1, <1>3
  <2> QED  BY <2>1, <2>2, <2>3, <2>4 DEF Images
<1>8. ASSUME NEW t \in thumbs', t.key[1] # NoVersion, NEW i \in 1..Len(icons'), icons'[i].v = t.key[1]
      PROVE  t.art = icons'[i].art
  <2>1. t \in thumbs /\ t.key[1] \in 1..made
    BY <1>8 DEF Thumbs, VersionCached
  <2>2. i # Len(icons) + 1
    BY <1>1, <1>2, <1>3, <1>8, <2>1
  <2>3. i \in 1..Len(icons) /\ icons'[i] = icons[i]
    BY <1>3, <2>2
  <2> QED  BY <1>8, <2>1, <2>3 DEF Thumbs, VersionCached
<1>9. Thumbs'
  <2>1. \A t \in thumbs' : t.key[1] # NoVersion => t.key[1] \in 1..made'
    <3>1. 1..made \subseteq 1..made'
      BY <1>1
    <3> QED  BY <3>1 DEF Thumbs, VersionCached
  <2>2. CurrentCached'
    BY DEF Thumbs, CurrentCached
  <2>3. VersionCached'
    BY <1>8, <2>1 DEF VersionCached
  <2> QED  BY <2>2, <2>3 DEF Thumbs
<1> QED  BY <1>3, <1>7, <1>9

\* A deletion takes one version out.
LEMMA DeleteKeeps ==
    ASSUME Images, Thumbs, NEW i \in 1..Len(icons),
           icons' = SubSeq(icons, 1, i - 1) \o SubSeq(icons, i + 1, Len(icons)),
           UNCHANGED <<made, thumbs, drawn>>
    PROVE  Images' /\ Thumbs' /\ Len(icons') = Len(icons) - 1
<1>1. icons \in Seq(Image) /\ made \in Nat
  BY DEF Images
<1>2. /\ icons' \in Seq(Image) /\ Len(icons') = Len(icons) - 1
      /\ \A k \in 1..Len(icons') : icons'[k] = IF k < i THEN icons[k] ELSE icons[k + 1]
  BY <1>1, Without
<1> DEFINE at(k) == IF k < i THEN k ELSE k + 1
<1>3. \A k \in 1..Len(icons') : at(k) \in 1..Len(icons) /\ icons'[k] = icons[at(k)]
  <2>1. Len(icons) \in Nat /\ i \in Nat /\ 1 <= i /\ i <= Len(icons)
    BY <1>1
  <2> SUFFICES ASSUME NEW k \in 1..Len(icons')
               PROVE  at(k) \in 1..Len(icons) /\ icons'[k] = icons[at(k)]
    OBVIOUS
  <2>2. k \in Nat /\ 1 <= k /\ k <= Len(icons) - 1
    <3>1. k \in 1..(Len(icons) - 1)
      BY <1>2
    <3> QED  BY <2>1, <3>1
  <2>3. icons'[k] = IF k < i THEN icons[k] ELSE icons[k + 1]
    BY <1>2
  <2>4. CASE k < i  BY <2>1, <2>2, <2>3, <2>4
  <2>5. CASE ~(k < i)  BY <2>1, <2>2, <2>3, <2>5
  <2> QED  BY <2>4, <2>5
<1>4. \A k, n \in 1..Len(icons') : at(k) = at(n) => k = n
  BY <1>1, <1>2
<1> HIDE DEF at
<1>5. Images'
  <2>1. \A k \in 1..Len(icons') : icons'[k].v \in 1..made'
    BY <1>3 DEF Images
  <2>2. \A k \in 1..Len(icons') : <<icons'[k].art, icons'[k].size>> \in drawn'
    BY <1>3 DEF Images
  <2>3. ASSUME NEW k \in 1..Len(icons'), NEW n \in 1..Len(icons'), icons'[k].v = icons'[n].v
        PROVE  k = n
    <3>1. /\ at(k) \in 1..Len(icons) /\ icons'[k] = icons[at(k)]
          /\ at(n) \in 1..Len(icons) /\ icons'[n] = icons[at(n)]
      BY <1>3
    <3>2. icons[at(k)].v = icons[at(n)].v
      BY <2>3, <3>1
    <3>3. at(k) = at(n)
      BY <3>1, <3>2 DEF Images
    <3> QED  BY <1>4, <3>3
  <2>4. made' \in Nat /\ drawn' \subseteq Nat \X Sizes
    BY DEF Images
  <2> QED  BY <1>2, <2>1, <2>2, <2>3, <2>4 DEF Images
<1>6. Thumbs'
  <2>1. CurrentCached'
    BY DEF Thumbs, CurrentCached
  <2>2. VersionCached'
    <3> SUFFICES ASSUME NEW t \in thumbs', t.key[1] # NoVersion
                 PROVE  /\ t.key[1] \in 1..made'
                        /\ \A k \in 1..Len(icons') : icons'[k].v = t.key[1] => t.art = icons'[k].art
      BY DEF VersionCached
    <3>1. /\ t.key[1] \in 1..made
          /\ \A k \in 1..Len(icons) : icons[k].v = t.key[1] => t.art = icons[k].art
      BY DEF Thumbs, VersionCached
    <3> QED  BY <1>3, <3>1
  <2> QED  BY <2>1, <2>2 DEF Thumbs
<1> QED  BY <1>2, <1>5, <1>6

\* A preview that is put into the cache shows the icon it was made of.
LEMMA CacheKeeps ==
    ASSUME Images, Thumbs, Stored, NEW v \in Versions \cup {NoVersion},
           thumbs' = thumbs \cup {[key |-> CacheKey(v), art |-> Icon(v).art]},
           UNCHANGED <<icons, made, drawn>>
    PROVE  Thumbs'
<1> DEFINE new == [key |-> CacheKey(v), art |-> Icon(v).art]
<1>1. new.key[1] = v /\ new.key[2] = Icon(v).size /\ new.art = Icon(v).art
  BY DEF CacheKey
<1>2. CASE v = NoVersion
  <2>1. Icon(v) = Current
    BY <1>2 DEF Icon
  <2>2. <<new.art, new.key[2]>> \in drawn
    BY <1>1, <2>1, CurrentIcon
  <2> HIDE DEF new
  <2>3. thumbs' = thumbs \cup {new}
    BY DEF new
  <2> QED  BY <1>1, <1>2, <2>2, <2>3 DEF Thumbs, CurrentCached, VersionCached
<1>3. CASE v # NoVersion
  <2>1. PICK i \in 1..Len(icons) : v = icons[i].v
    BY <1>3 DEF Versions
  <2>2. Icon(v) = icons[i] /\ v \in 1..made
    BY <2>1, IconOf DEF Images
  <2>3. \A k \in 1..Len(icons) : icons[k].v = v => new.art = icons[k].art
    BY <1>1, <2>1, <2>2 DEF Images
  <2>4. thumbs' = thumbs \cup {new}
    OBVIOUS
  <2> HIDE DEF new
  <2> QED  BY <1>1, <1>3, <2>2, <2>3, <2>4 DEF Thumbs, CurrentCached, VersionCached
<1> QED  BY <1>2, <1>3

\* Away from the icon a step leaves the icon alone, and reads none.
LEMMA IconElsewhere ==
    ASSUME TypeInv, Next, ~IconTask, ~IconAdmin, ~AdminDies
    PROVE  UNCHANGED iconVars /\ (pc' = "readIcon" => pc = "readIcon")
<1> DEFINE Reads == pc' = "readIcon" => pc = "readIcon"
<1>1. ASSUME pc # "idle", Return \/ Raise \/ Crash PROVE Reads
  BY <1>1, Rescued
<1>2. ASSUME NEW from, NEW to, to # "readIcon", Step(from, to) PROVE Reads
  BY <1>2 DEF Step
<1>3. CASE Deliver(TaskStart) /\ UNCHANGED iconVars
  <2>1. PICK m \in queue : pc' = TaskStart[m.task]
    BY <1>3 DEF Deliver
  <2> QED  BY <1>3, <2>1, Starts DEF TypeInv, Messages, Tasks
<1>4. CASE Crash /\ UNCHANGED iconVars
  BY <1>1, <1>4 DEF Crash, TypeInv
<1>5. CASE IconRequest
  BY <1>5 DEF IconRequest, Enqueue
<1>6. CASE (AskUpload \/ Upload \/ ListingRequest \/ AskSave \/ PutSave) /\ UNCHANGED iconVars
  BY <1>6 DEF AskUpload, Upload, ListingRequest, AskSave, PutSave, Enqueue, worker, budget
<1>7. CASE LoadKey /\ UNCHANGED iconVars
  BY <1>1, <1>2, <1>7 DEF LoadKey, ReadEnv, ReadKey
<1>8. CASE ListingTask /\ UNCHANGED iconVars
  <2>1. CASE GatherFacts  BY <1>1, <1>2, <1>8, <2>1 DEF GatherFacts
  <2>2. CASE PushPages  BY <1>1, <1>2, <1>8, <2>2 DEF PushPages
  <2>3. CASE EnablePages  BY <1>1, <1>2, <1>8, <2>3 DEF EnablePages
  <2>4. CASE RecordUrls  BY <1>1, <1>2, <1>8, <2>4 DEF RecordUrls
  <2>5. CASE ReadLegal  BY <1>1, <1>2, <1>8, <2>5 DEF ReadLegal
  <2>6. CASE PutDraft  BY <1>1, <1>2, <1>8, <2>6 DEF PutDraft
  <2>7. CASE ReadDraft  BY <1>1, <1>2, <1>8, <2>7 DEF ReadDraft
  <2>8. CASE BeginFill \/ BeginContact
    BY <1>1, <1>2, <1>8, <2>8 DEF BeginFill, BeginContact, BeginCall
  <2>9. CASE FindTarget  BY <1>1, <1>2, <1>8, <2>9 DEF FindTarget
  <2>10. CASE WriteVersion \/ NameLocked
    BY <1>1, <1>2, <1>8, <2>10 DEF WriteVersion, NameLocked
  <2>11. CASE WriteInfo \/ ListingTaskFails
    BY <1>1, <1>2, <1>8, <2>11 DEF WriteInfo, ListingTaskFails
  <2>12. CASE Fill  BY <1>1, <1>2, <1>8, <2>12 DEF Fill
  <2> QED
    BY <1>8, <2>1, <2>2, <2>3, <2>4, <2>5, <2>6, <2>7, <2>8, <2>9, <2>10, <2>11, <2>12
    DEF ListingTask
<1>9. CASE MetaTask /\ UNCHANGED iconVars
  BY <1>1, <1>2, <1>9
  DEF MetaTask, BeginIngest, Ingest, StoreWalk, Analyse, EndAnalysis, BeginBuild, TurnAway, BeginRework, StoreSources, MetaTaskFails
<1>10. CASE MetaAdmin /\ UNCHANGED iconVars
  BY <1>10 DEF MetaAdmin, AskSettings, CommitSettings, EnqueueRebuild, EnqueueFails, worker, budget
<1> QED
  BY <1>3, <1>4, <1>5, <1>6, <1>7, <1>8, <1>9, <1>10 DEF Next

\* What leaves the bucket and the cache alone keeps what is said of them.
LEMMA ImagesStay ==
    ASSUME IconInv, UNCHANGED <<icons, made, thumbs, drawn>>
    PROVE  Images' /\ Thumbs'
<1>1. Images'
  BY DEF IconInv, Images
<1>2. Thumbs'
  BY DEF IconInv, Thumbs, CurrentCached, VersionCached
<1> QED  BY <1>1, <1>2

LEMMA IconKept ==
    ASSUME TypeInv, IconInv, Next
    PROVE  IconInv'
<1>1. ASSUME UNCHANGED <<icons, made, thumbs, drawn, crowded, bare, unread>>, iconRequests' \subseteq iconRequests,
             pc' = "readIcon" => pc = "readIcon"
      PROVE  IconInv'
  <2>1. Chosen'
    BY <1>1 DEF IconInv, Chosen
  <2>2. Remaining'
    BY <1>1 DEF IconInv, Remaining, Deleting
  <2> QED  BY <1>1, <2>1, <2>2, ImagesStay DEF IconInv
<1>2. CASE ~IconTask /\ ~IconAdmin /\ ~AdminDies
  <2>1. UNCHANGED iconVars /\ (pc' = "readIcon" => pc = "readIcon")
    BY <1>2, IconElsewhere
  <2> QED  BY <1>1, <2>1 DEF iconVars
<1>3. CASE AdminDies
  BY <1>1, <1>3 DEF AdminDies
<1>4. CASE DrawIcon
  <2>1. PICK icon \in Drawings : Put(icon[1], icon[2]) /\ drawn' = drawn \cup {icon}
    BY <1>4 DEF DrawIcon
  <2>2. PICK size \in Sizes : icon = <<made + 1, size>>
    BY DEF Drawings
  <2>3. /\ pc' = "idle" /\ UNCHANGED <<thumbs, iconRequests, crowded, bare, unread>>
        /\ Put(made + 1, size) /\ drawn' = drawn \cup {<<made + 1, size>>}
    BY <1>4, <2>1, <2>2 DEF DrawIcon, Return, Forget
  <2>4. made \in Nat /\ drawn \subseteq Nat \X Sizes
    BY DEF IconInv, Images
  <2>5. drawn' \subseteq Nat \X Sizes /\ <<made + 1, size>> \in drawn' /\ drawn \subseteq drawn'
    BY <2>3, <2>4
  <2>6. Images' /\ Thumbs' /\ Len(icons') = Len(icons) + 1 /\ icons' # <<>>
    BY <2>3, <2>4, <2>5, PutKeeps DEF IconInv
  <2>7. Chosen'
    BY <2>3, <2>5 DEF IconInv, Chosen
  <2>8. Len(icons) \in Nat
    BY DEF IconInv, Images
  <2>9. Remaining'
    BY <2>3, <2>6, <2>8 DEF IconInv, Remaining, Deleting
  <2> QED  BY <2>6, <2>7, <2>9 DEF IconInv
<1>5. CASE DrawIconFails
  <2>1. pc' = "idle"
    BY <1>5 DEF DrawIconFails, Raise, Forget
  <2> QED  BY <1>1, <1>5, <2>1 DEF DrawIconFails, iconVars
<1>6. CASE LookForIcon
  <2>1. UNCHANGED <<icons, made, thumbs, iconRequests, drawn, crowded, bare, unread>> /\ (pc' = "readIcon" => icons # <<>>)
    BY <1>6 DEF LookForIcon, iconVars, Step, Return, Forget, Stored
  <2>2. Chosen' /\ Remaining'
    BY <2>1 DEF IconInv, Chosen, Remaining, Deleting
  <2> QED  BY <2>1, <2>2, ImagesStay DEF IconInv
<1>7. CASE StageIcon
  <2>1. /\ pc = "readIcon" /\ pc' = "idle" /\ bare' = (bare \/ ~Stored)
        /\ UNCHANGED <<icons, made, thumbs, iconRequests, drawn, crowded, unread>>
    BY <1>7 DEF StageIcon, Return, Forget
  <2>2. Chosen' /\ Remaining'
    BY <2>1 DEF IconInv, Chosen, Remaining, Deleting, Stored
  <2> QED  BY <2>1, <2>2, ImagesStay DEF IconInv
<1>8. CASE StageIconFails
  <2>1. pc' = "idle" /\ unread' /\ UNCHANGED <<icons, made, thumbs, iconRequests, drawn, crowded>>
    BY <1>8 DEF StageIconFails, Return, Forget
  <2>2. Chosen' /\ Remaining'
    BY <2>1 DEF IconInv, Chosen, Remaining, Deleting
  <2> QED  BY <2>1, <2>2, ImagesStay DEF IconInv
<1>9. CASE AskDelete
  <2>1. PICK v \in 1..made : CheckDelete(v)
    BY <1>9 DEF AskDelete
  <2>2. UNCHANGED <<pc, icons, made, thumbs, drawn, bare, unread>>
    BY <1>9 DEF AskDelete
  <2>3. CASE Len(icons) <= 1
    BY <1>1, <2>1, <2>2, <2>3 DEF CheckDelete
  <2>4. CASE ~(Len(icons) <= 1)
    <3> DEFINE new == [id |-> requests', at |-> "delete", v |-> v]
    <3>1. iconRequests' = iconRequests \cup {new} /\ crowded' = (crowded \/ Deleting # {})
      BY <2>1, <2>4 DEF CheckDelete
    <3>2. new.at = "delete"
      OBVIOUS
    <3>3. Len(icons) \in Nat
      BY DEF IconInv, Images
    <3> HIDE DEF new
    <3>4. Chosen'
      BY <2>2, <3>1, <3>2 DEF IconInv, Chosen
    <3>5. Deleting' = Deleting \cup {new}
      BY <3>1, <3>2 DEF Deleting
    <3>6. Remaining'
      <4>1. (crowded => crowded') /\ (~crowded' => ~crowded /\ Deleting' = {new})
        BY <3>1, <3>5
      <4>2. icons' # <<>> /\ Len(icons') > 1
        BY <2>2, <2>4, <3>3
      <4> QED  BY <2>2, <4>1, <4>2 DEF IconInv, Remaining
    <3> QED  BY <2>2, <3>4, <3>6, ImagesStay DEF IconInv
  <2> QED  BY <2>3, <2>4
<1>10. CASE DeleteVersion
  <2>1. PICK r \in Deleting :
            /\ \/ \E i \in 1..Len(icons) :
                     icons[i].v = r.v /\ icons' = SubSeq(icons, 1, i - 1) \o SubSeq(icons, i + 1, Len(icons))
               \/ r.v \notin Versions /\ icons' = icons
            /\ iconRequests' = iconRequests \ {r}
            /\ UNCHANGED <<pc, made, thumbs, drawn, crowded, bare, unread>>
    BY <1>10 DEF DeleteVersion, worker
  <2>2. CASE icons' = icons
    BY <1>1, <2>1, <2>2
  <2>3. CASE \E i \in 1..Len(icons) :
                 icons[i].v = r.v /\ icons' = SubSeq(icons, 1, i - 1) \o SubSeq(icons, i + 1, Len(icons))
    <3>1. PICK i \in 1..Len(icons) : icons' = SubSeq(icons, 1, i - 1) \o SubSeq(icons, i + 1, Len(icons))
      BY <2>3
    <3>2. Images' /\ Thumbs' /\ Len(icons') = Len(icons) - 1
      BY <2>1, <3>1, DeleteKeeps DEF IconInv
    <3>3. Chosen'
      BY <2>1 DEF IconInv, Chosen
    <3>4. Deleting' \subseteq Deleting /\ r \notin Deleting'
      BY <2>1 DEF Deleting
    <3>5. ~crowded => Deleting' = {} /\ Len(icons) > 1
      BY <3>4 DEF IconInv, Remaining
    <3>6. Len(icons) \in Nat /\ (Len(icons') # 0 => icons' # <<>>)
      BY DEF IconInv, Images
    <3>7. Remaining'
      BY <2>1, <3>2, <3>5, <3>6 DEF IconInv, Remaining
    <3> QED  BY <3>2, <3>3, <3>7 DEF IconInv
  <2> QED  BY <2>1, <2>2, <2>3
<1>11. CASE AskSelect
  <2>1. PICK v \in Versions : iconRequests' = iconRequests \cup
            {[id |-> requests', at |-> "select", v |-> <<Icon(v).art, Icon(v).size>>]}
    BY <1>11 DEF AskSelect
  <2>2. UNCHANGED <<pc, icons, made, thumbs, drawn, crowded, bare, unread>>
    BY <1>11 DEF AskSelect
  <2>3. PICK i \in 1..Len(icons) : v = icons[i].v
    BY DEF Versions
  <2>4. Icon(v) = icons[i]
    BY <2>3, IconOf DEF IconInv
  <2> DEFINE new == [id |-> requests', at |-> "select", v |-> <<Icon(v).art, Icon(v).size>>]
  <2>5. new.at = "select" /\ new.v = <<icons[i].art, icons[i].size>>
    BY <2>4
  <2>6. iconRequests' = iconRequests \cup {new}
    BY <2>1
  <2> HIDE DEF new
  <2>7. <<icons[i].art, icons[i].size>> \in drawn
    BY DEF IconInv, Images
  <2>8. Chosen'
    BY <2>2, <2>5, <2>6, <2>7 DEF IconInv, Chosen
  <2>9. Deleting' = Deleting
    BY <2>5, <2>6 DEF Deleting
  <2>10. Remaining'
    BY <2>2, <2>9 DEF IconInv, Remaining
  <2> QED  BY <2>2, <2>8, <2>10, ImagesStay DEF IconInv
<1>12. CASE SelectVersion
  <2>1. PICK r \in iconRequests :
            /\ r.at = "select" /\ Put(r.v[1], r.v[2]) /\ iconRequests' = iconRequests \ {r}
            /\ UNCHANGED <<pc, thumbs, drawn, crowded, bare, unread>>
    BY <1>12 DEF SelectVersion, worker
  <2>2. r.v \in drawn /\ drawn \subseteq Nat \X Sizes
    BY <2>1 DEF IconInv, Chosen, Images
  <2>3. r.v[1] \in Nat /\ r.v[2] \in Sizes /\ <<r.v[1], r.v[2]>> \in drawn
    BY <2>2
  <2>4. Images' /\ Thumbs' /\ Len(icons') = Len(icons) + 1 /\ icons' # <<>>
    BY <2>1, <2>2, <2>3, PutKeeps DEF IconInv
  <2>5. Len(icons) \in Nat
    BY DEF IconInv, Images
  <2>6. Chosen' /\ Deleting' = Deleting
    BY <2>1 DEF IconInv, Chosen, Deleting
  <2>7. Remaining'
    BY <2>1, <2>4, <2>5, <2>6 DEF IconInv, Remaining
  <2> QED  BY <2>4, <2>6, <2>7 DEF IconInv
<1>13. CASE AskPreview
  <2>1. Stored /\ UNCHANGED <<pc, icons, made, iconRequests, drawn, crowded, bare, unread>>
    BY <1>13 DEF AskPreview
  <2>2. PICK v \in Versions \cup {NoVersion} :
            thumbs' = IF \E t \in thumbs : t.key = CacheKey(v) THEN thumbs
                      ELSE thumbs \cup {[key |-> CacheKey(v), art |-> Icon(v).art]}
    BY <1>13 DEF AskPreview
  <2>3. Thumbs'
    <3>1. CASE thumbs' = thumbs
      BY <2>1, <3>1, ImagesStay
    <3>2. CASE thumbs' = thumbs \cup {[key |-> CacheKey(v), art |-> Icon(v).art]}
      BY <2>1, <3>2, CacheKeeps DEF IconInv
    <3> QED  BY <2>2, <3>1, <3>2
  <2>4. Images'
    BY <2>1 DEF IconInv, Images
  <2>5. Chosen' /\ Remaining'
    BY <2>1 DEF IconInv, Chosen, Remaining, Deleting
  <2> QED  BY <2>3, <2>4, <2>5 DEF IconInv
<1> QED
  BY <1>2, <1>3, <1>4, <1>5, <1>6, <1>7, <1>8, <1>9, <1>10, <1>11, <1>12, <1>13 DEF IconTask, IconAdmin

\* At the start nothing is under way.
LEMMA InitIcons ==
    ASSUME Init
    PROVE  IconInv
<1>1. PICK count \in 0..2 : IconsInit(count)
  BY DEF Init
<1>2. PICK sizes \in [1..count -> Sizes] :
          /\ icons = [i \in 1..count |-> [v |-> i, art |-> i, size |-> sizes[i]]]
          /\ drawn = {<<i, sizes[i]>> : i \in 1..count}
  BY <1>1 DEF IconsInit
<1>3. made = count /\ thumbs = {} /\ iconRequests = {} /\ ~crowded /\ ~bare /\ ~unread /\ pc = "idle"
  BY <1>1 DEF IconsInit, Init, WorkerInit
<1>4. /\ Len(icons) = count
      /\ \A i \in 1..count : icons[i] = [v |-> i, art |-> i, size |-> sizes[i]] /\ icons[i] \in Image
  BY <1>2 DEF Image
<1>5. icons \in Seq(Image)
  BY <1>2, <1>4
<1>6. drawn \subseteq Nat \X Sizes
  BY <1>2
<1>7. \A i \in 1..count : <<icons[i].art, icons[i].size>> \in drawn
  <2> TAKE i \in 1..count
  <2>1. icons[i].art = i /\ icons[i].size = sizes[i]
    BY <1>4
  <2> QED  BY <1>2, <2>1
<1>8. Images
  BY <1>3, <1>4, <1>5, <1>6, <1>7 DEF Images
<1>9. Thumbs /\ Chosen
  BY <1>3 DEF Thumbs, CurrentCached, VersionCached, Chosen
<1>10. Remaining
  BY <1>3, <1>4 DEF Remaining, Deleting
<1> QED  BY <1>8, <1>9, <1>10 DEF IconInv

-----------------------------------------------------------------------------
(***************************************************************************)
(* Theorems.                                                               *)
(***************************************************************************)
LEMMA InitDesk ==
    ASSUME Init
    PROVE  DeskInv
<1>1. Earlier \in Nat /\ Earlier # 0 /\ MaxRequests \in Nat
  BY WorkerAssumption DEF Earlier, WorkerAssumption
<1>2. /\ held = NoMessage /\ pc = "idle" /\ dead = {} /\ requests = 0 /\ forms = {} /\ saves = {}
      /\ queue \subseteq Messages /\ linked = FALSE /\ legal \in BOOLEAN
      /\ pages = IF legal THEN "site" ELSE "none"
      /\ draft \in [text : Nat, privacy : BOOLEAN] \cup {NoDraft}
  <2>1. [id |-> 0, task |-> "run_job", arg |-> 0, retries |-> 0] \in Messages
    BY Starts DEF Messages, Tasks
  <2>2. WorkerInit /\ forms = {} /\ queue \subseteq Messages
    BY <2>1 DEF Init, MetaInit
  <2>3. ListingInit(NoDraft) \/ ListingInit([text |-> 0, privacy |-> FALSE])
    BY DEF Init
  <2>4. [text |-> 0, privacy |-> FALSE] \in [text : Nat, privacy : BOOLEAN]
    OBVIOUS
  <2> QED  BY <2>2, <2>3, <2>4 DEF WorkerInit, ListingInit
<1>3. /\ upload = [id |-> 0, at |-> 0] /\ env = p8 /\ begun = keyed
      /\ keyed = 0 \/ (keyed = Earlier /\ p8 = Earlier)
  <2>1. \E id \in {0, Earlier} : KeyInit(id)
    BY DEF Init
  <2> QED  BY <1>1, <2>1 DEF KeyInit
<1>4. asc = [a \in Accounts |-> [version |-> 0, info |-> 0, name |-> 0, filled |-> {}]] /\ kept = [a \in Accounts |-> {}]
  BY DEF Init, ListingInit
<1>5. TypeInv
  BY <1>2, <1>1 DEF TypeInv, Loaded
<1>6. KeyInv /\ LoadInv
  BY <1>2, <1>3, <1>1 DEF KeyInv, LoadInv, Loaded
<1>7. DraftInv /\ PagesInv
  BY <1>2 DEF DraftInv, PagesInv
<1>8. PushInv
  BY <1>2, <1>4 DEF PushInv, Entry, Whole, Loaded
<1>9. MetaInv
  <2>1. /\ metadata = [settings |-> 0, source |-> FALSE] /\ app \in {0, NoApp} /\ saved = 0 /\ ~unseen
    BY DEF Init, MetaInit
  <2> QED  BY <1>2, <2>1 DEF MetaInv, MetaTypes, Rebuilding, Document
<1> QED  BY <1>5, <1>6, <1>7, <1>8, <1>9, InitIcons DEF DeskInv

\* The invariant is inductive.
THEOREM DeskCorrect == Spec => []DeskInv
<1>1. Init => DeskInv
  BY InitDesk
<1>2. DeskInv /\ [Next]_deskVars => DeskInv'
  <2>1. ASSUME DeskInv, Next PROVE DeskInv'
    BY <2>1, TypeKept, KeyKept, LoadKept, DraftKept, PagesKept, PushKept, MetaKept, IconKept DEF DeskInv
  <2>2. ASSUME DeskInv, UNCHANGED deskVars PROVE DeskInv'
    <3>1. UNCHANGED <<queue, held, pc, mem, dead, requests, forms>>
      BY <2>2 DEF deskVars, worker, budget, metaVars
    <3>2. UNCHANGED <<p8, env, upload, begun, keyed, overlap, moved>>
      BY <2>2 DEF deskVars, keyVars, keyFiles
    <3>3. UNCHANGED <<draft, legal, pages, asc, saves, linked, clash, refused, kept>>
      BY <2>2 DEF deskVars, listingVars
    <3>4. TypeInv' /\ KeyInv' /\ LoadInv'
      BY <2>2, <3>1, <3>2 DEF DeskInv, TypeInv, KeyInv, LoadInv
    <3>5. DraftInv' /\ PagesInv'
      BY <2>2, <3>1, <3>3 DEF DeskInv, DraftInv, PagesInv
    <3>6. PushInv'
      BY <2>2, <3>1, <3>2, <3>3 DEF DeskInv, PushInv, Whole, PushDead, PushOutstanding, Outstanding
    <3>7. MetaInv'
      <4>1. UNCHANGED <<queue, held, pc, mem, dead, metadata, app, forms, saved, unseen, unasked, turned>>
        BY <2>2 DEF deskVars, worker, metaVars
      <4> QED  BY <2>2, <4>1 DEF DeskInv, MetaInv, MetaTypes, Rebuilding, RebuildWaits, Effective
    <3>8. IconInv'
      <4>1. UNCHANGED <<pc, icons, made, thumbs, iconRequests, drawn, crowded, bare, unread>>
        BY <2>2 DEF deskVars, worker, iconVars
      <4>2. IconInv
        BY <2>2 DEF DeskInv
      <4>3. Chosen' /\ Remaining'
        BY <4>1, <4>2 DEF IconInv, Chosen, Remaining, Deleting
      <4> QED  BY <4>1, <4>2, <4>3, ImagesStay DEF IconInv
    <3> QED  BY <3>4, <3>5, <3>6, <3>7, <3>8 DEF DeskInv
  <2> QED  BY <2>1, <2>2
<1> QED  BY <1>1, <1>2, PTL DEF Spec

\* A task writes to the account of the key that was uploaded last (asc_credentials.load).
THEOREM OwnAccountAlways == Spec => []OwnAccountKept
<1>1. DeskInv => OwnAccountKept
  BY DEF DeskInv, LoadInv, OwnAccountKept, Loaded
<1> QED  BY <1>1, DeskCorrect, PTL

\* A draft with the privacy URL keeps it (generate_store_listing and the form).
THEOREM LegalLinkAlways == Spec => []LegalLinkKept
<1>1. DeskInv => LegalLinkKept
  BY DEF DeskInv, DraftInv, LegalLinkKept
<1> QED  BY <1>1, DeskCorrect, PTL

\* The URL on record is one of served pages (publish_legal_pages).
THEOREM LinkedPageAlways == Spec => []LinkedPageServed
<1>1. DeskInv => LinkedPageServed
  BY DEF DeskInv, PagesInv, LinkedPageServed
<1> QED  BY <1>1, DeskCorrect, PTL

\* When no push is left, all that an account holds is of one draft, but for the parts that the
\* last push had to leave (push_store_listing).
THEOREM PushedWholeAlways == Spec => []PushedWhole
<1>1. DeskInv => PushedWhole
  <2> SUFFICES ASSUME DeskInv, ~moved, \A m \in Outstanding \cup dead : m.task # Push, NEW a \in Accounts
               PROVE  Whole(a)
    BY DEF PushedWhole, Push
  <2>1. ~PushOutstanding /\ ~PushDead
    BY DEF PushOutstanding, PushDead, Push
  <2> QED  BY <2>1 DEF DeskInv, PushInv
<1> QED  BY <1>1, DeskCorrect, PTL

\* When there has been an icon there still is one, unless two deletions ran at a time, and a
\* build that begins with one stages one, unless storage failed as well (the icon routes and
\* _stage_app_icon).
THEOREM IconAlways == Spec => []IconRemains
<1>1. DeskInv => IconRemains
  BY DEF DeskInv, IconInv, Remaining, IconRemains, Stored
<1> QED  BY <1>1, DeskCorrect, PTL

\* Previews show the versions that they name (admin/thumbs.py).
THEOREM PreviewAlways == Spec => []PreviewTrue
<1>1. DeskInv => PreviewTrue
  BY PreviewsShow DEF DeskInv, IconInv
<1> QED  BY <1>1, DeskCorrect, PTL

\* The settings that were saved last reach the sources, or there are none because a build was
\* turned away (jobs_build_settings, run_job, build_frontend and rework_frontend).
THEOREM SettingsAlways == Spec => []SettingsReachApp
<1>1. DeskInv => SettingsReachApp
  <2> SUFFICES ASSUME DeskInv, ~unseen
               PROVE  /\ metadata.settings = saved
                      /\ Quiet /\ dead = {} /\ forms = {} /\ saved # 0 /\ ~unasked => app = saved \/ (app = NoApp /\ turned)
    BY DEF SettingsReachApp
  <2>1. metadata.settings = saved
    BY DEF DeskInv, MetaInv
  <2>2. ASSUME Quiet, dead = {}, forms = {}, saved # 0, ~unasked PROVE app = saved \/ (app = NoApp /\ turned)
    <3>1. queue = {} /\ held = NoMessage
      BY <2>2 DEF Quiet, Outstanding
    <3>2. pc = "idle"
      BY <3>1, DeskAssumption DEF DeskInv, TypeInv, DeskAssumption
    <3>3. ~RebuildWaits
      BY <2>2, <3>1 DEF RebuildWaits
    <3> QED  BY <2>2, <3>2, <3>3 DEF DeskInv, MetaInv, Rebuilding
  <2> QED  BY <2>1, <2>2
<1> QED  BY <1>1, DeskCorrect, PTL
=============================================================================
