----------------------------- MODULE IconVersions -----------------------------
(***************************************************************************)
(* The app icon: generate_app_icon, _stage_app_icon of worker/run_job.py   *)
(* and the routes of admin/routes_jobs.py that show, choose and delete its *)
(* versions.  Every icon is written under one key of a bucket that keeps   *)
(* versions.  The routes are plain functions, so requests run in threads   *)
(* beside each other and beside the worker.                                *)
(***************************************************************************)
EXTENDS StoreWorker, Sequences

CONSTANTS Sizes,       \* the lengths that the images may have
          NoVersion    \* no version id: the current one

ASSUME IconAssumption == Sizes # {} /\ NoVersion \notin Nat

VARIABLES
    icons,         \* the versions in the bucket, the current one last
    made,          \* how many versions there have been
    thumbs,        \* previews in the cache: [key, art]
    iconRequests,  \* requests under way: what they are about to delete or to put
    drawn,         \* history: <<image, length>> of all that were generated
    crowded,       \* history: two deletions have been under way at a time
    bare,          \* history: a build that began when there was an icon staged none
    unread         \* history: storage failed while a build staged the icon

iconVars == <<icons, made, thumbs, iconRequests, drawn, crowded, bare, unread>>

\* A job with count icons, drawn one after the other.
IconsInit(count) ==
    /\ made = count /\ \E sizes \in [1..count -> Sizes] :
           /\ icons = [i \in 1..count |-> [v |-> i, art |-> i, size |-> sizes[i]]]
           /\ drawn = {<<i, sizes[i]>> : i \in 1..count}
    /\ thumbs = {} /\ iconRequests = {} /\ crowded = FALSE /\ bare = FALSE /\ unread = FALSE

Versions   == {icons[i].v : i \in 1..Len(icons)}
Current    == icons[Len(icons)]
Icon(v)    == IF v = NoVersion THEN Current ELSE CHOOSE icon \in {icons[i] : i \in 1..Len(icons)} : icon.v = v
Stored     == icons # <<>>
Put(art, size) ==
    icons' = Append(icons, [v |-> made + 1, art |-> art, size |-> size]) /\ made' = made + 1

-----------------------------------------------------------------------------
(***************************************************************************)
(* The worker.                                                             *)
(***************************************************************************)

\* app_icon.generate and normalise: a square of its own, of any length.
Drawings == {<<made + 1, size>> : size \in Sizes}

\* generate_app_icon: what the model draws is put under the one key.
DrawIcon ==
    /\ pc = "drawIcon" /\ Return /\ UNCHANGED failures
    /\ \E icon \in Drawings : Put(icon[1], icon[2]) /\ drawn' = drawn \cup {icon}
    /\ UNCHANGED <<thumbs, iconRequests, crowded, bare, unread>>

\* No spec, no token, no answer, no storage: the task is retried.
DrawIconFails == pc = "drawIcon" /\ Misfortune /\ Raise /\ UNCHANGED iconVars

\* _stage_app_icon of a build: the object is looked up, then read.
LookForIcon ==
    /\ UNCHANGED <<failures, iconVars>> /\ pc = "stageIcon"
    /\ IF Stored THEN Step("stageIcon", "readIcon") /\ UNCHANGED mem ELSE Return

StageIcon ==
    /\ pc = "readIcon" /\ Return /\ UNCHANGED failures
    /\ bare' = (bare \/ ~Stored)
    /\ UNCHANGED <<icons, made, thumbs, iconRequests, drawn, crowded, unread>>

\* An error of storage is swallowed: the build goes on with the icon of Flutter.
StageIconFails ==
    /\ pc \in {"stageIcon", "readIcon"} /\ Misfortune /\ Return
    /\ bare' = (bare \/ pc = "readIcon" \/ Stored) /\ unread' = TRUE
    /\ UNCHANGED <<icons, made, thumbs, iconRequests, drawn, crowded>>

-----------------------------------------------------------------------------
(***************************************************************************)
(* The admin.                                                              *)
(***************************************************************************)
Deleting == {r \in iconRequests : r.at = "delete"}

\* Mutant of CheckDelete: the number of versions is not looked at.
CheckDeleteNever(v) ==
    /\ iconRequests' = iconRequests \cup {[id |-> requests', at |-> "delete", v |-> v]}
    /\ crowded' = (crowded \/ Deleting # {})
\* The last version is not deleted.
CheckDelete(v) ==
    IF Len(icons) <= 1
    THEN UNCHANGED <<iconRequests, crowded>>
    ELSE /\ iconRequests' = iconRequests \cup {[id |-> requests', at |-> "delete", v |-> v]}
         /\ crowded' = (crowded \/ Deleting # {})

\* The page offers the versions that there were when it was made.
AskDelete ==
    /\ Visit /\ \E v \in 1..made : CheckDelete(v)
    /\ UNCHANGED <<queue, held, pc, mem, dead, failures, crashes, icons, made, thumbs, drawn, bare, unread>>

\* delete_version takes the version out of the history; one that is gone is no error.
DeleteVersion ==
    \E r \in Deleting :
        /\ \/ \E i \in 1..Len(icons) :
                /\ icons[i].v = r.v
                /\ icons' = SubSeq(icons, 1, i - 1) \o SubSeq(icons, i + 1, Len(icons))
           \/ r.v \notin Versions /\ icons' = icons
        /\ iconRequests' = iconRequests \ {r}
        /\ UNCHANGED <<worker, made, thumbs, drawn, crowded, bare, unread>>

\* A chosen version is read, then put once more as the current one.
AskSelect ==
    /\ Visit /\ \E v \in Versions :
        iconRequests' = iconRequests \cup
            {[id |-> requests', at |-> "select", v |-> <<Icon(v).art, Icon(v).size>>]}
    /\ UNCHANGED <<queue, held, pc, mem, dead, failures, crashes, icons, made, thumbs, drawn, crowded, bare, unread>>
SelectVersion ==
    \E r \in iconRequests :
        /\ r.at = "select" /\ Put(r.v[1], r.v[2])
        /\ iconRequests' = iconRequests \ {r}
        /\ UNCHANGED <<worker, thumbs, drawn, crowded, bare, unread>>

\* Mutant of CacheKey: past versions share the key of the current one.
CacheKeyShared(v) == <<NoVersion, Icon(v).size>>
\* cache_path: the version that is asked for, and the length of its image.
CacheKey(v) == <<v, Icon(v).size>>

\* A preview that is not in the cache is made and written there.
AskPreview ==
    /\ Visit /\ Stored
    /\ \E v \in Versions \cup {NoVersion} :
        thumbs' = IF \E t \in thumbs : t.key = CacheKey(v) THEN thumbs
                  ELSE thumbs \cup {[key |-> CacheKey(v), art |-> Icon(v).art]}
    /\ UNCHANGED <<queue, held, pc, mem, dead, failures, crashes, icons, made, iconRequests, drawn, crowded, bare, unread>>
\* What the operator sees of a version, or of the current icon.
Preview(v) ==
    IF \E t \in thumbs : t.key = CacheKey(v)
    THEN (CHOOSE t \in thumbs : t.key = CacheKey(v)).art ELSE Icon(v).art

IconRequest ==
    /\ Enqueue("generate_app_icon", 0) \/ Enqueue("stage", 0)
    /\ UNCHANGED iconVars

IconTask  == DrawIcon \/ DrawIconFails \/ LookForIcon \/ StageIcon \/ StageIconFails
IconAdmin == AskDelete \/ DeleteVersion \/ AskSelect \/ SelectVersion \/ AskPreview

-----------------------------------------------------------------------------
(***************************************************************************)
(* Properties.                                                             *)
(***************************************************************************)

\* However many icons are deleted: when there has been one there still is one, unless two
\* deletions ran at a time.  A build that begins when there is one stages one, unless two
\* deletions ran at a time or storage failed while it looked; the build goes on without.
IconRemains ==
    /\ made # 0 /\ ~Stored => crowded
    /\ bare => crowded \/ unread

\* The preview of a version shows that version, and the preview of the current icon shows
\* the current one unless two generated images have the same length.
PreviewTrue ==
    /\ \A v \in Versions : Preview(v) = Icon(v).art
    /\ Stored /\ Preview(NoVersion) # Current.art =>
           \E p, q \in drawn : p # q /\ p[2] = q[2]
=============================================================================
