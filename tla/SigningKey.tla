------------------------------ MODULE SigningKey ------------------------------
(***************************************************************************)
(* The App Store Connect key of a job: asc_credentials.store, which the    *)
(* signing route of the admin calls, and asc_credentials.load, which the   *)
(* tasks call that write to App Store Connect.  Key and settings are two   *)
(* files, each emptied and then written; whoever finds them incomplete     *)
(* takes the key that all jobs share.  Every uploaded key stands for the   *)
(* account of its own that it opens; account 0 is the shared one.          *)
(***************************************************************************)
EXTENDS StoreWorker

CONSTANTS
    NoFile,       \* the file is not there
    NoAccount,    \* no key at all
    Mixed,        \* settings and key of two uploads: Apple answers 401
    HasShared     \* secrets/ holds the shared key

ASSUME KeyAssumption ==
    /\ HasShared \in BOOLEAN
    /\ NoFile \notin Nat /\ NoAccount \notin Nat /\ Mixed \notin Nat /\ Mixed # NoAccount

Empty  == 0
Shared == 0

VARIABLES
    p8, env,     \* the two files of the job: NoFile, Empty, or the upload they are from
    upload,      \* the upload under way: [id, at], at = 0 when there is none
    begun,       \* history: the last upload that was begun
    keyed,       \* history: the last upload that was completed
    overlap,     \* history: an upload was incomplete during the last load
    moved        \* history: an upload while a push was outstanding

keyFiles == <<p8, env>>
keyVars  == <<keyFiles, upload, begun, keyed, overlap, moved>>

\* A job without a key of its own, or with one uploaded earlier.
KeyInit(id) ==
    /\ p8 = (IF id = 0 THEN NoFile ELSE id) /\ env = p8 /\ upload = [id |-> 0, at |-> 0]
    /\ begun = id /\ keyed = id /\ overlap = FALSE /\ moved = FALSE

PushOutstanding == \E m \in Outstanding : m.task = "push_store_listing"

\* jobs_signing runs in the event loop of the admin: one upload after the other.
AskUpload ==
    /\ Visit /\ upload.at = 0
    /\ upload' = [id |-> requests', at |-> 1] /\ begun' = requests'
    /\ overlap' = (overlap \/ pc = "key") /\ moved' = (moved \/ PushOutstanding)
    /\ UNCHANGED <<queue, held, pc, mem, dead, failures, crashes, keyFiles, keyed>>

\* store: the key, then the settings, each emptied by opening it for writing.
Upload ==
    /\ upload.at \in 1..4
    /\ upload' = [upload EXCEPT !.at = (@ + 1) % 5]
    /\ p8'  = CASE upload.at = 1 -> Empty [] upload.at = 2 -> upload.id [] OTHER -> p8
    /\ env' = CASE upload.at = 3 -> Empty [] upload.at = 4 -> upload.id [] OTHER -> env
    /\ keyed' = IF upload.at = 4 THEN upload.id ELSE keyed
    /\ moved' = (moved \/ PushOutstanding)
    /\ UNCHANGED <<worker, begun, overlap>>

\* Mutant of Scope: the shared key goes first.
ScopeShared(settings, key) ==
    IF HasShared THEN Shared ELSE IF settings \in {NoFile, Empty} \/ key \in {NoFile, Empty} THEN NoAccount ELSE key
\* load: the job's own key when both of its files say something, else the shared one.
Scope(settings, key) ==
    IF settings \notin {NoFile, Empty} /\ key \notin {NoFile, Empty}
    THEN IF settings = key THEN key ELSE Mixed
    ELSE IF HasShared THEN Shared ELSE NoAccount

\* _read_env: the settings are read first.
ReadEnv ==
    /\ Step("env", "key") /\ UNCHANGED <<failures, keyFiles, upload, begun, keyed, moved>>
    /\ mem' = [mem EXCEPT !.env = env, !.since = keyed]
    /\ overlap' = (begun # keyed)

\* Then the key.  A task without any key raises.
ReadKey(to) ==
    /\ pc = "key" /\ UNCHANGED <<failures, keyVars>>
    /\ IF Scope(mem.env, p8) = NoAccount
       THEN Raise
       ELSE Step("key", to) /\ mem' = [mem EXCEPT !.account = Scope(mem.env, p8)]
=============================================================================
