----------------------------- MODULE StoreListing -----------------------------
(***************************************************************************)
(* The texts of the App Store listing: publish_legal_pages,                *)
(* generate_store_listing, push_store_listing, autofill_store_metadata and *)
(* set_review_contact of worker/run_job.py with mvp/asc_api.py, and the    *)
(* form of the admin that saves an edited draft.                           *)
(***************************************************************************)
EXTENDS SigningKey, Sequences

CONSTANT NoDraft     \* no listing.json

ASSUME DraftAssumption == NoDraft \notin [text : Nat, privacy : BOOLEAN]

VARIABLES
    draft,      \* listing.json: whose text it holds, and whether the privacy URL
    legal,      \* legal/urls.json is there
    pages,      \* the legal pages on GitHub: "none", "branch" or, served, "site"
    asc,        \* what App Store Connect holds for the app, in every account
    saves,      \* saved forms under way: the draft that they have read
    linked,     \* history: a draft with the privacy URL has been generated
    clash,      \* history: a form was saved over a draft that it had not read
    refused,    \* history: GitHub did not switch Pages on
    kept        \* history: the parts that the last push had to leave, in every account

listingVars == <<draft, legal, pages, asc, saves, linked, clash, refused, kept>>

Earlier  == MaxRequests + 1    \* the upload of an earlier day
Accounts == 0..Earlier

ListingInit(first) ==
    /\ legal \in BOOLEAN /\ draft = first
    /\ pages = (IF legal THEN "site" ELSE "none")
    /\ linked = FALSE /\ clash = FALSE /\ refused = FALSE /\ saves = {}
    /\ asc = [a \in Accounts |-> [version |-> 0, info |-> 0, name |-> 0, filled |-> {}]]
    /\ kept = [a \in Accounts |-> {}]

-----------------------------------------------------------------------------
(***************************************************************************)
(* Drafting.                                                               *)
(***************************************************************************)

\* Mutant of GatherFacts: the URL is recorded first.
GatherFactsLast ==
    /\ pc = "publish" /\ UNCHANGED <<failures, draft, pages, asc, saves, linked, clash, refused, kept>>
    /\ Step("publish", "pages") /\ mem' = [url |-> TRUE] /\ legal' = TRUE
\* publish_legal_pages: the pages say what the sources declare.  Without a repository there
\* is nothing to publish to.
GatherFacts ==
    /\ pc = "publish" /\ UNCHANGED <<failures, listingVars>>
    /\ \/ Return
       \/ Step("publish", "pages") /\ mem' = [url |-> TRUE]

\* The branch gh-pages is pushed by force.
PushPages ==
    /\ Step("pages", "enable")
    /\ pages' = IF pages = "none" THEN "branch" ELSE pages
    /\ UNCHANGED <<mem, failures, draft, legal, asc, saves, linked, clash, refused, kept>>

\* Pages is switched on; GitHub may refuse, and the URL is the one that it would have.
EnablePages ==
    /\ Step("enable", "record") /\ UNCHANGED <<mem, draft, legal, asc, saves, linked, clash, kept>>
    /\ \/ pages' = "site" /\ UNCHANGED <<failures, refused>>
       \/ Misfortune /\ refused' = TRUE /\ UNCHANGED pages

RecordUrls ==
    /\ pc = "record" /\ Return /\ legal' = TRUE
    /\ UNCHANGED <<failures, draft, pages, asc, saves, linked, clash, refused, kept>>

\* store_listing.generate: the text of a draft, with the URL when there is one.
Drafted(id, privacy) == [text |-> id, privacy |-> privacy]

\* _legal_urls of generate_store_listing.
ReadLegal ==
    /\ Step("legal", "draft") /\ mem' = [privacy |-> legal]
    /\ UNCHANGED <<failures, listingVars>>
PutDraft ==
    /\ pc = "draft" /\ Return /\ UNCHANGED <<failures, legal, pages, asc, saves, clash, refused, kept>>
    /\ draft' = Drafted(held.id, mem.privacy)
    /\ linked' = (linked \/ mem.privacy)

\* The form: fields of the draft that is there go into the new one.
AskSave ==
    /\ Visit /\ saves' = saves \cup {[id |-> requests', base |-> draft]}
    /\ UNCHANGED <<queue, held, pc, mem, dead, failures, crashes, draft, legal, pages, asc, linked, clash, refused, kept>>

\* Mutant of Merged: the form is all that is stored.
MergedNot(base, id) == [text |-> id, privacy |-> FALSE]
\* The form has no field for the privacy URL.
Merged(base, id) == [text |-> id, privacy |-> base # NoDraft /\ base.privacy]

PutSave ==
    \E form \in saves :
        /\ draft' = Merged(form.base, form.id) /\ saves' = saves \ {form}
        /\ clash' = (clash \/ form.base # draft)
        /\ UNCHANGED <<worker, legal, pages, asc, linked, refused, kept>>

-----------------------------------------------------------------------------
(***************************************************************************)
(* App Store Connect.                                                      *)
(***************************************************************************)
Loading(text) == [text |-> text, env |-> NoFile, since |-> 0, account |-> NoAccount, todo |-> <<>>]

\* push_store_listing takes the draft that is there, and raises without one.
ReadDraft ==
    /\ pc = "push" /\ UNCHANGED <<failures, listingVars>>
    /\ IF draft = NoDraft THEN Raise ELSE Step("push", "env") /\ mem' = Loading(draft.text)
\* autofill_store_metadata and set_review_contact load the key as well.
BeginCall(from) == Step(from, "env") /\ mem' = Loading(0) /\ UNCHANGED <<failures, listingVars>>
BeginFill    == BeginCall("autofill")
BeginContact == BeginCall("contact")

Fields == <<"category", "rights", "age", "support", "copyright">>

\* find_app and editable_listing: a key that is none is refused here.
FindTarget ==
    /\ pc = "target" /\ UNCHANGED <<failures, listingVars>>
    /\ IF mem.account = Mixed
       THEN Raise
       ELSE CASE held.task = "push_store_listing" -> Step("target", "version") /\ UNCHANGED mem
              [] held.task = "set_review_contact" ->
                     Step("target", "fill") /\ mem' = [mem EXCEPT !.todo = <<"contact">>]
              [] OTHER ->
                     /\ Step("target", "fill")
                     /\ mem' = [mem EXCEPT !.todo = SelectSeq(Fields, LAMBDA f : f = "support" => legal)]

\* Description and keywords go with the version; without a localisation of it they stay.
WriteVersion ==
    /\ Step("version", "info") /\ UNCHANGED <<mem, failures, draft, legal, pages, saves, linked, clash, refused>>
    /\ \/ /\ asc' = [asc EXCEPT ![mem.account].version = mem.text]
          /\ kept' = [kept EXCEPT ![mem.account] = @ \ {"version"}]
       \/ asc' = asc /\ kept' = [kept EXCEPT ![mem.account] = @ \cup {"version"}]

\* Mutant of NameLocked: the rest is not written without the name.
NameLockedStop == pc = "info" /\ Misfortune /\ Return /\ UNCHANGED listingVars
\* Apple refuses the name of a version in review.
NameLocked ==
    /\ Step("info", "infoPlain") /\ Misfortune /\ UNCHANGED <<mem, listingVars>>
\* Subtitle and privacy URL go with the name, or without it when it was refused or the draft
\* has none; without a localisation of the app info all of it stays.
WriteInfo ==
    /\ pc \in {"info", "infoPlain"} /\ Return
    /\ \/ /\ pc = "info" /\ asc' = [asc EXCEPT ![mem.account].info = mem.text, ![mem.account].name = mem.text]
          /\ kept' = [kept EXCEPT ![mem.account] = @ \ {"info", "name"}]
       \/ /\ asc' = [asc EXCEPT ![mem.account].info = mem.text]
          /\ kept' = [kept EXCEPT ![mem.account] = (@ \ {"info"}) \cup {"name"}]
       \/ /\ pc = "info" /\ asc' = asc
          /\ kept' = [kept EXCEPT ![mem.account] = @ \cup {"info", "name"}]
    /\ UNCHANGED <<failures, draft, legal, pages, saves, linked, clash, refused>>

\* autofill_store_metadata and set_review_contact: one field after the other; a field that
\* the app does not have is passed over, and content rights may be refused.
Fill ==
    /\ pc = "fill"
    /\ IF mem.todo = <<>>
       THEN Return /\ UNCHANGED <<failures, listingVars>>
       ELSE /\ Step("fill", "fill") /\ mem' = [mem EXCEPT !.todo = Tail(@)]
            /\ \/ /\ asc' = [asc EXCEPT ![mem.account].filled = @ \cup {Head(mem.todo)}]
                  /\ UNCHANGED failures
               \/ Head(mem.todo) \in {"category", "age", "copyright"} /\ UNCHANGED <<asc, failures>>
               \/ Head(mem.todo) = "rights" /\ Misfortune /\ UNCHANGED asc
            /\ UNCHANGED <<draft, legal, pages, saves, linked, clash, refused, kept>>

\* An error of storage, of git or of Apple: the task is retried.
ListingTaskFails ==
    /\ pc \in {"publish", "pages", "enable", "record", "legal", "draft", "push", "target", "version", "info", "infoPlain", "fill"}
    /\ Misfortune /\ Raise /\ UNCHANGED listingVars

ListingRequest ==
    /\ \E task \in {"publish_legal_pages", "generate_store_listing", "push_store_listing",
                    "autofill_store_metadata", "set_review_contact"} : Enqueue(task, 0)
    /\ UNCHANGED listingVars

ListingTask ==
    \/ GatherFacts \/ PushPages \/ EnablePages \/ RecordUrls \/ ReadLegal \/ PutDraft \/ ReadDraft \/ BeginFill
    \/ BeginContact \/ FindTarget
    \/ WriteVersion \/ NameLocked \/ WriteInfo \/ Fill \/ ListingTaskFails

-----------------------------------------------------------------------------
(***************************************************************************)
(* Properties.                                                             *)
(***************************************************************************)

\* The texts of an account are of one draft, but for the parts that the last push had to leave.
Whole(a) ==
    /\ {"version", "info"} \cap kept[a] = {} => asc[a].version = asc[a].info
    /\ {"info", "name"} \cap kept[a] = {} => asc[a].info = asc[a].name

\* Once no push waits, runs or is dead, all that every account holds of version texts, app
\* info and name is of one and the same draft, whatever failed in between; except the parts
\* that the last push passed over (no localisation of the version or of the app info, a name
\* that Apple refused or the draft lacks), and unless a key was uploaded meanwhile.
PushedWhole ==
    ~moved /\ (\A m \in Outstanding \cup dead : m.task # "push_store_listing") =>
        \A a \in Accounts : Whole(a)

\* When a draft with the privacy URL has been generated, the draft keeps the URL through
\* edits and new drafts, unless a form was saved over a draft that it had not read.
LegalLinkKept == linked /\ ~clash => draft.privacy

\* The URLs that drafts and forms take are those of pages that GitHub serves, whatever died
\* or was retried between the push and the record, unless GitHub refused to serve them.
LinkedPageServed == legal /\ ~refused => pages = "site"

\* What is written goes to the account whose key was uploaded last, when no upload was
\* incomplete while the task loaded its key.
OwnAccountKept ==
    pc \in {"version", "info", "infoPlain", "fill"} /\ ~overlap /\ mem.since # 0 =>
        mem.account = mem.since
=============================================================================
