----------------------------- MODULE StoreSlides -----------------------------
(***************************************************************************)
(* The screenshots of the App Store listing: generate_store_assets,        *)
(* regenerate_store_slide, generate_store_slide and generate_ipad_slides   *)
(* of worker/run_job.py with mvp/store_assets.py, mvp/slide_contract.py    *)
(* and mvp/image_slides.py, and the delete button of the admin.            *)
(*                                                                         *)
(* Of a page the model keeps its number and how many edits of the operator *)
(* it holds; of a picture, which page it shows or that a model drew it; of *)
(* a review, its verdict on a slide and the page that it saw.              *)
(***************************************************************************)
EXTENDS StoreWorker

CONSTANTS
    Slides,          \* the numbers of the source slides
    NoPage,          \* no object, or no file
    MaxIterations    \* settings.store_assets_max_iterations

\* A page is known by a number; at most seven are anywhere at a time.
Pages == [n : 1..8, edits : Nat]

ASSUME SlidesAssumption ==
    /\ NoPage \notin Pages
    /\ Slides \subseteq Nat \ {0} /\ Slides # {} /\ IsFiniteSet(Slides)
    /\ MaxIterations \in Nat \ {0}

VARIABLES
    html, png,       \* NN.html and NN.png: page and picture of each slide
    ipad,            \* ipad_NN.png: the picture that it was re-framed from
    contracts,       \* slides in slide_contracts.json
    review,          \* review.json
    touched,         \* history: slides changed one by one since the last listing
    swallowed,       \* history: a failure that no retry makes good
    lost             \* history: slides whose edits a listing lost though it had them

listing == <<html, png, ipad, contracts, review>>
slideHistory == <<touched, swallowed, lost>>
slides  == <<listing, slideHistory>>

Unscored == [verdict |-> "none", of |-> NoPage]
Nothing  == [s \in Slides |-> NoPage]

PictureOf(page)  == [of |-> page, drawn |-> FALSE]
PageOf(picture)  == IF picture = NoPage THEN NoPage ELSE picture.of
EditsOf(page)    == IF page = NoPage THEN 0 ELSE page.edits
Present(file)    == {s \in Slides : file[s] # NoPage}
First(set)       == CHOOSE s \in set : \A t \in set : s <= t
With(file, set, Value(_)) == [s \in Slides |-> IF s \in set THEN Value(s) ELSE file[s]]

\* A page unlike all that are anywhere, with as many edits as it is based on.
Current(s) ==
    ({html[s], PageOf(png[s]), PageOf(ipad[s]), review[s].of} \cup
     (IF "out" \in DOMAIN mem THEN {mem.page[s], PageOf(mem.out[s]), mem.review[s].of} ELSE {}))
    \ {NoPage}
Numbers(s) == {page.n : page \in Current(s)}
NewPage(s, edits) == [n |-> CHOOSE n \in 1..8 : n \notin Numbers(s) /\ 1..(n - 1) \subseteq Numbers(s),
                      edits |-> edits]
\* slide_prompt and render_slide.
NewDrawing(s) == [of |-> NewPage(s, 0), drawn |-> TRUE]

Lucky(trouble) == IF trouble THEN Misfortune ELSE UNCHANGED failures
\* The task returns with a message where it has failed, and nothing retries it.
GiveUp == Return /\ swallowed' = TRUE /\ UNCHANGED <<listing, touched, lost>>

\* A job without screenshots, or with those of an earlier listing.
Init ==
    /\ WorkerInit /\ queue = {}
    /\ ipad = Nothing /\ touched = {} /\ swallowed = FALSE /\ lost = {}
    /\ \/ /\ html = Nothing /\ png = Nothing /\ contracts = {}
          /\ review = [s \in Slides |-> Unscored]
       \/ LET page == [n |-> 1, edits |-> 0] IN
          /\ html = [s \in Slides |-> page] /\ png = [s \in Slides |-> PictureOf(page)]
          /\ contracts = Slides
          /\ review \in [Slides -> {[verdict |-> v, of |-> page] : v \in {"pass", "fail"}}]

-----------------------------------------------------------------------------
(***************************************************************************)
(* generate_store_assets: contracts.                                       *)
(***************************************************************************)

\* The source slides are downloaded as far as possible, the contracts of an earlier
\* listing restored.
Gather ==
    /\ pc = "gather"
    /\ \E originals \in SUBSET Slides :
        /\ Lucky(originals # Slides)
        /\ IF originals = {}
           THEN Raise
           ELSE /\ Step("gather", IF originals \subseteq contracts THEN "engine" ELSE "analyse")
                /\ mem' = [originals |-> originals, known |-> contracts]
        /\ swallowed' = (swallowed \/ originals # Slides)
    /\ UNCHANGED <<listing, touched, lost>>

\* slide_contract.analyse: a slide without a contract fails the gate.
Analyse ==
    /\ pc = "analyse" /\ UNCHANGED slides
    /\ \/ /\ Step("analyse", "engine") /\ UNCHANGED failures
          /\ mem' = [mem EXCEPT !.known = @ \cup mem.originals]
       \/ Misfortune /\ Raise

\* The image engine, when its token is there: one picture for each contract, and
\* neither pages nor a review.
Draw ==
    /\ pc = "engine"
    /\ \E failed \in SUBSET mem.originals :
        /\ Lucky(failed # {})
        /\ IF failed = mem.originals
           THEN GiveUp
           ELSE LET done == mem.originals \ failed IN
                /\ Step("engine", "storePng")
                /\ mem' = [originals |-> mem.originals, todo |-> done, page |-> Nothing,
                           out |-> With(Nothing, done, NewDrawing), carried |-> {},
                           review |-> [s \in Slides |-> Unscored]]
                /\ swallowed' = (swallowed \/ failed # {})
                /\ UNCHANGED <<listing, touched, lost>>

-----------------------------------------------------------------------------
(***************************************************************************)
(* Pages.                                                                  *)
(***************************************************************************)

\* resumable_slides: what the last review passed.
Resumable == {s \in mem.originals : review[s].verdict = "pass"}

\* restore_pages: a page that cannot be read is left out.
Restore ==
    /\ Step("engine", "build")
    /\ \E unread \in SUBSET (Resumable \cap Present(html)) :
        LET back == (Resumable \cap Present(html)) \ unread IN
        /\ Lucky(unread # {})
        /\ mem' = [originals |-> mem.originals, known |-> mem.known, attempt |-> 1, todo |-> {},
                   page |-> [s \in Slides |-> IF s \in back THEN html[s] ELSE NoPage],
                   out |-> Nothing, carried |-> back, review |-> [s \in Slides |-> Unscored]]
    /\ UNCHANGED slides

FromContract(s) == NewPage(s, 0)

\* Mutant of Build: every contract is authored anew.
BuildAll ==
    /\ pc = "build" /\ Step("build", "render") /\ UNCHANGED <<failures, slides>>
    /\ mem' = [mem EXCEPT !.page = With(@, mem.known, FromContract)]
\* build_slide_pages: a page that is there is not authored again; after three attempts
\* a slide goes without.
Build ==
    /\ pc = "build"
    /\ \E skipped \in SUBSET (mem.known \ Present(mem.page)) :
        LET new == (mem.known \ Present(mem.page)) \ skipped IN
        /\ Lucky(skipped # {})
        /\ IF new \cup Present(mem.page) = {}
           THEN GiveUp
           ELSE /\ Step("build", "render")
                /\ mem' = [mem EXCEPT !.page = With(@, new, FromContract)]
                /\ swallowed' = (swallowed \/ skipped # {})
                /\ UNCHANGED <<listing, touched, lost>>

Shot(s) == PictureOf(mem.page[s])

\* render_pages: what chromium does not render is left out of the listing.
Render ==
    /\ pc \in {"render", "rerender"} /\ Step(pc, "review")
    /\ \E missed \in SUBSET Present(mem.page) :
        LET shot == Present(mem.page) \ missed IN
        /\ Lucky(missed # {})
        /\ mem' = [mem EXCEPT !.todo = shot, !.out = With(@, shot, Shot)]
        /\ swallowed' = (swallowed \/ missed # {})
    /\ UNCHANGED <<listing, touched, lost>>

-----------------------------------------------------------------------------
(***************************************************************************)
(* The loop of review and refinement, which no exception leaves.           *)
(***************************************************************************)

\* The reviewer gets the pictures of the last rendering; what it forgets has no score.
Verdicts(seen) ==
    [s \in Slides |-> IF s \in DOMAIN seen THEN [verdict |-> seen[s], of |-> mem.out[s].of]
                                          ELSE Unscored]
Failing(scores) == {s \in Slides : scores[s].verdict = "fail"}
\* What the task has in hand when the loop ends.
Result(page, out, scores) ==
    [originals |-> mem.originals, todo |-> mem.todo, page |-> page, out |-> out,
     carried |-> mem.carried, review |-> scores]

Review ==
    /\ pc = "review"
    /\ \E scored \in SUBSET mem.todo : \E seen \in [scored -> {"pass", "fail"}] :
        /\ Lucky(scored # mem.todo)
        /\ IF Failing(Verdicts(seen)) # {} /\ mem.attempt < MaxIterations
           THEN Step("review", "refine") /\ mem' = [mem EXCEPT !.review = Verdicts(seen)]
           ELSE Step("review", "storePng") /\ mem' = Result(mem.page, mem.out, Verdicts(seen))
    /\ UNCHANGED slides

Revised(s) == NewPage(s, EditsOf(mem.page[s]))

\* The agent edits what failed; it may as well leave it or touch another page.
Refine ==
    /\ Step("refine", "rerender")
    /\ \E set \in SUBSET Present(mem.page) :
        /\ Lucky(set # Failing(mem.review))
        /\ mem' = [mem EXCEPT !.page = With(@, set, Revised), !.attempt = @ + 1]
    /\ UNCHANGED slides

\* A timeout of an agent or of chromium ends the loop: some pages are edited, some
\* rendered, and review and list of pictures are those of before.
LoopFails ==
    /\ pc \in {"review", "refine", "rerender"} /\ Step(pc, "storePng")
    /\ Misfortune /\ swallowed' = TRUE
    /\ \E set \in SUBSET Present(mem.page) :
        mem' = Result(IF pc = "refine" THEN With(mem.page, set, Revised) ELSE mem.page,
                      IF pc = "rerender" THEN With(mem.out, set, Shot) ELSE mem.out, mem.review)
    /\ UNCHANGED <<listing, touched, lost>>

-----------------------------------------------------------------------------
(***************************************************************************)
(* _store_slides: pictures, pages, contracts and review, one by one.       *)
(***************************************************************************)
StorePng ==
    /\ pc = "storePng" /\ UNCHANGED <<failures, html, ipad, contracts, review, slideHistory>>
    /\ IF mem.todo = {}
       THEN /\ Step("storePng", "storePage") /\ UNCHANGED png
            /\ mem' = [mem EXCEPT !.todo = Present(mem.page), !.out = Nothing]
       ELSE LET s == First(mem.todo) IN
            /\ Step("storePng", "storePng")
            /\ png' = [png EXCEPT ![s] = mem.out[s]]
            /\ mem' = [mem EXCEPT !.todo = @ \ {s}]

StorePage ==
    /\ pc = "storePage" /\ UNCHANGED <<failures, png, ipad, contracts, review, touched, swallowed>>
    /\ IF mem.todo = {}
       THEN /\ Step("storePage", "storeContracts") /\ UNCHANGED <<html, lost>>
            /\ mem' = [mem EXCEPT !.page = Nothing, !.carried = {}]
       ELSE LET s == First(mem.todo) IN
            /\ Step("storePage", "storePage")
            /\ html' = [html EXCEPT ![s] = mem.page[s]]
            /\ lost' = lost \cup {t \in mem.carried \cap {s} : mem.page[s].edits < EditsOf(html[s])}
            /\ mem' = [mem EXCEPT !.todo = @ \ {s}]

\* Only the contracts of the slides that could be downloaded are kept.
StoreContracts ==
    /\ Step("storeContracts", "storeReview")
    /\ contracts' = mem.originals
    /\ UNCHANGED <<mem, failures, html, png, ipad, review, slideHistory>>

\* Mutant of StoreReview: a review without scores replaces nothing.
StoreReviewOnce ==
    /\ pc = "storeReview" /\ Return /\ UNCHANGED failures
    /\ review' = IF \A s \in Slides : mem.review[s] = Unscored THEN review ELSE mem.review
    /\ touched' = {}
    /\ UNCHANGED <<html, png, ipad, contracts, swallowed, lost>>
StoreReview ==
    /\ pc = "storeReview" /\ Return /\ UNCHANGED failures
    /\ review' = mem.review /\ touched' = {}
    /\ UNCHANGED <<html, png, ipad, contracts, swallowed, lost>>

-----------------------------------------------------------------------------
(***************************************************************************)
(* One slide at a time.                                                    *)
(***************************************************************************)
Slide == held.arg

\* regenerate_store_slide: the agent edits the stored page, when there is one.
EditSlide ==
    /\ pc = "edit" /\ UNCHANGED <<failures, slides>>
    /\ \/ html[Slide] = NoPage /\ Return
       \/ /\ html[Slide] # NoPage /\ Step("edit", "putPage")
          /\ mem' = [edited |-> NewPage(Slide, html[Slide].edits + 1)]

\* _rehydrate_store_workspace: a page that cannot be read is left out, and is not edited.
Unread == pc = "edit" /\ Misfortune /\ GiveUp

\* The render fails: nothing is stored.
EditUnseen == pc = "putPage" /\ Misfortune /\ GiveUp

PutPage ==
    /\ Step("putPage", "putPng") /\ UNCHANGED <<mem, failures>>
    /\ html' = [html EXCEPT ![Slide] = mem.edited] /\ touched' = touched \cup {Slide}
    /\ UNCHANGED <<png, ipad, contracts, review, swallowed, lost>>

PutPng ==
    /\ pc = "putPng" /\ Return /\ UNCHANGED failures
    /\ png' = [png EXCEPT ![Slide] = PictureOf(mem.edited)]
    /\ UNCHANGED <<html, ipad, contracts, review, slideHistory>>

\* generate_store_slide: a model draws the source slide, or retouches ours when there
\* is one; a variant is stored beside the slide and shows nowhere.
DrawSlide ==
    /\ pc = "draw" /\ Return /\ UNCHANGED failures
    /\ \E fromCurrent, variant \in BOOLEAN :
        IF (fromCurrent => png[Slide] # NoPage) /\ ~variant
        THEN png' = [png EXCEPT ![Slide] = NewDrawing(Slide)] /\ touched' = touched \cup {Slide}
        ELSE UNCHANGED <<png, touched>>
    /\ UNCHANGED <<html, ipad, contracts, review, swallowed, lost>>

\* generate_image makes of a picture one of another shape.
Reframed(s) == png[s]

\* generate_ipad_slides: each picture that is there is re-framed, one put after the
\* other; one that fails is passed over.
Reframe ==
    /\ pc = "reframe"
    /\ LET left == IF mem = Blank THEN Slides ELSE mem.todo IN
        IF left = {}
        THEN Return /\ UNCHANGED <<failures, slides>>
        ELSE /\ Step("reframe", "reframe") /\ mem' = [todo |-> left \ {First(left)}]
             /\ \E ok \in BOOLEAN :
                /\ Lucky(~ok)
                /\ ipad' = IF ok /\ png[First(left)] # NoPage
                           THEN [ipad EXCEPT ![First(left)] = Reframed(First(left))] ELSE ipad
             /\ UNCHANGED <<html, png, contracts, review, slideHistory>>

\* A failure of storage, download or agent outside the loop: the task is retried.
SlideTaskFails ==
    /\ pc \in {"build", "render", "storePng", "storePage", "storeContracts", "storeReview",
               "edit", "putPage", "putPng", "draw", "reframe"}
    /\ Misfortune /\ Raise /\ UNCHANGED slides

\* The object gets a delete marker.
Without(file, s) == [file EXCEPT ![s] = NoPage]

\* The button of the admin.
DeleteSlide ==
    /\ Visit /\ UNCHANGED <<queue, held, pc, mem, dead, failures, crashes>>
    /\ \E s \in Slides :
        /\ touched' = touched \cup {s}
        /\ \/ png' = Without(png, s) /\ UNCHANGED ipad
           \/ ipad' = Without(ipad, s) /\ UNCHANGED png
    /\ UNCHANGED <<html, contracts, review, swallowed, lost>>

SlideStart ==
    [generate_store_assets |-> "gather", regenerate_store_slide |-> "edit",
     generate_store_slide |-> "draw", generate_ipad_slides |-> "reframe"]

Messages == [id : Nat, task : DOMAIN SlideStart, arg : Nat, retries : Nat]

ASSUME MessagesAssumption == NoMessage \notin Messages

SlideRequest ==
    /\ \/ Enqueue("generate_store_assets", 0)
       \/ \E s \in Slides : \/ Enqueue("regenerate_store_slide", s)
                            \/ Enqueue("generate_store_slide", s)
       \/ Enqueue("generate_ipad_slides", 0)
    /\ UNCHANGED slides

SlideTask ==
    \/ Gather \/ Analyse \/ Draw \/ Restore \/ Build \/ Render \/ Review \/ Refine \/ LoopFails
    \/ StorePng \/ StorePage \/ StoreContracts \/ StoreReview
    \/ EditSlide \/ Unread \/ EditUnseen \/ PutPage \/ PutPng \/ DrawSlide \/ Reframe \/ SlideTaskFails

Next ==
    \/ Deliver(SlideStart) /\ UNCHANGED slides
    \/ Crash /\ UNCHANGED slides
    \/ SlideTask \/ SlideRequest \/ DeleteSlide

vars == <<worker, slides>>
Spec == Init /\ [][Next]_vars

-----------------------------------------------------------------------------
(***************************************************************************)
(* Properties.                                                             *)
(***************************************************************************)

\* When all is done, nothing is dead and nothing was swallowed, then whatever died or was
\* retried on the way, every picture that was rendered shows the stored page, and the
\* stored review speaks of that page, unless the slide has been changed by itself since.
ListingHangsTogether ==
    Quiet /\ dead = {} /\ ~swallowed =>
        \A s \in Slides :
            /\ png[s] # NoPage /\ ~png[s].drawn => png[s].of = html[s]
            /\ s \notin touched /\ review[s] # Unscored => review[s].of = html[s]

\* A listing never loses an edit of the operator to a slide that the last review passed
\* and whose page it could read, not even after it died halfway and ran again.
PassedEditsKept == lost = {}

=============================================================================
