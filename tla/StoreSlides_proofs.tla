-------------------------- MODULE StoreSlides_proofs --------------------------
(***************************************************************************)
(* Proofs that a listing keeps the edits of the pages that it restores,    *)
(* and that pictures, pages and review belong together when all is done.   *)
(*                                                                         *)
(* SlidesInv says, beside the types, that a page carried over from the     *)
(* last listing has at least the edits of the stored one, from the moment  *)
(* it is restored until all pages are stored.  HangInv says what a listing *)
(* has in hand at each step, and that a slide which is not as it should be *)
(* has a message to come that puts it right.                               *)
(***************************************************************************)
EXTENDS StoreSlides, WellFoundedInduction, TLAPS

\* The steps of the loop, and those that store its result.
Looping == {"build", "render", "review", "refine", "rerender"}
Storing == {"storePng", "storePage"}

InHand(m) ==
    m = [originals |-> m.originals, known |-> m.known, attempt |-> m.attempt, todo |-> m.todo,
         page |-> m.page, out |-> m.out, carried |-> m.carried, review |-> m.review]
IsResult(m) ==
    m = [originals |-> m.originals, todo |-> m.todo, page |-> m.page, out |-> m.out,
         carried |-> m.carried, review |-> m.review]

QueueInv ==
    /\ queue \subseteq Messages
    /\ IF pc = "idle" THEN held = NoMessage ELSE held \in Messages
    /\ requests \in Nat

FilesInv ==
    /\ html \in [Slides -> Pages \cup {NoPage}]
    /\ pc = "putPage" /\ Slide \in Slides => mem.edited \in Pages

MemInv ==
    /\ pc \in Looping => InHand(mem)
    /\ pc \in Storing => IsResult(mem)
    /\ pc \in Looping \cup Storing => mem.page \in [Slides -> Pages \cup {NoPage}]

CarriedInv ==
    pc \in Looping \cup Storing =>
        /\ mem.carried \subseteq Slides
        /\ \A s \in mem.carried : mem.page[s] # NoPage /\ EditsOf(html[s]) <= mem.page[s].edits

SlidesInv == QueueInv /\ FilesInv /\ MemInv /\ CarriedInv /\ lost = {}

-----------------------------------------------------------------------------
\* Eight numbers are enough: seven numbers do not cover 1..8, and the first one left out
\* is free.
LEMMA FreeNumber ==
    ASSUME NEW set, NEW a, NEW b, NEW c, NEW d, NEW e, NEW f, NEW g, set \subseteq {a, b, c, d, e, f, g}
    PROVE  \E n \in 1..8 : n \notin set /\ 1..(n - 1) \subseteq set
<1>1. \E n \in 1..8 : n \notin set
  OBVIOUS
<1>2. CASE 1 \notin set
  BY <1>2
<1>3. CASE 1 \in set /\ 2 \notin set
  BY <1>3
<1>4. CASE {1, 2} \subseteq set /\ 3 \notin set
  BY <1>4
<1>5. CASE {1, 2, 3} \subseteq set /\ 4 \notin set
  BY <1>5
<1>6. CASE {1, 2, 3, 4} \subseteq set /\ 5 \notin set
  BY <1>6
<1>7. CASE {1, 2, 3, 4, 5} \subseteq set /\ 6 \notin set
  BY <1>7
<1>8. CASE {1, 2, 3, 4, 5, 6} \subseteq set /\ 7 \notin set
  BY <1>8
<1>9. CASE {1, 2, 3, 4, 5, 6, 7} \subseteq set /\ 8 \notin set
  BY <1>9
<1> QED  BY <1>1, <1>2, <1>3, <1>4, <1>5, <1>6, <1>7, <1>8, <1>9

\* A new page is a page, and has the edits it is given.
LEMMA NewPageIsPage ==
    ASSUME NEW s, NEW edits \in Nat
    PROVE  NewPage(s, edits) \in Pages /\ NewPage(s, edits) # NoPage /\ NewPage(s, edits).edits = edits
<1>1. \E a, b, c, d, e, f, g : Numbers(s) \subseteq {a, b, c, d, e, f, g}
  <2>1. \E a, b, c, d, e, f, g : Current(s) \subseteq {a, b, c, d, e, f, g}
    <3>1. CASE "out" \in DOMAIN mem
      <4>1. Current(s) \subseteq {html[s], PageOf(png[s]), PageOf(ipad[s]), review[s].of,
                                  mem.page[s], PageOf(mem.out[s]), mem.review[s].of}
        BY <3>1 DEF Current
      <4> QED  BY <4>1
    <3>2. CASE "out" \notin DOMAIN mem
      <4>1. Current(s) \subseteq {html[s], PageOf(png[s]), PageOf(ipad[s]), review[s].of,
                                  html[s], html[s], html[s]}
        BY <3>2 DEF Current
      <4> QED  BY <4>1
    <3> QED  BY <3>1, <3>2
  <2>2. PICK a, b, c, d, e, f, g : Current(s) \subseteq {a, b, c, d, e, f, g}
    BY <2>1
  <2>3. Numbers(s) \subseteq {a.n, b.n, c.n, d.n, e.n, f.n, g.n}
    BY <2>2 DEF Numbers
  <2> QED  BY <2>3
<1>2. \E n \in 1..8 : n \notin Numbers(s) /\ 1..(n - 1) \subseteq Numbers(s)
  BY <1>1, FreeNumber
<1> DEFINE n == CHOOSE n \in 1..8 : n \notin Numbers(s) /\ 1..(n - 1) \subseteq Numbers(s)
<1>3. n \in 1..8
  BY <1>2
<1>4. NewPage(s, edits) = [n |-> n, edits |-> edits]
  BY DEF NewPage
<1> HIDE DEF n
<1> QED  BY <1>3, <1>4, SlidesAssumption DEF Pages, SlidesAssumption

-----------------------------------------------------------------------------
\* Every message has a first step, none of which has pages in hand.
LEMMA Starts ==
    /\ DOMAIN SlideStart = {"generate_store_assets", "regenerate_store_slide", "generate_store_slide",
                            "generate_ipad_slides"}
    /\ \A t \in DOMAIN SlideStart : SlideStart[t] \in {"gather", "edit", "draw", "reframe"}
BY DEF SlideStart

\* A task that ends has nothing in hand.
LEMMA Ends ==
    ASSUME QueueInv, pc # "idle", Return \/ Raise \/ Crash
    PROVE  pc' = "idle" /\ QueueInv'
<1>1. held \in Messages /\ [held EXCEPT !.retries = @ + 1] \in Messages
  BY DEF QueueInv, Messages
<1>2. pc' = "idle" /\ held' = NoMessage /\ requests' = requests
  BY DEF Return, Raise, Crash, Forget
<1>3. queue' \subseteq Messages
  <2>1. CASE Return
    BY <2>1 DEF Return, QueueInv
  <2>2. CASE Raise
    BY <2>2, <1>1 DEF Raise, QueueInv
  <2>3. CASE Crash
    BY <2>3, <1>1 DEF Crash, QueueInv
  <2> QED  BY <2>1, <2>2, <2>3
<1> QED  BY <1>2, <1>3 DEF QueueInv

\* A step keeps the messages.
LEMMA Goes ==
    ASSUME QueueInv, NEW from, NEW to, from # "idle", to # "idle", Step(from, to)
    PROVE  QueueInv'
BY DEF QueueInv, Step

\* A step that leaves the pages alone and has none in hand afterwards.
LEMMA Elsewhere ==
    ASSUME SlidesInv, QueueInv', html' = html, lost' = lost, pc' \notin Looping \cup Storing \cup {"putPage"}
    PROVE  SlidesInv'
BY DEF SlidesInv, FilesInv, MemInv, CarriedInv

\* A step of the loop, or out of it, that keeps each page it carries or gives it a page
\* with as many edits.
LEMMA StaysInHand ==
    ASSUME SlidesInv, QueueInv', html' = html, lost' = lost,
           pc \in Looping \cup Storing, pc' \in Looping \cup Storing,
           pc' \in Looping => InHand(mem'), pc' \in Storing => IsResult(mem'),
           mem'.carried = mem.carried, mem'.page \in [Slides -> Pages \cup {NoPage}],
           \A s \in mem.carried : mem'.page[s] # NoPage /\ mem'.page[s].edits = mem.page[s].edits
    PROVE  SlidesInv'
<1>1. FilesInv'
  BY DEF SlidesInv, FilesInv, Looping, Storing
<1>2. MemInv'
  BY DEF SlidesInv, MemInv
<1>3. CarriedInv'
  BY DEF SlidesInv, CarriedInv, EditsOf
<1> QED  BY <1>1, <1>2, <1>3 DEF SlidesInv

\* EditsOf is a number.
LEMMA EditsNat ==
    ASSUME NEW page \in Pages \cup {NoPage}
    PROVE  EditsOf(page) \in Nat /\ (page # NoPage => page \in Pages /\ EditsOf(page) = page.edits)
BY DEF EditsOf, Pages

-----------------------------------------------------------------------------
\* The restored pages are the stored ones.
LEMMA RestoreKeeps ==
    ASSUME SlidesInv, Restore
    PROVE  SlidesInv'
<1>1. PICK back \in SUBSET (Slides \cap Present(html)) :
          mem' = [originals |-> mem.originals, known |-> mem.known, attempt |-> 1, todo |-> {},
                  page |-> [s \in Slides |-> IF s \in back THEN html[s] ELSE NoPage],
                  out |-> Nothing, carried |-> back, review |-> [s \in Slides |-> Unscored]]
  BY DEF Restore, Present
<1>2. pc' = "build" /\ html' = html /\ lost' = lost
  BY DEF Restore, Step, slides, listing, slideHistory
<1>3. QueueInv'
  BY Goes DEF Restore, SlidesInv
<1>4. FilesInv'
  BY <1>2 DEF SlidesInv, FilesInv
<1>5. MemInv'
  BY <1>1, <1>2 DEF SlidesInv, FilesInv, MemInv, Looping, Storing, InHand
<1>6. \A s \in back : html[s] # NoPage /\ html[s] \in Pages
  BY DEF Present, SlidesInv, FilesInv
<1>7. \A s \in back : EditsOf(html[s]) <= html[s].edits
  BY <1>6 DEF EditsOf, Pages
<1>8. CarriedInv'
  BY <1>1, <1>2, <1>6, <1>7 DEF CarriedInv, EditsOf
<1> QED  BY <1>2, <1>3, <1>4, <1>5, <1>8 DEF SlidesInv

\* A page that is there is not authored again.
LEMMA BuildKeeps ==
    ASSUME SlidesInv, Build
    PROVE  SlidesInv'
<1>1. pc = "build" /\ InHand(mem) /\ mem.page \in [Slides -> Pages \cup {NoPage}]
  BY DEF Build, SlidesInv, MemInv, Looping
<1>2. CASE Return /\ html' = html /\ lost' = lost
  BY <1>1, <1>2, Ends, Elsewhere DEF SlidesInv, Looping, Storing
<1>3. CASE /\ Step("build", "render") /\ html' = html /\ lost' = lost
           /\ \E new \in SUBSET (mem.known \ Present(mem.page)) :
                  mem' = [mem EXCEPT !.page = With(mem.page, new, FromContract)]
  <2>1. PICK new \in SUBSET (mem.known \ Present(mem.page)) :
            mem' = [mem EXCEPT !.page = With(mem.page, new, FromContract)]
    BY <1>3
  <2>2. InHand(mem') /\ mem'.carried = mem.carried /\ mem'.page = With(mem.page, new, FromContract)
    BY <1>1, <2>1 DEF InHand
  <2>3. mem'.page = [s \in Slides |-> IF s \in new THEN NewPage(s, 0) ELSE mem.page[s]]
    BY <2>2 DEF With, FromContract
  <2>4. \A s \in Slides : NewPage(s, 0) \in Pages
    BY NewPageIsPage
  <2>5. mem'.page \in [Slides -> Pages \cup {NoPage}]
    BY <1>1, <2>3, <2>4
  <2>6. \A s \in mem.carried : mem'.page[s] = mem.page[s] /\ mem'.page[s] # NoPage
    BY <1>1, <2>3 DEF Present, SlidesInv, CarriedInv, Looping
  <2>7. QueueInv' /\ pc' = "render"
    BY <1>3, Goes DEF SlidesInv, Step
  <2> QED  BY <1>1, <1>3, <2>2, <2>5, <2>6, <2>7, StaysInHand DEF Looping, Storing
<1>4. \/ Return /\ html' = html /\ lost' = lost
      \/ /\ Step("build", "render") /\ html' = html /\ lost' = lost
         /\ \E new \in SUBSET (mem.known \ Present(mem.page)) :
                mem' = [mem EXCEPT !.page = With(mem.page, new, FromContract)]
  <2>1. PICK skipped \in SUBSET (mem.known \ Present(mem.page)) :
            IF ((mem.known \ Present(mem.page)) \ skipped) \cup Present(mem.page) = {}
            THEN GiveUp
            ELSE /\ Step("build", "render")
                 /\ mem' = [mem EXCEPT !.page = With(@, (mem.known \ Present(mem.page)) \ skipped, FromContract)]
                 /\ UNCHANGED <<listing, touched, lost>>
    BY DEF Build
  <2> QED  BY <2>1 DEF GiveUp, listing
<1> QED  BY <1>2, <1>3, <1>4

\* Renderings and verdicts change no page.
LEMMA RenderKeeps ==
    ASSUME SlidesInv, Render
    PROVE  SlidesInv'
<1>1. /\ pc \in Looping /\ InHand(mem) /\ mem.page \in [Slides -> Pages \cup {NoPage}]
      /\ Step(pc, "review") /\ html' = html /\ lost' = lost
  BY DEF Render, SlidesInv, MemInv, Looping, listing
<1>2. PICK shot : mem' = [mem EXCEPT !.todo = shot, !.out = With(mem.out, shot, Shot)]
  BY DEF Render
<1>3. InHand(mem') /\ mem'.carried = mem.carried /\ mem'.page = mem.page
  BY <1>1, <1>2 DEF InHand
<1>4. QueueInv' /\ pc' = "review"
  BY <1>1, Goes DEF SlidesInv, Step, Looping
<1> QED  BY <1>1, <1>3, <1>4, StaysInHand DEF Looping, Storing, SlidesInv, CarriedInv

LEMMA ReviewKeeps ==
    ASSUME SlidesInv, Review
    PROVE  SlidesInv'
<1>1. /\ pc = "review" /\ InHand(mem) /\ mem.page \in [Slides -> Pages \cup {NoPage}]
      /\ html' = html /\ lost' = lost
  BY DEF Review, SlidesInv, MemInv, Looping, slides, listing, slideHistory
<1>2. CASE Step("review", "refine") /\ \E scores : mem' = [mem EXCEPT !.review = scores]
  <2>1. InHand(mem') /\ mem'.carried = mem.carried /\ mem'.page = mem.page
    BY <1>1, <1>2 DEF InHand
  <2>2. QueueInv' /\ pc' = "refine"
    BY <1>2, Goes DEF SlidesInv, Step
  <2> QED  BY <1>1, <2>1, <2>2, StaysInHand DEF Looping, Storing, SlidesInv, CarriedInv
<1>3. CASE Step("review", "storePng") /\ \E scores : mem' = Result(mem.page, mem.out, scores)
  <2>1. IsResult(mem') /\ mem'.carried = mem.carried /\ mem'.page = mem.page
    BY <1>3 DEF IsResult, Result
  <2>2. QueueInv' /\ pc' = "storePng"
    BY <1>3, Goes DEF SlidesInv, Step
  <2> QED  BY <1>1, <2>1, <2>2, StaysInHand DEF Looping, Storing, SlidesInv, CarriedInv
<1> QED  BY <1>2, <1>3 DEF Review

\* An agent that edits a page leaves it the edits that it has.
LEMMA RevisedKeeps ==
    ASSUME SlidesInv, pc \in Looping, NEW set \in SUBSET Present(mem.page)
    PROVE  /\ With(mem.page, set, Revised) \in [Slides -> Pages \cup {NoPage}]
           /\ \A s \in mem.carried : /\ With(mem.page, set, Revised)[s] # NoPage
                                     /\ With(mem.page, set, Revised)[s].edits = mem.page[s].edits
<1> DEFINE page == [s \in Slides |-> IF s \in set THEN NewPage(s, EditsOf(mem.page[s])) ELSE mem.page[s]]
<1>1. With(mem.page, set, Revised) = page
  BY DEF With, Revised
<1>2. mem.page \in [Slides -> Pages \cup {NoPage}]
  BY DEF SlidesInv, MemInv
<1>3. \A s \in Slides : EditsOf(mem.page[s]) \in Nat /\ (mem.page[s] # NoPage => EditsOf(mem.page[s]) = mem.page[s].edits)
  BY <1>2, EditsNat
<1>4. \A s \in Slides : /\ NewPage(s, EditsOf(mem.page[s])) \in Pages
                        /\ NewPage(s, EditsOf(mem.page[s])) # NoPage
                        /\ NewPage(s, EditsOf(mem.page[s])).edits = EditsOf(mem.page[s])
  BY <1>3, NewPageIsPage
<1>5. page \in [Slides -> Pages \cup {NoPage}]
  BY <1>2, <1>4
<1>6. \A s \in mem.carried : s \in Slides /\ mem.page[s] # NoPage
  BY DEF SlidesInv, CarriedInv
<1>7. \A s \in mem.carried : page[s] # NoPage /\ page[s].edits = mem.page[s].edits
  BY <1>3, <1>4, <1>6
<1> HIDE DEF page
<1> QED  BY <1>1, <1>5, <1>7

LEMMA RefineKeeps ==
    ASSUME SlidesInv, Refine
    PROVE  SlidesInv'
<1>1. pc = "refine" /\ Step("refine", "rerender") /\ InHand(mem) /\ html' = html /\ lost' = lost
  BY DEF Refine, Step, SlidesInv, MemInv, Looping, slides, listing, slideHistory
<1>2. PICK set \in SUBSET Present(mem.page) :
          mem' = [mem EXCEPT !.page = With(mem.page, set, Revised), !.attempt = mem.attempt + 1]
  BY DEF Refine
<1>3. InHand(mem') /\ mem'.carried = mem.carried /\ mem'.page = With(mem.page, set, Revised)
  BY <1>1, <1>2 DEF InHand
<1>4. QueueInv' /\ pc' = "rerender"
  BY <1>1, Goes DEF SlidesInv, Step
<1> QED  BY <1>1, <1>3, <1>4, RevisedKeeps, StaysInHand DEF Looping, Storing

LEMMA LoopFailsKeeps ==
    ASSUME SlidesInv, LoopFails
    PROVE  SlidesInv'
<1>1. /\ pc \in Looping /\ Step(pc, "storePng") /\ html' = html /\ lost' = lost
      /\ mem.page \in [Slides -> Pages \cup {NoPage}]
  BY DEF LoopFails, SlidesInv, MemInv, Looping, listing
<1>2. PICK set \in SUBSET Present(mem.page) :
          mem' = Result(IF pc = "refine" THEN With(mem.page, set, Revised) ELSE mem.page,
                        IF pc = "rerender" THEN With(mem.out, set, Shot) ELSE mem.out, mem.review)
  BY DEF LoopFails
<1>3. IsResult(mem') /\ mem'.carried = mem.carried
      /\ (mem'.page = With(mem.page, set, Revised) \/ mem'.page = mem.page)
  BY <1>2 DEF IsResult, Result
<1>4. QueueInv' /\ pc' = "storePng"
  BY <1>1, Goes DEF SlidesInv, Step, Looping
<1>5. CASE mem'.page = mem.page
  BY <1>1, <1>3, <1>4, <1>5, StaysInHand DEF Looping, Storing, SlidesInv, CarriedInv
<1>6. CASE mem'.page = With(mem.page, set, Revised)
  BY <1>1, <1>3, <1>4, <1>6, RevisedKeeps, StaysInHand DEF Looping, Storing
<1> QED  BY <1>3, <1>5, <1>6

-----------------------------------------------------------------------------
LEMMA StorePngKeeps ==
    ASSUME SlidesInv, StorePng
    PROVE  SlidesInv'
<1>1. /\ pc = "storePng" /\ IsResult(mem) /\ mem.page \in [Slides -> Pages \cup {NoPage}]
      /\ html' = html /\ lost' = lost
  BY DEF StorePng, SlidesInv, MemInv, Storing, slideHistory
<1>2. PICK to \in Storing : Step("storePng", to) /\ to # "idle"
  BY DEF StorePng, Storing
<1>3. IsResult(mem') /\ mem'.carried = mem.carried /\ mem'.page = mem.page
  BY <1>1 DEF StorePng, IsResult
<1>4. QueueInv' /\ pc' \in Storing
  BY <1>2, Goes DEF SlidesInv, Step
<1> QED  BY <1>1, <1>3, <1>4, StaysInHand DEF Looping, Storing, SlidesInv, CarriedInv

\* A page that is carried over replaces one with as many edits, at most.
LEMMA StorePageKeeps ==
    ASSUME SlidesInv, StorePage
    PROVE  SlidesInv'
<1>1. /\ pc = "storePage" /\ IsResult(mem) /\ mem.page \in [Slides -> Pages \cup {NoPage}]
      /\ html \in [Slides -> Pages \cup {NoPage}] /\ lost = {}
      /\ mem.carried \subseteq Slides
      /\ \A t \in mem.carried : mem.page[t] # NoPage /\ EditsOf(html[t]) <= mem.page[t].edits
  BY DEF StorePage, SlidesInv, FilesInv, MemInv, CarriedInv, Storing
<1>2. CASE mem.todo = {}
  <2>1. Step("storePage", "storeContracts") /\ UNCHANGED <<html, lost>>
    BY <1>2 DEF StorePage
  <2> QED  BY <2>1, Goes, Elsewhere DEF SlidesInv, Step, Looping, Storing
<1>3. CASE mem.todo # {}
  <2> DEFINE s == First(mem.todo)
  <2>1. /\ Step("storePage", "storePage") /\ html' = [html EXCEPT ![s] = mem.page[s]]
        /\ lost' = lost \cup {t \in mem.carried \cap {s} : mem.page[s].edits < EditsOf(html[s])}
        /\ mem' = [mem EXCEPT !.todo = @ \ {s}]
    BY <1>3 DEF StorePage
  <2> HIDE DEF s
  <2>2. IsResult(mem') /\ mem'.carried = mem.carried /\ mem'.page = mem.page
    BY <1>1, <2>1 DEF IsResult
  <2>3. QueueInv' /\ pc' = "storePage"
    BY <2>1, Goes DEF SlidesInv, Step
  <2>4. html' \in [Slides -> Pages \cup {NoPage}]
    BY <1>1, <2>1
  <2>5. \A t \in Slides : EditsOf(mem.page[t]) \in Nat /\ EditsOf(html[t]) \in Nat
                          /\ (mem.page[t] # NoPage => EditsOf(mem.page[t]) = mem.page[t].edits)
    BY <1>1, EditsNat
  <2>6. \A t \in mem.carried : EditsOf(html'[t]) <= mem.page[t].edits
    BY <1>1, <2>1, <2>5
  <2>7. lost' = {}
    BY <1>1, <2>1, <2>5
  <2>8. FilesInv' /\ MemInv'
    BY <1>1, <2>2, <2>3, <2>4 DEF FilesInv, MemInv, Looping, Storing
  <2>9. CarriedInv'
    BY <1>1, <2>2, <2>6 DEF CarriedInv, EditsOf
  <2> QED  BY <2>3, <2>7, <2>8, <2>9 DEF SlidesInv
<1> QED  BY <1>2, <1>3

\* The operator's edit of a page is a page.
LEMMA EditKeeps ==
    ASSUME SlidesInv, EditSlide \/ Unread \/ EditUnseen \/ PutPage
    PROVE  SlidesInv'
<1>1. html \in [Slides -> Pages \cup {NoPage}]
  BY DEF SlidesInv, FilesInv
<1>2. CASE EditSlide
  <2>1. pc = "edit" /\ html' = html /\ lost' = lost
    BY <1>2 DEF EditSlide, slides, listing, slideHistory
  <2>2. CASE Return
    BY <2>1, <2>2, Ends, Elsewhere DEF SlidesInv, Looping, Storing
  <2>3. CASE html[Slide] # NoPage /\ Step("edit", "putPage") /\ mem' = [edited |-> NewPage(Slide, html[Slide].edits + 1)]
    <3>1. pc' = "putPage" /\ held' = held /\ QueueInv'
      BY <2>3, Goes DEF Step, SlidesInv
    <3>2. Slide \in Slides => html[Slide].edits + 1 \in Nat
      BY <1>1, <2>3 DEF Pages
    <3>3. Slide \in Slides => mem'.edited \in Pages
      BY <2>3, <3>2, NewPageIsPage
    <3> QED  BY <2>1, <3>1, <3>3 DEF SlidesInv, FilesInv, MemInv, CarriedInv, Looping, Storing, Slide
  <2> QED  BY <1>2, <2>2, <2>3 DEF EditSlide
<1>3. CASE Unread \/ EditUnseen
  BY <1>3, Ends, Elsewhere DEF Unread, EditUnseen, GiveUp, listing, SlidesInv, Looping, Storing
<1>4. CASE PutPage
  <2>1. /\ pc = "putPage" /\ pc' = "putPng" /\ QueueInv' /\ lost' = lost
        /\ html' = [html EXCEPT ![Slide] = mem.edited]
    BY <1>4, Goes DEF PutPage, Step, SlidesInv
  <2>2. html' \in [Slides -> Pages \cup {NoPage}]
    BY <1>1, <2>1 DEF SlidesInv, FilesInv
  <2> QED  BY <2>1, <2>2 DEF SlidesInv, FilesInv, MemInv, CarriedInv, Looping, Storing
<1> QED  BY <1>2, <1>3, <1>4

\* The image engine has no pages.
LEMMA DrawKeeps ==
    ASSUME SlidesInv, Draw
    PROVE  SlidesInv'
<1>1. pc = "engine" /\ html' = html /\ lost' = lost
  BY DEF Draw, GiveUp, listing
<1>2. CASE Return
  BY <1>1, <1>2, Ends, Elsewhere DEF SlidesInv, Looping, Storing
<1>3. CASE /\ Step("engine", "storePng")
           /\ \E done : mem' = [originals |-> mem.originals, todo |-> done, page |-> Nothing,
                                out |-> With(Nothing, done, NewDrawing), carried |-> {},
                                review |-> [s \in Slides |-> Unscored]]
  <2>1. IsResult(mem') /\ mem'.carried = {} /\ mem'.page = [s \in Slides |-> NoPage]
    BY <1>3 DEF IsResult, Nothing
  <2>2. QueueInv' /\ pc' = "storePng"
    BY <1>3, Goes DEF SlidesInv, Step
  <2> QED  BY <1>1, <2>1, <2>2 DEF SlidesInv, FilesInv, MemInv, CarriedInv, Looping, Storing
<1> QED  BY <1>2, <1>3 DEF Draw, GiveUp

\* The other steps of a task leave the pages alone.
LEMMA OtherTasksKeep ==
    ASSUME SlidesInv,
           \/ Gather \/ Analyse \/ StoreContracts \/ StoreReview \/ PutPng \/ DrawSlide \/ Reframe \/ SlideTaskFails
    PROVE  SlidesInv'
<1>1. html' = html /\ lost' = lost
  BY DEF Gather, Analyse, StoreContracts, StoreReview, PutPng, DrawSlide, Reframe, SlideTaskFails,
         slides, listing, slideHistory
<1>2. ASSUME pc # "idle", Return \/ Raise PROVE SlidesInv'
  BY <1>1, <1>2, Ends, Elsewhere DEF SlidesInv, Looping, Storing
<1>3. ASSUME NEW from, NEW to, from # "idle", to # "idle", Step(from, to), to \notin Looping \cup Storing \cup {"putPage"}
      PROVE  SlidesInv'
  <2>1. QueueInv' /\ pc' = to
    BY <1>3, Goes DEF SlidesInv, Step
  <2> QED  BY <1>1, <1>3, <2>1, Elsewhere
<1>4. CASE Gather \/ Analyse
  BY <1>2, <1>3, <1>4 DEF Gather, Analyse, Looping, Storing
<1>5. CASE StoreContracts \/ StoreReview \/ PutPng \/ DrawSlide
  BY <1>2, <1>3, <1>5 DEF StoreContracts, StoreReview, PutPng, DrawSlide, Looping, Storing
<1>6. CASE Reframe
  BY <1>2, <1>3, <1>6 DEF Reframe, Looping, Storing
<1>7. CASE SlideTaskFails
  BY <1>2, <1>7 DEF SlideTaskFails
<1> QED  BY <1>4, <1>5, <1>6, <1>7

\* Requests and deliveries.
LEMMA RequestsKeep ==
    ASSUME SlidesInv, (Deliver(SlideStart) /\ UNCHANGED slides) \/ SlideRequest \/ DeleteSlide
    PROVE  SlidesInv'
<1>1. html' = html /\ lost' = lost
  BY DEF SlideRequest, DeleteSlide, slides, listing, slideHistory
<1>2. CASE Deliver(SlideStart) /\ UNCHANGED slides
  <2>1. PICK m \in queue : held' = m /\ queue' = queue \ {m} /\ pc' = SlideStart[m.task]
    BY <1>2 DEF Deliver
  <2>2. m \in Messages /\ requests' = requests
    BY <1>2, <2>1 DEF SlidesInv, QueueInv, Deliver, budget
  <2>3. pc' \in {"gather", "edit", "draw", "reframe"}
    BY <2>1, <2>2, Starts DEF Messages
  <2>4. QueueInv'
    <3>1. queue' \subseteq Messages /\ held' \in Messages /\ requests' \in Nat
      BY <2>1, <2>2 DEF SlidesInv, QueueInv
    <3> QED  BY <2>3, <3>1 DEF QueueInv
  <2> QED  BY <1>1, <2>3, <2>4, Elsewhere DEF Looping, Storing
<1>3. CASE SlideRequest
  <2>1. PICK task \in DOMAIN SlideStart, arg \in Slides \cup {0} : Enqueue(task, arg)
    BY <1>3, Starts DEF SlideRequest
  <2>2. arg \in Nat /\ requests' \in Nat
    BY <2>1, SlidesAssumption DEF SlidesAssumption, Enqueue, Visit, SlidesInv, QueueInv
  <2>3. queue' \subseteq Messages
    BY <2>1, <2>2 DEF Enqueue, Messages, SlidesInv, QueueInv
  <2>4. UNCHANGED <<held, pc, mem>>
    BY <2>1 DEF Enqueue
  <2> QED  BY <1>1, <2>2, <2>3, <2>4 DEF SlidesInv, QueueInv, FilesInv, MemInv, CarriedInv, Slide
<1>4. CASE DeleteSlide
  <2>1. UNCHANGED <<queue, held, pc, mem>> /\ requests' \in Nat
    BY <1>4 DEF DeleteSlide, Visit, SlidesInv, QueueInv
  <2> QED  BY <1>1, <2>1 DEF SlidesInv, QueueInv, FilesInv, MemInv, CarriedInv, Slide
<1> QED  BY <1>2, <1>3, <1>4

-----------------------------------------------------------------------------
\* The invariant is inductive.
THEOREM SlidesCorrect == Spec => []SlidesInv
<1>1. Init => SlidesInv
  <2> SUFFICES ASSUME Init PROVE SlidesInv
    OBVIOUS
  <2>1. queue = {} /\ pc = "idle" /\ held = NoMessage /\ requests = 0 /\ lost = {}
    BY DEF Init, WorkerInit
  <2>2. html \in [Slides -> Pages \cup {NoPage}]
    BY DEF Init, Nothing, Pages
  <2> QED  BY <2>1, <2>2 DEF SlidesInv, QueueInv, FilesInv, MemInv, CarriedInv, Looping, Storing
<1>2. SlidesInv /\ [Next]_vars => SlidesInv'
  <2>1. ASSUME SlidesInv, Crash /\ UNCHANGED slides PROVE SlidesInv'
    <3>1. html' = html /\ lost' = lost
      BY <2>1 DEF slides, listing, slideHistory
    <3>2. pc # "idle"
      BY <2>1 DEF SlidesInv, QueueInv, Crash
    <3> QED  BY <2>1, <3>1, <3>2, Ends, Elsewhere DEF SlidesInv, Looping, Storing
  <2>2. ASSUME SlidesInv, SlideTask PROVE SlidesInv'
    BY <2>2, RestoreKeeps, BuildKeeps, RenderKeeps, ReviewKeeps, RefineKeeps, LoopFailsKeeps, StorePngKeeps,
       StorePageKeeps, EditKeeps, DrawKeeps, OtherTasksKeep DEF SlideTask
  <2>3. ASSUME SlidesInv, UNCHANGED vars PROVE SlidesInv'
    BY <2>3 DEF vars, worker, budget, slides, listing, slideHistory, SlidesInv, QueueInv, FilesInv, MemInv, CarriedInv, Slide
  <2> QED  BY <2>1, <2>2, <2>3, RequestsKeep DEF Next
<1> QED  BY <1>1, <1>2, PTL DEF Spec

\* A listing never loses an edit of a page that it carries over (generate_store_assets with
\* restore_pages, build_slide_pages, refine_slides and _store_slides).
THEOREM PassedEditsAlways == Spec => []PassedEditsKept
<1>1. SlidesInv => PassedEditsKept
  BY DEF SlidesInv, PassedEditsKept
<1> QED  BY <1>1, SlidesCorrect, PTL

-----------------------------------------------------------------------------
(***************************************************************************)
(* What belongs together.                                                  *)
(***************************************************************************)
ListingStages == {"gather", "analyse", "engine", "build", "render", "review", "refine", "rerender",
                  "storePng", "storePage", "storeContracts", "storeReview"}
EditStages    == {"edit", "putPage", "putPng"}

\* The picture shows the page, if it is the rendering of one; the score is that of the page.
Shows(picture, page) == picture # NoPage /\ ~picture.drawn => picture.of = page
Judges(score, page)  == score # Unscored => score.of = page

StageInv ==
    /\ png = [s \in Slides |-> png[s]]
    /\ pc \in ListingStages => held.task = "generate_store_assets"
    /\ pc \in EditStages => held.task = "regenerate_store_slide"
    /\ pc \in {"draw", "reframe"} =>
          held.task \notin {"generate_store_assets", "regenerate_store_slide"}
    /\ pc = "analyse" => mem = [originals |-> mem.originals, known |-> mem.known]

\* What a listing has in hand while nothing has been swallowed.
Building ==
    /\ pc \in {"analyse", "engine"} => mem.originals = Slides
    /\ pc \in {"engine", "build"} => Slides \subseteq mem.known
    /\ pc \in {"render", "review", "refine", "rerender"} => Present(mem.page) = Slides
    /\ pc = "review" => mem.todo = Slides /\ \A s \in Slides : mem.out[s] = PictureOf(mem.page[s])

\* The page that slide s has when the listing in hand is stored.
PageToBe(s) == IF s \in (IF pc = "storePng" THEN Present(mem.page) ELSE mem.todo)
               THEN mem.page[s] ELSE html[s]

Putting ==
    /\ pc = "storePage" => mem.todo \subseteq Slides
    /\ pc \in {"storePng", "storePage"} => \A s \in Slides :
          /\ Judges(mem.review[s], PageToBe(s))
          /\ pc = "storePng" => Shows(mem.out[s], PageToBe(s))
          /\ (pc = "storePng" /\ s \in mem.todo) \/ Shows(png[s], PageToBe(s))
    /\ pc \in {"storeContracts", "storeReview"} => \A s \in Slides :
          Shows(png[s], html[s]) /\ Judges(mem.review[s], html[s])
    /\ pc = "putPng" /\ Slide \in Slides => html[Slide] = mem.edited

Listings == {m \in Outstanding : m.task = "generate_store_assets"}
EditsOfSlide(s) == {m \in Outstanding : m.task = "regenerate_store_slide" /\ m.arg = s}

\* What does not belong together is put right: by a listing, or by the edit that has
\* changed the page.
Repaired ==
    \A s \in Slides :
        /\ Shows(png[s], html[s]) \/ Listings # {} \/ (EditsOfSlide(s) # {} /\ html[s] # NoPage)
        /\ s \in touched \/ Judges(review[s], html[s]) \/ Listings # {}

HangInv == StageInv /\ (dead = {} /\ ~swallowed => Building /\ Putting /\ Repaired)

\* A step that leaves the files alone, or makes pictures that are no renderings, and keeps
\* the messages.
LEMMA RepairedStays ==
    ASSUME Repaired, UNCHANGED <<html, review>>, touched \subseteq touched',
           \A s \in Slides : png'[s] = png[s] \/ Shows(png'[s], html[s]),
           Listings # {} => Listings' # {},
           \A s \in Slides : EditsOfSlide(s) # {} => EditsOfSlide(s)' # {}
    PROVE  Repaired'
BY DEF Repaired

\* While a listing is at work, it is what will put everything right.
LEMMA InListing ==
    ASSUME QueueInv', StageInv', pc' \in ListingStages
    PROVE  Repaired'
<1>1. held' \in Messages /\ held'.task = "generate_store_assets"
  BY DEF QueueInv, StageInv, ListingStages
<1>2. held' # NoMessage
  BY <1>1, MessagesAssumption DEF MessagesAssumption
<1>3. held' \in Listings'
  BY <1>1, <1>2 DEF Listings, Outstanding
<1> QED  BY <1>3 DEF Repaired

\* A task that fails or dies leaves its message, or is dead.
LEMMA Again ==
    ASSUME QueueInv, pc # "idle", (Raise /\ dead' = {}) \/ Crash
    PROVE  /\ Listings # {} => Listings' # {}
           /\ \A s \in Slides : EditsOfSlide(s) # {} => EditsOfSlide(s)' # {}
<1>1. held \in Messages /\ held # NoMessage
  BY MessagesAssumption DEF QueueInv, MessagesAssumption
<1>2. PICK m : queue' = queue \cup {m} /\ m.task = held.task /\ m.arg = held.arg
  <2>1. CASE Crash
    BY <2>1 DEF Crash
  <2>2. CASE Raise /\ dead' = {}
    <3> DEFINE m == [held EXCEPT !.retries = held.retries + 1]
    <3>1. queue' = queue \cup {m}
      BY <2>2 DEF Raise
    <3>2. m.task = held.task /\ m.arg = held.arg
      BY <1>1 DEF Messages
    <3> HIDE DEF m
    <3> QED  BY <3>1, <3>2
  <2> QED  BY <2>1, <2>2
<1>3. Outstanding = queue \cup {held} /\ Outstanding' = queue \cup {m}
  BY <1>1, <1>2 DEF Outstanding, Raise, Crash, Forget
<1> QED  BY <1>2, <1>3 DEF Listings, EditsOfSlide

\* The messages of a task that goes on.
LEMMA SameMessages ==
    ASSUME UNCHANGED <<queue, held>>
    PROVE  Listings' = Listings /\ \A s : EditsOfSlide(s)' = EditsOfSlide(s)
BY DEF Listings, EditsOfSlide, Outstanding

\* A task that fails or dies outside the loop.
LEMMA HangAgain ==
    ASSUME SlidesInv, HangInv, UNCHANGED slides, pc # "idle", Raise \/ Crash
    PROVE  HangInv'
<1>1. pc' = "idle" /\ dead \subseteq dead' /\ UNCHANGED <<html, png, review, touched, swallowed>>
  BY DEF Raise, Crash, Forget, slides, listing, slideHistory
<1>2. StageInv'
  BY <1>1 DEF HangInv, StageInv, ListingStages, EditStages
<1>3. Building' /\ Putting'
  BY <1>1 DEF Building, Putting
<1>4. ASSUME dead' = {}, ~swallowed' PROVE Repaired'
  <2>1. Repaired
    BY <1>1, <1>4 DEF HangInv
  <2> QED  BY <1>1, <1>4, <2>1, Again, RepairedStays DEF SlidesInv
<1> QED  BY <1>2, <1>3, <1>4 DEF HangInv

\* A step of a listing that goes on.
LEMMA HangGoesOn ==
    ASSUME SlidesInv, SlidesInv', HangInv, NEW from \in ListingStages, NEW to \in ListingStages,
           Step(from, to), png' = [s \in Slides |-> png'[s]], swallowed => swallowed',
           to = "analyse" => mem' = [originals |-> mem'.originals, known |-> mem'.known],
           ~swallowed' /\ Building /\ Putting => Building' /\ Putting'
    PROVE  HangInv'
<1>1. pc = from /\ pc' = to /\ held' = held /\ dead' = dead
  BY DEF Step
<1>2. StageInv'
  BY <1>1 DEF HangInv, StageInv, ListingStages, EditStages
<1>3. Repaired'
  BY <1>1, <1>2, InListing DEF SlidesInv
<1> QED  BY <1>1, <1>2, <1>3 DEF HangInv

\* A message that gives up has swallowed its failure.
LEMMA HangGivesUp ==
    ASSUME HangInv, GiveUp
    PROVE  HangInv'
<1>1. pc' = "idle" /\ swallowed' = TRUE /\ png' = png
  BY DEF GiveUp, Return, Forget, listing
<1>2. StageInv'
  BY <1>1 DEF HangInv, StageInv, ListingStages, EditStages
<1> QED  BY <1>1, <1>2 DEF HangInv

LEMMA HangGather ==
    ASSUME SlidesInv, SlidesInv', HangInv, Gather \/ Analyse \/ Draw \/ Restore
    PROVE  HangInv'
<1>a. UNCHANGED <<html, png, review, touched>> /\ (swallowed => swallowed')
  <2>1. CASE Gather
    BY <2>1 DEF Gather, listing
  <2>2. CASE Analyse \/ Restore
    BY <2>2 DEF Analyse, Restore, slides, listing, slideHistory
  <2>3. CASE Draw
    BY <2>3 DEF Draw, GiveUp, listing
  <2> QED  BY <2>1, <2>2, <2>3
<1>0. /\ UNCHANGED <<html, png, review, touched>> /\ (swallowed => swallowed')
      /\ Slides # {} /\ png = [s \in Slides |-> png[s]]
  BY <1>a, SlidesAssumption DEF SlidesAssumption, HangInv, StageInv
<1>1. CASE Raise /\ Gather
  <2>1. pc' = "idle" /\ dead \subseteq dead' /\ pc # "idle"
    BY <1>1 DEF Raise, Forget, Gather
  <2>2. StageInv'
    BY <1>0, <2>1 DEF HangInv, StageInv, ListingStages, EditStages
  <2>3. Building' /\ Putting'
    BY <2>1 DEF Building, Putting
  <2>4. ASSUME dead' = {}, ~swallowed' PROVE Repaired'
    <3>1. Repaired
      BY <1>0, <2>1, <2>4 DEF HangInv
    <3> QED  BY <1>0, <1>1, <2>1, <2>4, <3>1, Again, RepairedStays DEF SlidesInv
  <2> QED  BY <2>2, <2>3, <2>4 DEF HangInv
<1>2. CASE Raise /\ Analyse
  BY <1>2, HangAgain DEF Analyse
<1>3. CASE Gather /\ ~Raise
  <2>1. PICK to \in {"engine", "analyse"}, originals \in SUBSET Slides :
           /\ Step("gather", to) /\ (to = "engine" => originals \subseteq contracts)
           /\ mem' = [originals |-> originals, known |-> contracts]
           /\ swallowed' = (swallowed \/ originals # Slides)
    BY <1>3 DEF Gather
  <2>2. pc' = to
    BY <2>1 DEF Step
  <2>3. ~swallowed' => Building' /\ Putting'
    BY <2>1, <2>2 DEF Building, Putting
  <2> QED  BY <1>0, <2>1, <2>3, HangGoesOn DEF ListingStages
<1>4. CASE Analyse /\ ~Raise
  <2>1. /\ pc = "analyse" /\ Step("analyse", "engine") /\ pc' = "engine"
        /\ mem' = [mem EXCEPT !.known = mem.known \cup mem.originals]
    BY <1>4 DEF Analyse, Step
  <2>2. mem' = [originals |-> mem.originals, known |-> mem.known \cup mem.originals]
    BY <2>1 DEF HangInv, StageInv
  <2>3. Building => Building' /\ Putting'
    BY <2>1, <2>2 DEF Building, Putting
  <2> QED  BY <1>0, <2>1, <2>3, HangGoesOn DEF ListingStages
<1>5. CASE Draw /\ ~GiveUp
  <2>1. PICK failed \in SUBSET mem.originals :
           /\ Step("engine", "storePng")
           /\ mem' = [originals |-> mem.originals, todo |-> mem.originals \ failed, page |-> Nothing,
                      out |-> With(Nothing, mem.originals \ failed, NewDrawing), carried |-> {},
                      review |-> [s \in Slides |-> Unscored]]
           /\ swallowed' = (swallowed \/ failed # {})
    BY <1>5 DEF Draw
  <2>2. pc = "engine" /\ pc' = "storePng" /\ html' = html
    BY <1>0, <2>1 DEF Step
  <2>3. ASSUME ~swallowed', Building PROVE Building' /\ Putting'
    <3>1. mem.originals \ failed = Slides
      BY <2>1, <2>2, <2>3 DEF Building
    <3>2. /\ mem'.todo = Slides /\ \A s \in Slides : mem'.out[s] = NewDrawing(s) /\ mem'.page[s] = NoPage
          /\ mem'.review = [s \in Slides |-> Unscored]
      BY <2>1, <3>1 DEF With, Nothing
    <3>a. \A s \in Slides : NewDrawing(s).drawn = TRUE
      BY DEF NewDrawing
    <3>3. \A s \in Slides : \A page : Shows(mem'.out[s], page)
      BY <3>2, <3>a DEF Shows
    <3> QED  BY <2>2, <3>2, <3>3 DEF Building, Putting, Judges
  <2> QED  BY <1>0, <2>1, <2>3, HangGoesOn DEF ListingStages
<1>6. CASE Restore
  <2>1. Step("engine", "build") /\ mem'.known = mem.known /\ pc = "engine" /\ pc' = "build"
    BY <1>6 DEF Restore, Step
  <2>2. Building => Building' /\ Putting'
    BY <2>1 DEF Building, Putting
  <2> QED  BY <1>0, <2>1, <2>2, HangGoesOn DEF ListingStages
<1>7. CASE GiveUp
  BY <1>7, HangGivesUp
<1> QED  BY <1>1, <1>2, <1>3, <1>4, <1>5, <1>6, <1>7

\* Pages and pictures of the loop.
LEMMA HangLoop ==
    ASSUME SlidesInv, SlidesInv', HangInv, Build \/ Render \/ Review \/ Refine \/ LoopFails
    PROVE  HangInv'
<1>a. UNCHANGED <<html, png, review, touched>> /\ (swallowed => swallowed')
  <2>1. CASE Build \/ Render \/ LoopFails
    BY <2>1 DEF Build, Render, LoopFails, GiveUp, listing
  <2>2. CASE Review
    <3>1. UNCHANGED slides
      BY <2>2 DEF Review
    <3> QED  BY <3>1 DEF slides, listing, slideHistory
  <2>3. CASE Refine
    <3>1. UNCHANGED slides
      BY <2>3 DEF Refine
    <3> QED  BY <3>1 DEF slides, listing, slideHistory
  <2> QED  BY <2>1, <2>2, <2>3
<1>b. /\ pc \in Looping /\ InHand(mem) /\ mem.page \in [Slides -> Pages \cup {NoPage}]
      /\ png' = [s \in Slides |-> png'[s]]
  BY <1>a DEF Build, Render, Review, Refine, LoopFails, Step, SlidesInv, MemInv, Looping, HangInv, StageInv
<1>c. Looping \subseteq ListingStages /\ "storePng" \in ListingStages /\ "analyse" \notin Looping
  BY DEF Looping, ListingStages
<1>1. CASE Build /\ ~GiveUp
  <2>1. PICK skipped \in SUBSET (mem.known \ Present(mem.page)) :
           /\ Step("build", "render")
           /\ mem' = [mem EXCEPT !.page = With(mem.page, (mem.known \ Present(mem.page)) \ skipped, FromContract)]
           /\ swallowed' = (swallowed \/ skipped # {})
    BY <1>1 DEF Build
  <2>2. pc = "build" /\ pc' = "render"
    BY <2>1 DEF Step
  <2>3. ASSUME ~swallowed', Building PROVE Building' /\ Putting'
    <3>1. Slides \subseteq mem.known /\ skipped = {}
      BY <2>1, <2>2, <2>3 DEF Building
    <3>2. mem'.page = [s \in Slides |-> IF s \in mem.known \ Present(mem.page) THEN NewPage(s, 0) ELSE mem.page[s]]
      BY <1>b, <2>1, <3>1 DEF InHand, With, FromContract
    <3>3. \A s \in Slides : NewPage(s, 0) # NoPage
      BY NewPageIsPage
    <3>4. Present(mem'.page) = Slides
      BY <3>1, <3>2, <3>3 DEF Present
    <3> QED  BY <2>2, <3>4 DEF Building, Putting
  <2> QED  BY <1>a, <1>b, <1>c, <2>1, <2>3, HangGoesOn DEF Looping
<1>2. CASE Render
  <2>1. PICK missed \in SUBSET Present(mem.page) :
           /\ mem' = [mem EXCEPT !.todo = Present(mem.page) \ missed,
                                 !.out = With(mem.out, Present(mem.page) \ missed, Shot)]
           /\ swallowed' = (swallowed \/ missed # {})
    BY <1>2 DEF Render
  <2>2. pc \in {"render", "rerender"} /\ Step(pc, "review") /\ pc' = "review"
    BY <1>2 DEF Render, Step
  <2>3. ASSUME ~swallowed', Building PROVE Building' /\ Putting'
    <3>1. Present(mem.page) = Slides /\ missed = {}
      BY <2>1, <2>2, <2>3 DEF Building
    <3>2. /\ mem'.page = mem.page /\ mem'.todo = Slides
          /\ mem'.out = [s \in Slides |-> IF s \in Slides THEN PictureOf(mem.page[s]) ELSE mem.out[s]]
      BY <1>b, <2>1, <3>1 DEF InHand, With, Shot
    <3>3. \A s \in Slides : mem'.out[s] = PictureOf(mem'.page[s])
      BY <3>2
    <3> QED  BY <2>2, <3>1, <3>2, <3>3 DEF Building, Putting
  <2> QED  BY <1>a, <1>b, <1>c, <2>2, <2>3, HangGoesOn DEF Looping
<1>3. CASE Review
  <2>1. PICK seen :
           \/ Step("review", "refine") /\ mem' = [mem EXCEPT !.review = Verdicts(seen)]
           \/ Step("review", "storePng") /\ mem' = Result(mem.page, mem.out, Verdicts(seen))
    BY <1>3 DEF Review
  <2>2. CASE Step("review", "refine") /\ mem' = [mem EXCEPT !.review = Verdicts(seen)]
    <3>1. pc = "review" /\ pc' = "refine" /\ mem'.page = mem.page
      BY <1>b, <2>2 DEF Step, InHand
    <3>2. Building => Building' /\ Putting'
      BY <3>1 DEF Building, Putting
    <3> QED  BY <1>a, <1>b, <1>c, <2>2, <3>2, HangGoesOn DEF Looping
  <2>3. CASE Step("review", "storePng") /\ mem' = Result(mem.page, mem.out, Verdicts(seen))
    <3>1. /\ pc = "review" /\ pc' = "storePng"
          /\ mem'.page = mem.page /\ mem'.todo = mem.todo /\ mem'.out = mem.out
          /\ mem'.review = Verdicts(seen)
      BY <2>3 DEF Step, Result
    <3>2. ASSUME Building PROVE Building' /\ Putting'
      <4>1. Present(mem.page) = Slides /\ mem.todo = Slides /\ \A s \in Slides : mem.out[s] = PictureOf(mem.page[s])
        BY <3>1, <3>2 DEF Building
      <4>2. \A s \in Slides : PageToBe(s)' = mem.page[s]
        BY <3>1, <4>1 DEF PageToBe
      <4>0. \A page : PictureOf(page).of = page
        BY DEF PictureOf
      <4>3. \A s \in Slides : Shows(mem.out[s], mem.page[s])
        BY <4>0, <4>1 DEF Shows
      <4>4. \A s \in Slides : Judges(Verdicts(seen)[s], mem.page[s])
        <5>1. \A s \in Slides : mem.out[s].of = mem.page[s]
          BY <4>0, <4>1
        <5>2. \A s \in Slides : Verdicts(seen)[s] = Unscored \/ Verdicts(seen)[s].of = mem.out[s].of
          BY DEF Verdicts
        <5> QED  BY <5>1, <5>2 DEF Judges
      <4> QED  BY <3>1, <4>1, <4>2, <4>3, <4>4 DEF Building, Putting
    <3> QED  BY <1>a, <1>b, <1>c, <2>3, <3>2, HangGoesOn DEF Looping
  <2> QED  BY <2>1, <2>2, <2>3
<1>4. CASE Refine
  <2>1. PICK set \in SUBSET Present(mem.page) :
           mem' = [mem EXCEPT !.page = With(mem.page, set, Revised), !.attempt = mem.attempt + 1]
    BY <1>4 DEF Refine
  <2>2. Step("refine", "rerender") /\ pc = "refine" /\ pc' = "rerender"
    BY <1>4 DEF Refine, Step
  <2>3. ASSUME Building PROVE Building' /\ Putting'
    <3>1. Present(mem.page) = Slides
      BY <2>2, <2>3 DEF Building
    <3>2. mem'.page = [s \in Slides |-> IF s \in set THEN NewPage(s, EditsOf(mem.page[s])) ELSE mem.page[s]]
      BY <1>b, <2>1 DEF InHand, With, Revised
    <3>3. \A s \in Slides : NewPage(s, EditsOf(mem.page[s])) # NoPage
      <4>1. \A s \in Slides : EditsOf(mem.page[s]) \in Nat
        BY <1>b, EditsNat
      <4> QED  BY <4>1, NewPageIsPage
    <3>4. Present(mem'.page) = Slides
      BY <3>1, <3>2, <3>3 DEF Present
    <3> QED  BY <2>2, <3>4 DEF Building, Putting
  <2> QED  BY <1>a, <1>b, <1>c, <2>2, <2>3, HangGoesOn DEF Looping
<1>5. CASE LoopFails
  <2>1. Step(pc, "storePng") /\ swallowed'
    BY <1>5 DEF LoopFails
  <2> QED  BY <1>a, <1>b, <1>c, <2>1, HangGoesOn
<1>6. CASE GiveUp
  BY <1>6, HangGivesUp
<1> QED  BY <1>1, <1>2, <1>3, <1>4, <1>5, <1>6

\* The first of some slides is one of them.
LEMMA FirstIsOne ==
    ASSUME NEW set, set \subseteq Nat, set # {}
    PROVE  First(set) \in set
<1> DEFINE R == OpToRel(<, Nat)
<1>1. IsWellFoundedOn(R, Nat)
  BY NatLessThanWellFounded
<1>2. \A a, b \in Nat : <<a, b>> \in R <=> a < b
  BY DEF OpToRel
<1> HIDE DEF R
<1>3. PICK s \in set : \A t \in set : <<t, s>> \notin R
  BY <1>1, WFMin
<1>4. s \in Nat /\ \A t \in set : t \in Nat /\ ~(t < s)
  BY <1>2, <1>3
<1>5. \A t \in set : s <= t
  BY <1>4
<1> QED  BY <1>3, <1>5 DEF First

\* Pictures first, then pages: the slides that are through have what they will show.
LEMMA HangStorePng ==
    ASSUME SlidesInv, SlidesInv', HangInv, StorePng
    PROVE  HangInv'
<1>1. /\ pc = "storePng" /\ IsResult(mem) /\ html' = html /\ UNCHANGED <<review, touched, swallowed>>
      /\ png = [s \in Slides |-> png[s]]
  BY DEF StorePng, SlidesInv, MemInv, Storing, slideHistory, HangInv, StageInv
<1>2. CASE mem.todo = {}
  <2>1. /\ Step("storePng", "storePage") /\ png' = png /\ pc' = "storePage"
        /\ mem' = [mem EXCEPT !.todo = Present(mem.page), !.out = Nothing]
    BY <1>2 DEF StorePng, Step
  <2>2. mem'.todo = Present(mem.page) /\ mem'.page = mem.page /\ mem'.review = mem.review
    BY <1>1, <2>1 DEF IsResult
  <2>3. \A s : PageToBe(s)' = PageToBe(s)
    BY <1>1, <2>1, <2>2 DEF PageToBe
  <2>4. Present(mem.page) \subseteq Slides
    BY DEF Present
  <2>5. Putting => Putting' /\ Building'
    BY <1>1, <1>2, <2>1, <2>2, <2>3, <2>4 DEF Building, Putting
  <2> QED  BY <1>1, <2>1, <2>5, HangGoesOn DEF ListingStages
<1>3. CASE mem.todo # {}
  <2> DEFINE f == First(mem.todo)
  <2>1. /\ Step("storePng", "storePng") /\ png' = [png EXCEPT ![f] = mem.out[f]] /\ pc' = "storePng"
        /\ mem' = [mem EXCEPT !.todo = mem.todo \ {f}]
    BY <1>3 DEF StorePng, Step
  <2> HIDE DEF f
  <2>2. /\ mem'.todo = mem.todo \ {f} /\ mem'.page = mem.page /\ mem'.review = mem.review
        /\ mem'.out = mem.out
    BY <1>1, <2>1 DEF IsResult
  <2>3. \A s : PageToBe(s)' = PageToBe(s)
    BY <1>1, <2>1, <2>2 DEF PageToBe
  <2>4. png' = [s \in Slides |-> IF s = f THEN mem.out[f] ELSE png[s]]
    BY <1>1, <2>1
  <2>5. Putting => Putting' /\ Building'
    <3>1. ASSUME Putting, NEW s \in Slides
          PROVE  /\ Judges(mem'.review[s], PageToBe(s)') /\ Shows(mem'.out[s], PageToBe(s)')
                 /\ s \in mem'.todo \/ Shows(png'[s], PageToBe(s)')
      <4>1. /\ Judges(mem.review[s], PageToBe(s)) /\ Shows(mem.out[s], PageToBe(s))
            /\ s \in mem.todo \/ Shows(png[s], PageToBe(s))
        BY <1>1, <3>1 DEF Putting
      <4>2. CASE s = f
        BY <2>2, <2>3, <2>4, <4>1, <4>2
      <4>3. CASE s # f
        BY <2>2, <2>3, <2>4, <4>1, <4>3
      <4> QED  BY <4>2, <4>3
    <3> QED  BY <2>1, <3>1 DEF Building, Putting
  <2>6. png' = [s \in Slides |-> png'[s]]
    BY <2>4
  <2> QED  BY <1>1, <2>1, <2>5, <2>6, HangGoesOn DEF ListingStages
<1> QED  BY <1>2, <1>3

LEMMA HangStorePage ==
    ASSUME SlidesInv, SlidesInv', HangInv, StorePage
    PROVE  HangInv'
<1>1. /\ pc = "storePage" /\ IsResult(mem) /\ UNCHANGED <<png, review, touched, swallowed>>
      /\ png = [s \in Slides |-> png[s]] /\ html \in [Slides -> Pages \cup {NoPage}]
  BY DEF StorePage, SlidesInv, MemInv, FilesInv, Storing, HangInv, StageInv
<1>2. CASE mem.todo = {}
  <2>1. /\ Step("storePage", "storeContracts") /\ html' = html /\ pc' = "storeContracts"
        /\ mem' = [mem EXCEPT !.page = Nothing, !.carried = {}]
    BY <1>2 DEF StorePage, Step
  <2>2. mem'.review = mem.review
    BY <1>1, <2>1 DEF IsResult
  <2>3. \A s : PageToBe(s) = html[s]
    BY <1>1, <1>2 DEF PageToBe
  <2>4. Putting => Putting' /\ Building'
    BY <1>1, <2>1, <2>2, <2>3 DEF Building, Putting
  <2> QED  BY <1>1, <2>1, <2>4, HangGoesOn DEF ListingStages
<1>3. CASE mem.todo # {}
  <2> DEFINE f == First(mem.todo)
  <2>1. /\ Step("storePage", "storePage") /\ html' = [html EXCEPT ![f] = mem.page[f]] /\ pc' = "storePage"
        /\ mem' = [mem EXCEPT !.todo = mem.todo \ {f}]
    BY <1>3 DEF StorePage, Step
  <2> HIDE DEF f
  <2>2. mem'.todo = mem.todo \ {f} /\ mem'.page = mem.page /\ mem'.review = mem.review
    BY <1>1, <2>1 DEF IsResult
  <2>3. ASSUME Putting PROVE Putting' /\ Building'
    <3>1. mem.todo \subseteq Slides
      BY <1>1, <2>3 DEF Putting
    <3>2. f \in mem.todo
      BY <1>3, <3>1, FirstIsOne, SlidesAssumption DEF f, SlidesAssumption
    <3>3. \A s \in Slides : PageToBe(s)' = PageToBe(s)
      BY <1>1, <2>1, <2>2, <3>2 DEF PageToBe
    <3> QED  BY <1>1, <2>1, <2>2, <2>3, <3>1, <3>3 DEF Building, Putting
  <2> QED  BY <1>1, <2>1, <2>3, HangGoesOn DEF ListingStages
<1> QED  BY <1>2, <1>3

\* The end of a listing: all belongs together.
LEMMA HangListed ==
    ASSUME SlidesInv, SlidesInv', HangInv, StoreContracts \/ StoreReview
    PROVE  HangInv'
<1>1. CASE StoreContracts
  <2>1. /\ Step("storeContracts", "storeReview") /\ pc = "storeContracts" /\ pc' = "storeReview"
        /\ UNCHANGED <<mem, html, png, review, swallowed>> /\ png = [s \in Slides |-> png[s]]
    BY <1>1 DEF StoreContracts, Step, slideHistory, HangInv, StageInv
  <2>2. Putting => Putting' /\ Building'
    BY <2>1 DEF Building, Putting
  <2> QED  BY <2>1, <2>2, HangGoesOn DEF ListingStages
<1>2. CASE StoreReview
  <2>1. pc = "storeReview" /\ pc' = "idle" /\ review' = mem.review /\ UNCHANGED <<html, png, swallowed, dead>>
    BY <1>2 DEF StoreReview, Return, Forget
  <2>2. StageInv'
    BY <2>1 DEF HangInv, StageInv, ListingStages, EditStages
  <2>3. Building' /\ Putting'
    BY <2>1 DEF Building, Putting
  <2>4. Putting => Repaired'
    BY <2>1 DEF Putting, Repaired
  <2> QED  BY <2>1, <2>2, <2>3, <2>4 DEF HangInv
<1> QED  BY <1>1, <1>2

\* An edit of one slide makes its page and its picture one.
LEMMA HangEdit ==
    ASSUME SlidesInv, SlidesInv', HangInv, EditSlide \/ Unread \/ EditUnseen \/ PutPage \/ PutPng
    PROVE  HangInv'
<1>1. /\ png = [s \in Slides |-> png[s]] /\ html \in [Slides -> Pages \cup {NoPage}]
      /\ pc \in EditStages => /\ held.task = "regenerate_store_slide" /\ held \in Messages
                              /\ held # NoMessage /\ pc # "idle"
      /\ NoPage \notin Pages
  BY SlidesAssumption, MessagesAssumption DEF SlidesInv, FilesInv, QueueInv, HangInv, StageInv, EditStages,
     SlidesAssumption, MessagesAssumption
<1>a. ASSUME Return, pc \in EditStages
      PROVE  /\ pc' = "idle" /\ UNCHANGED dead /\ Listings' = Listings
             /\ \A s \in Slides : s # Slide => EditsOfSlide(s)' = EditsOfSlide(s)
  <2>1. pc' = "idle" /\ held' = NoMessage /\ UNCHANGED <<queue, dead>>
    BY <1>a DEF Return, Forget
  <2>2. Outstanding = queue \cup {held} /\ Outstanding' = queue
    BY <1>1, <1>a, <2>1 DEF Outstanding
  <2> QED  BY <1>1, <1>a, <2>1, <2>2 DEF Listings, EditsOfSlide, Slide
<1>b. ASSUME pc' = "idle", png' = [s \in Slides |-> png'[s]]
      PROVE  StageInv' /\ Building' /\ Putting'
  BY <1>b DEF StageInv, Building, Putting, ListingStages, EditStages
<1>c. ASSUME NEW from \in EditStages, NEW to \in EditStages, Step(from, to), png' = png
      PROVE  /\ StageInv' /\ pc = from /\ pc' = to /\ UNCHANGED dead /\ Listings' = Listings
             /\ (\A s : EditsOfSlide(s)' = EditsOfSlide(s)) /\ held' = held
             /\ Slide \in Slides => EditsOfSlide(Slide) # {}
  <2>1. pc = from /\ pc' = to /\ UNCHANGED <<queue, held, dead>>
    BY <1>c DEF Step
  <2>2. StageInv'
    BY <1>1, <1>c, <2>1 DEF StageInv, ListingStages, EditStages
  <2>3. held \in EditsOfSlide(Slide)
    BY <1>1, <2>1 DEF EditsOfSlide, Outstanding, Slide
  <2> QED  BY <2>1, <2>2, <2>3, SameMessages
<1>2. CASE EditSlide /\ Return
  <2>1. pc = "edit" /\ UNCHANGED <<html, png, review, touched, swallowed>> /\ html[Slide] = NoPage
    BY <1>2, <1>1 DEF EditSlide, slides, listing, slideHistory, Return, Forget, Step
  <2>2. /\ pc' = "idle" /\ UNCHANGED dead /\ Listings' = Listings
        /\ \A s \in Slides : s # Slide => EditsOfSlide(s)' = EditsOfSlide(s)
    BY <1>2, <1>a, <2>1 DEF EditStages
  <2>3. Repaired => Repaired'
    BY <2>1, <2>2 DEF Repaired
  <2>4. StageInv' /\ Building' /\ Putting'
    BY <1>1, <1>b, <2>1, <2>2
  <2> QED  BY <2>1, <2>2, <2>3, <2>4 DEF HangInv
<1>3. CASE EditSlide /\ Step("edit", "putPage")
  <2>1. UNCHANGED <<html, png, review, touched, swallowed>>
    BY <1>3 DEF EditSlide, slides, listing, slideHistory
  <2>2. /\ StageInv' /\ pc' = "putPage" /\ UNCHANGED dead /\ Listings' = Listings
        /\ \A s : EditsOfSlide(s)' = EditsOfSlide(s)
    BY <1>3, <1>c, <2>1 DEF EditStages
  <2>3. Repaired => Repaired' /\ Building' /\ Putting'
    BY <2>1, <2>2 DEF Repaired, Building, Putting
  <2> QED  BY <2>1, <2>2, <2>3 DEF HangInv
<1>4. CASE Unread \/ EditUnseen
  BY <1>4, HangGivesUp DEF Unread, EditUnseen
<1>5. CASE PutPage
  <2>1. /\ Step("putPage", "putPng") /\ mem' = mem /\ html' = [html EXCEPT ![Slide] = mem.edited]
        /\ touched' = touched \cup {Slide} /\ UNCHANGED <<png, review, swallowed>>
    BY <1>5 DEF PutPage
  <2>2. /\ StageInv' /\ pc = "putPage" /\ pc' = "putPng" /\ UNCHANGED dead /\ Listings' = Listings
        /\ (\A s : EditsOfSlide(s)' = EditsOfSlide(s)) /\ held' = held
        /\ Slide \in Slides => EditsOfSlide(Slide) # {}
    BY <1>c, <2>1 DEF EditStages
  <2>3. Slide \in Slides => html'[Slide] = mem.edited /\ mem.edited # NoPage
    BY <1>1, <2>1, <2>2 DEF SlidesInv, FilesInv
  <2>4. \A s \in Slides : s # Slide => html'[s] = html[s]
    BY <1>1, <2>1
  <2>5. Repaired => Repaired'
    BY <2>1, <2>2, <2>3, <2>4 DEF Repaired
  <2>6. Building' /\ Putting'
    BY <2>1, <2>2, <2>3 DEF Building, Putting, Slide
  <2> QED  BY <2>1, <2>2, <2>5, <2>6 DEF HangInv
<1>6. CASE PutPng
  <2>1. /\ pc = "putPng" /\ Return /\ png' = [png EXCEPT ![Slide] = PictureOf(mem.edited)]
        /\ UNCHANGED <<html, review, touched, swallowed>>
    BY <1>6 DEF PutPng, slideHistory
  <2>2. /\ pc' = "idle" /\ UNCHANGED dead /\ Listings' = Listings
        /\ \A s \in Slides : s # Slide => EditsOfSlide(s)' = EditsOfSlide(s)
    BY <1>a, <2>1 DEF EditStages
  <2>3. png' = [s \in Slides |-> IF s = Slide THEN PictureOf(mem.edited) ELSE png[s]]
    BY <1>1, <2>1
  <2>4. Putting /\ Slide \in Slides => Shows(png'[Slide], html'[Slide])
    BY <2>1, <2>3 DEF Putting, Shows, PictureOf
  <2>5. Putting /\ Repaired => Repaired'
    BY <2>1, <2>2, <2>3, <2>4 DEF Repaired
  <2>6. StageInv' /\ Building' /\ Putting'
    BY <1>b, <2>2, <2>3
  <2> QED  BY <2>1, <2>2, <2>5, <2>6 DEF HangInv
<1> QED  BY <1>2, <1>3, <1>4, <1>5, <1>6 DEF EditSlide

\* Drawing and re-framing make no rendering.
LEMMA HangDraw ==
    ASSUME SlidesInv, SlidesInv', HangInv, DrawSlide \/ Reframe
    PROVE  HangInv'
<1>1. /\ png = [s \in Slides |-> png[s]] /\ held \in Messages /\ held # NoMessage
      /\ held.task \notin {"generate_store_assets", "regenerate_store_slide"}
      /\ UNCHANGED <<html, review, swallowed>> /\ touched \subseteq touched' /\ pc \in {"draw", "reframe"}
  <2>1. CASE DrawSlide
    BY <2>1, MessagesAssumption DEF DrawSlide, SlidesInv, QueueInv, HangInv, StageInv, MessagesAssumption
  <2>2. CASE Reframe
    BY <2>2, MessagesAssumption DEF Reframe, slides, listing, slideHistory, SlidesInv, QueueInv, HangInv, StageInv,
       MessagesAssumption
  <2> QED  BY <2>1, <2>2
<1>2. png' = png \/ png' = [png EXCEPT ![Slide] = NewDrawing(Slide)]
  BY DEF DrawSlide, Reframe, slides, listing
<1>3. /\ png' = [s \in Slides |-> png'[s]]
      /\ \A s \in Slides : png'[s] = png[s] \/ Shows(png'[s], html[s])
  <2>1. NewDrawing(Slide).drawn = TRUE
    BY DEF NewDrawing
  <2> QED  BY <1>1, <1>2, <2>1 DEF Shows
<1>4. pc' \in {"idle", "reframe"} /\ dead' = dead /\ Listings' = Listings
      /\ \A s \in Slides : EditsOfSlide(s)' = EditsOfSlide(s)
  <2>1. CASE Return
    <3>1. pc' = "idle" /\ held' = NoMessage /\ UNCHANGED <<queue, dead>>
      BY <2>1 DEF Return, Forget
    <3>2. Outstanding = queue \cup {held} /\ Outstanding' = queue
      BY <1>1, <3>1 DEF Outstanding
    <3> QED  BY <1>1, <3>1, <3>2 DEF Listings, EditsOfSlide
  <2>2. CASE Step("reframe", "reframe")
    BY <2>2, SameMessages DEF Step
  <2> QED  BY <2>1, <2>2 DEF DrawSlide, Reframe
<1>5. StageInv'
  <2>1. pc' = "reframe" => held' = held
    BY DEF DrawSlide, Reframe, Return, Forget, Step
  <2> QED  BY <1>1, <1>3, <1>4, <2>1 DEF StageInv, ListingStages, EditStages
<1>6. Building' /\ Putting'
  BY <1>4 DEF Building, Putting
<1>7. Repaired => Repaired'
  BY <1>1, <1>3, <1>4, RepairedStays
<1> QED  BY <1>1, <1>4, <1>5, <1>6, <1>7 DEF HangInv

\* What the admin asks for, and a task that begins.
LEMMA HangRequests ==
    ASSUME SlidesInv, SlidesInv', HangInv,
           (Deliver(SlideStart) /\ UNCHANGED slides) \/ SlideRequest \/ DeleteSlide
    PROVE  HangInv'
<1>1. png = [s \in Slides |-> png[s]]
  BY DEF HangInv, StageInv
<1>2. CASE Deliver(SlideStart) /\ UNCHANGED slides
  <2>1. PICK m \in queue : held' = m /\ queue' = queue \ {m} /\ pc' = SlideStart[m.task]
    BY <1>2 DEF Deliver
  <2>2. /\ held = NoMessage /\ m \in Messages /\ m # NoMessage /\ mem' = mem
        /\ UNCHANGED <<html, png, review, touched, swallowed, dead>>
    BY <1>2, <2>1, MessagesAssumption DEF SlidesInv, QueueInv, Deliver, slides, listing, slideHistory,
       MessagesAssumption
  <2>3. Outstanding' = Outstanding
    BY <2>1, <2>2 DEF Outstanding
  <2>4. /\ pc' = "gather" => m.task = "generate_store_assets"
        /\ pc' = "edit" => m.task = "regenerate_store_slide"
        /\ pc' \in {"draw", "reframe"} => m.task \notin {"generate_store_assets", "regenerate_store_slide"}
        /\ pc' \in {"gather", "edit", "draw", "reframe"}
    <3>1. m.task \in {"generate_store_assets", "regenerate_store_slide", "generate_store_slide",
                      "generate_ipad_slides"}
      BY <2>2, Starts DEF Messages
    <3> QED  BY <2>1, <3>1 DEF SlideStart
  <2>5. StageInv'
    BY <1>1, <2>1, <2>2, <2>4 DEF StageInv, ListingStages, EditStages
  <2>6. Building' /\ Putting'
    BY <2>4 DEF Building, Putting
  <2>7. Repaired => Repaired'
    BY <2>2, <2>3 DEF Repaired, Listings, EditsOfSlide
  <2> QED  BY <2>2, <2>5, <2>6, <2>7 DEF HangInv
<1>3. CASE SlideRequest \/ DeleteSlide
  <2>1. UNCHANGED <<held, pc, mem, html, review, swallowed, dead>> /\ touched \subseteq touched'
        /\ queue \subseteq queue'
    BY <1>3 DEF SlideRequest, DeleteSlide, Enqueue, slides, listing, slideHistory
  <2>2. /\ png' = [s \in Slides |-> png'[s]]
        /\ \A s \in Slides : png'[s] = png[s] \/ png'[s] = NoPage
    <3>1. png' = png \/ \E s \in Slides : png' = [png EXCEPT ![s] = NoPage]
      BY <1>3 DEF SlideRequest, DeleteSlide, slides, listing, Without
    <3> QED  BY <1>1, <3>1
  <2>3. \A s \in Slides : png'[s] = png[s] \/ \A page : Shows(png'[s], page)
    BY <2>2 DEF Shows
  <2>4. StageInv'
    BY <2>1, <2>2 DEF HangInv, StageInv
  <2>5. Building => Building'
    BY <2>1 DEF Building
  <2>6. Putting => Putting'
    <3>1. \A s : PageToBe(s)' = PageToBe(s)
      BY <2>1 DEF PageToBe
    <3> QED  BY <2>1, <2>3, <3>1 DEF Putting, Slide
  <2>7. Repaired => Repaired'
    <3>1. Outstanding \subseteq Outstanding'
      BY <2>1 DEF Outstanding
    <3>2. Listings \subseteq Listings' /\ \A s : EditsOfSlide(s) \subseteq EditsOfSlide(s)'
      BY <3>1 DEF Listings, EditsOfSlide
    <3> QED  BY <2>1, <2>3, <3>2, RepairedStays
  <2> QED  BY <2>1, <2>4, <2>5, <2>6, <2>7 DEF HangInv
<1> QED  BY <1>2, <1>3

LEMMA HangStutters ==
    ASSUME HangInv, UNCHANGED vars
    PROVE  HangInv'
<1>1. UNCHANGED <<queue, held, pc, mem, dead, html, png, review, touched, swallowed>>
  BY DEF vars, worker, budget, slides, listing, slideHistory
<1>2. StageInv => StageInv'
  BY <1>1 DEF StageInv
<1>3. Building => Building'
  BY <1>1 DEF Building
<1>4. Putting => Putting'
  BY <1>1 DEF Putting, PageToBe, Slide
<1>5. Repaired => Repaired'
  BY <1>1, SameMessages DEF Repaired
<1> QED  BY <1>1, <1>2, <1>3, <1>4, <1>5 DEF HangInv

\* Whatever deaths, retries and deletions come between: when no message is left and no
\* failure was swallowed, a rendered picture shows the stored page of its slide, and the
\* review speaks of it unless the slide was changed by itself (generate_store_assets,
\* regenerate_store_slide).  For every set of slides and all bounds.
THEOREM ListingTogether == Spec => []ListingHangsTogether
<1>1. Init => HangInv
  <2> SUFFICES ASSUME Init PROVE HangInv
    OBVIOUS
  <2>1. pc = "idle"
    BY DEF Init, WorkerInit
  <2>2. CASE html = Nothing /\ png = Nothing /\ review = [s \in Slides |-> Unscored]
    BY <2>1, <2>2 DEF HangInv, StageInv, Building, Putting, Repaired, Shows, Judges, Nothing, ListingStages, EditStages
  <2>3. CASE \E page : /\ html = [s \in Slides |-> page] /\ png = [s \in Slides |-> PictureOf(page)]
                       /\ review \in [Slides -> {[verdict |-> v, of |-> page] : v \in {"pass", "fail"}}]
    <3>1. PICK page : /\ html = [s \in Slides |-> page] /\ png = [s \in Slides |-> PictureOf(page)]
                      /\ review \in [Slides -> {[verdict |-> v, of |-> page] : v \in {"pass", "fail"}}]
      BY <2>3
    <3>2. \A s \in Slides : review[s].of = page /\ png[s].of = html[s] /\ html[s] = page
      BY <3>1 DEF PictureOf
    <3> QED  BY <2>1, <3>1, <3>2 DEF HangInv, StageInv, Building, Putting, Repaired, Shows, Judges, ListingStages,
                EditStages
  <2> QED  BY <2>2, <2>3 DEF Init
<1>2. SlidesInv /\ SlidesInv' /\ HangInv /\ [Next]_vars => HangInv'
  <2> SUFFICES ASSUME SlidesInv, SlidesInv', HangInv, [Next]_vars PROVE HangInv'
    OBVIOUS
  <2>1. CASE Crash /\ UNCHANGED slides
    <3>1. pc # "idle"
      BY <2>1 DEF SlidesInv, QueueInv, Crash
    <3> QED  BY <2>1, <3>1, HangAgain
  <2>2. CASE SlideTaskFails
    BY <2>2, HangAgain DEF SlideTaskFails
  <2>3. CASE SlideTask
    BY <2>2, <2>3, HangGather, HangLoop, HangStorePng, HangStorePage, HangListed, HangEdit, HangDraw DEF SlideTask
  <2> QED  BY <2>1, <2>3, HangRequests, HangStutters DEF Next
<1>3. HangInv => ListingHangsTogether
  <2> SUFFICES ASSUME HangInv, Quiet, dead = {}, ~swallowed, NEW s \in Slides
               PROVE  /\ png[s] # NoPage /\ ~png[s].drawn => png[s].of = html[s]
                      /\ s \notin touched /\ review[s] # Unscored => review[s].of = html[s]
    BY DEF ListingHangsTogether
  <2>1. Listings = {} /\ EditsOfSlide(s) = {}
    BY DEF Quiet, Listings, EditsOfSlide
  <2> QED  BY <2>1 DEF HangInv, Repaired, Shows, Judges
<1> QED  BY <1>1, <1>2, <1>3, SlidesCorrect, PTL DEF Spec
=============================================================================
