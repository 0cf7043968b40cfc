------------------------------ MODULE RefineLoop ------------------------------
(***************************************************************************)
(* refine_web_until_complete of mvp/compliance.py under _run_web_verify of *)
(* worker/run_job.py: build the Flutter app for the web, take a screenshot *)
(* of every screen, let a model compare them with the originals, audit the *)
(* navigation, and let an agent correct what is wrong, until nothing is.   *)
(*                                                                         *)
(* flutter, chromium and the two agents run with check=False: a failure    *)
(* leaves the output of an earlier iteration where it was, and the loop    *)
(* goes on with that file.  The model keeps the chain of copies apart: the *)
(* tree, the page built from it, the screenshots, the judge's file.        *)
(***************************************************************************)
EXTENDS Naturals, FiniteSets

CONSTANTS
    Screens,         \* the ids of screens.json
    Edges,           \* navigates_to of screens.json: pairs of screens
    Pages,           \* the looks of all screens that the agent may produce
    Navs,            \* the routers and navigation calls the agent may write
    Router,          \* the files of lib/core/router
    Elsewhere,       \* a target that is no screen of the original
    Interpolated,    \* a target with a "$": put together when the app runs
    NoPage, NoFile,  \* no index.html; no judge.json
    MaxIterations,   \* settings.compliance_max_iterations
    StructuralGate,  \* settings.verify_web_structural
    HardGate,        \* settings.web_verify_hard_gate
    MaxFailures      \* bound: failures of flutter, chromium and the agents

(***************************************************************************)
(* A screen is blank, unlike the original in its layout, like it in layout *)
(* and style ("copy"), or like it in layout only.  None is no screenshot,  *)
(* or no entry of the judge.                                               *)
(***************************************************************************)
Looks     == {"blank", "off", "copy", "fit"}
None      == "none"
Threshold == 2
\* Mutant of Worth: what the judge does not mention is in order.
WorthUnless == [blank |-> 0, off |-> 1, copy |-> 2, fit |-> 2, none |-> 2]
Worth       == [blank |-> 0, off |-> 1, copy |-> 2, fit |-> 2, none |-> 0]

Places  == Screens \cup {Elsewhere}
Targets == Places \cup {Interpolated}
\* routes: concrete GoRoutes.  covered: targets that a parametric route matches.
\* files: screens with a lib/features directory.  calls: <<file, target>>.
Nav == [routes : SUBSET Places, covered : SUBSET Places, files : SUBSET Screens,
        calls : SUBSET ((Screens \cup {Router}) \X Targets)]
Page   == [Screens -> Looks]
Shots  == [Screens -> Looks \cup {None}]

ASSUME GraphAssumption ==
    Edges \subseteq Screens \X Screens /\ Navs \subseteq Nav /\ Pages \subseteq Page
ASSUME SettingsAssumption ==
    /\ Screens # {} /\ IsFiniteSet(Screens)
    /\ MaxIterations \in Nat \ {0} /\ MaxFailures \in Nat
    /\ {StructuralGate, HardGate} \subseteq BOOLEAN
ASSUME NamesAssumption ==
    /\ Router \notin Screens /\ Interpolated \notin Places
    /\ NoPage \notin Page /\ NoFile \notin Shots

VARIABLES
    pc, iteration,
    tree,        \* run/flutter_app: [look, nav, compiles]
    web,         \* flutter_app/build/web, which travels with the tree
    png,         \* generated_screens/<id>.png
    judge,       \* claude_ws/judge.json
    frozen,      \* screens that have reached the threshold
    before,      \* gate and open findings of the iteration before
    stop,        \* report["stop_reason"]
    job,         \* Job.state
    missed,      \* history: what failed in this iteration
    met,         \* history: screens that a screenshot has shown at the threshold
    failures

files == <<tree, web, png, judge>>
loop  == <<iteration, frozen, before>>
vars  == <<pc, loop, files, stop, job, missed, met, failures>>

NoIteration == [gate |-> 0, open |-> 0, any |-> FALSE]

TypeOK ==
    /\ pc \in {"build", "render", "judge", "decide", "correct", "ended", "settled"}
    /\ iteration \in 1..MaxIterations
    /\ tree.look \in Page /\ tree.nav \in Nav /\ tree.compiles \in BOOLEAN
    /\ web \in Page \cup {NoPage} /\ png \in Shots /\ judge \in Shots \cup {NoFile}
    /\ frozen \in SUBSET Screens /\ met \in SUBSET Screens
    /\ before.gate \in 0..Threshold /\ before.open \in Nat /\ before.any \in BOOLEAN
    /\ stop \in {None, "all_closed", "max_iterations", "no_improvement", "verify_failed"}
    /\ job \in {"verify", "running", "needs_input"}
    /\ missed \in SUBSET {"build", "shot", "judge"} /\ failures \in 0..MaxFailures

-----------------------------------------------------------------------------
(***************************************************************************)
(* nav_audit.                                                              *)
(***************************************************************************)
Reachable(nav)      == nav.routes \cup nav.covered
MissingScreens(nav) == Screens \ Reachable(nav)
\* What an interpolated target leads to is not known: it is skipped.
DeadLinks(nav)      == {c \in nav.calls : c[2] # Interpolated /\ c[2] \notin Reachable(nav)}

\* The files whose calls count for a screen: its features and, as soon as the screen
\* is found at all, the router.
SourceFiles(nav, s) ==
    {f \in {s, Router} : /\ s \in nav.files \cup nav.routes
                         /\ f = s => s \in nav.files}

\* Mutant of MissingEdges: a call to the target from any file will do.
MissingEdgesAnywhere(nav) ==
    {e \in Edges : SourceFiles(nav, e[1]) # {} /\ \A c \in nav.calls : c[2] # e[2]}
MissingEdges(nav) ==
    {e \in Edges : /\ SourceFiles(nav, e[1]) # {}
                   /\ \A f \in SourceFiles(nav, e[1]) : <<f, e[2]>> \notin nav.calls}

NavAudit(nav) == [missing |-> MissingScreens(nav), dead |-> DeadLinks(nav),
                  edges |-> MissingEdges(nav)]
NavFindings(a) == Cardinality(a.missing) + Cardinality(a.dead) + Cardinality(a.edges)

\* Only screenshots that exist are looked at.
BlankScreens == {s \in Screens : png[s] = "blank"}

-----------------------------------------------------------------------------
(***************************************************************************)
(* The report of an iteration: evaluate, aggregate and _apply_freeze.      *)
(***************************************************************************)
Rendered == {s \in Screens : png[s] # None}
Seen(s)  == IF s \in Rendered THEN judge[s] ELSE None

Met(s)    == Worth[Seen(s)] >= Threshold
FrozenNow == frozen \cup {s \in Screens : Met(s)}
Held(s)   == IF s \in FrozenNow THEN Threshold ELSE Worth[Seen(s)]

\* Per screen: the weakest screen is the gate.
IsGate(g) == (\E s \in Screens : g = Held(s)) /\ (\A s \in Screens : g <= Held(s))

\* A screen that is not rendered has divergence 0 in its own entry, and no part in
\* the average; the average is low when most of the rendered screens are copies.
Copies    == {s \in Screens : Seen(s) \in {None, "copy"}}
CloneRisk == Rendered = {} \/ 2 * Cardinality(Copies \cap Rendered) > Cardinality(Rendered)

Open == NavFindings(NavAudit(tree.nav)) + Cardinality(BlankScreens)
Ok   == StructuralGate => Open = 0

\* diffs_to_tasks.
\* Mutant of FixTasks: a screen without a screenshot has no layout to correct.
FixRendered == Rendered \ FrozenNow
FixTasks    == Screens \ FrozenNow
TasksNow    == [fix |-> FixTasks, diverge |-> IF CloneRisk THEN Copies ELSE {},
                blank |-> BlankScreens, nav |-> NavAudit(tree.nav)]
NoTasks     == [fix |-> {}, diverge |-> {}, blank |-> {},
                nav |-> [missing |-> {}, dead |-> {}, edges |-> {}]]

-----------------------------------------------------------------------------
(***************************************************************************)
(* An iteration.                                                           *)
(***************************************************************************)

Edits == [look : Pages, nav : Navs, compiles : BOOLEAN]

\* The app that verification is given is new, reworked, or has been verified before:
\* the sources archive holds build/web, of this tree or of an earlier one.
Init ==
    /\ pc = "build" /\ iteration = 1
    /\ tree \in Edits
    /\ web \in Pages \cup {NoPage}
    /\ png = [s \in Screens |-> None] /\ judge = NoFile
    /\ frozen = {} /\ before = NoIteration
    /\ stop = None /\ job = "verify"
    /\ missed = {} /\ met = {} /\ failures = 0

Misfortune == failures < MaxFailures /\ failures' = failures + 1

\* An exception leaves the loop; _run_web_verify notes it.
Raise ==
    /\ pc' = "ended" /\ stop' = "verify_failed"
    /\ UNCHANGED <<iteration, tree, png, judge, frozen, before, job, missed, met>>

\* Mutant of Build: an index.html that is there is up to date.
BuildOnce ==
    /\ pc = "build" /\ tree.compiles
    /\ web' = (IF web = NoPage THEN tree.look ELSE web) /\ pc' = "render"
    /\ UNCHANGED <<loop, tree, png, judge, stop, job, missed, met, failures>>
Build ==
    /\ pc = "build" /\ tree.compiles
    /\ web' = tree.look /\ pc' = "render"
    /\ UNCHANGED <<loop, tree, png, judge, stop, job, missed, met, failures>>

\* flutter fails and leaves the earlier page, or removes it.
BuildFails ==
    /\ pc = "build"
    /\ IF tree.compiles THEN Misfortune ELSE UNCHANGED failures
    /\ \/ /\ web # NoPage /\ pc' = "render" /\ missed' = missed \cup {"build"}
          /\ UNCHANGED <<loop, files, stop, job, met>>
       \/ web' = NoPage /\ Raise

\* One screenshot after the other; chromium may fail on some.
Render ==
    /\ pc = "render"
    /\ \E lost \in SUBSET Screens :
        /\ IF lost = {} THEN UNCHANGED <<missed, failures>>
                        ELSE Misfortune /\ missed' = missed \cup {"shot"}
        /\ png' = [s \in Screens |-> IF s \in lost THEN png[s] ELSE web[s]]
    /\ met' = met \cup {s \in Screens : png'[s] \in {"copy", "fit"}}
    /\ pc' = "judge"
    /\ UNCHANGED <<loop, tree, web, judge, stop, job>>

\* The judge describes the screenshots it is given; it may forget some.
Judge ==
    /\ pc = "judge"
    /\ \E forgotten \in SUBSET Rendered :
        /\ IF forgotten = {} THEN UNCHANGED <<missed, failures>>
                             ELSE Misfortune /\ missed' = missed \cup {"judge"}
        /\ judge' = [s \in Screens |-> IF s \in forgotten THEN None ELSE png[s]]
    /\ pc' = "decide"
    /\ UNCHANGED <<loop, tree, web, png, stop, job, met>>

\* The CLI fails and writes nothing: the file of the iteration before is read.
JudgeFails ==
    /\ pc = "judge" /\ Misfortune
    /\ IF judge = NoFile
       THEN Raise /\ UNCHANGED web
       ELSE /\ pc' = "decide" /\ missed' = missed \cup {"judge"}
            /\ UNCHANGED <<loop, files, stop, job, met>>

Passes(g) == g >= Threshold /\ Ok /\ ~CloneRisk

\* Neither the weakest screen nor the number of open findings has got better.
Stalled(g) == before.any /\ g <= before.gate /\ Open >= before.open

Stop(reason) ==
    /\ frozen' = FrozenNow /\ stop' = reason /\ pc' = "ended"
    /\ UNCHANGED <<iteration, before, files, job, missed, met, failures>>

Pass          == pc = "decide" /\ \E g \in 0..Threshold : IsGate(g) /\ Passes(g) /\ Stop("all_closed")
LastIteration ==
    /\ pc = "decide" /\ iteration = MaxIterations
    /\ \E g \in 0..Threshold : IsGate(g) /\ ~Passes(g) /\ Stop("max_iterations")
Plateau ==
    /\ pc = "decide" /\ iteration < MaxIterations
    /\ \E g \in 0..Threshold : IsGate(g) /\ ~Passes(g) /\ Stalled(g) /\ Stop("no_improvement")
GoOn ==
    /\ pc = "decide" /\ iteration < MaxIterations
    /\ \E g \in 0..Threshold :
        /\ IsGate(g) /\ ~Passes(g) /\ ~Stalled(g)
        /\ before' = [gate |-> g, open |-> Open, any |-> TRUE]
    /\ frozen' = FrozenNow /\ pc' = "correct"
    /\ UNCHANGED <<iteration, files, stop, job, missed, met, failures>>

\* Mutant of Correct: iterations are not counted, a plateau ends the loop.
CorrectUncounted ==
    /\ pc = "correct"
    /\ IF TasksNow = NoTasks THEN UNCHANGED tree ELSE tree' \in Edits
    /\ missed' = {} /\ pc' = "build"
    /\ UNCHANGED <<iteration, frozen, before, web, png, judge, stop, job, met, failures>>
\* apply_corrective: the agent edits a copy of the tree, task by task, and the copy
\* replaces the tree.  Whatever it is asked, an agent may write anything.
Correct ==
    /\ pc = "correct"
    /\ IF TasksNow = NoTasks THEN UNCHANGED tree ELSE tree' \in Edits
    /\ iteration' = iteration + 1 /\ missed' = {} /\ pc' = "build"
    /\ UNCHANGED <<frozen, before, web, png, judge, stop, job, met, failures>>

\* An agent runs out of its time, or the copy has lost pubspec.yaml or main.dart.
CorrectFails == pc = "correct" /\ Misfortune /\ Raise /\ UNCHANGED web

\* flutter, chromium or the judge runs out of its time, or judge.json is no JSON.
TimesOut == pc \in {"build", "render", "judge"} /\ Misfortune /\ Raise /\ UNCHANGED web

\* _run_web_verify: what becomes of the job.
Settle ==
    /\ pc = "ended" /\ pc' = "settled"
    /\ job' = IF HardGate /\ stop \notin {"all_closed", "verify_failed"}
              THEN "needs_input" ELSE "running"
    /\ UNCHANGED <<loop, files, stop, missed, met, failures>>

Next == Build \/ BuildFails \/ Render \/ Judge \/ JudgeFails \/ Pass \/ LastIteration
        \/ Plateau \/ GoOn \/ Correct \/ CorrectFails \/ TimesOut \/ Settle
Spec == Init /\ [][Next]_vars /\ WF_vars(Next)

\* Verification is given a tree that has come through the compile gate.
GatedSpec == Init /\ tree.compiles /\ [][Next]_vars

-----------------------------------------------------------------------------
(***************************************************************************)
(* Properties.                                                             *)
(***************************************************************************)

\* A run that ends with a report in which nothing has failed in the last iteration has
\* judged the tree it delivers: page, screenshots and judge.json are all of this tree.
ReportFresh ==
    pc \in {"ended", "settled"} /\ stop # "verify_failed" /\ missed = {} =>
        web = tree.look /\ png = tree.look /\ judge = tree.look

\* Whatever failed, every screen of a passed app has reached the threshold in a
\* screenshot of this run, and each one has a screenshot: _apply_freeze holds scores,
\* and a screen that the judge forgot or that was not rendered scores nothing.
PassedWasShown == stop = "all_closed" => met = Screens /\ Rendered = Screens

\* In a passed app every screen of the original is reachable, every edge of it can be
\* followed by a link to its plain target, and no link leads nowhere, as the tree is
\* delivered; but a link whose target is interpolated may, and an edge may be missing
\* where a parametric route alone covers its source.
Followable(e) ==
    \E c \in tree.nav.calls :
        c[1] \in {e[1], Router} /\ c[2] = e[2] /\ e[2] \in Reachable(tree.nav)
ClosedMeansClosed ==
    stop = "all_closed" /\ StructuralGate =>
        /\ \A s \in Screens : s \in Reachable(tree.nav) /\ png[s] # "blank"
        /\ \A c \in tree.nav.calls : c[2] \in Reachable(tree.nav) \cup {Interpolated}
        /\ \A e \in Edges : \/ Followable(e)
                            \/ e[1] \in tree.nav.covered \ (tree.nav.routes \cup tree.nav.files)

\* The loop never pays for an iteration that changes nothing: when the gate is not
\* passed, the report has something to correct; and no frozen screen is reworked for
\* its layout.
NeverIdle == pc = "correct" => TasksNow # NoTasks /\ FixTasks \cap frozen = {}

\* The refine loop ends, however the scores and findings go up and down.
LoopEnds == <>(pc = "settled")

\* Violated under GatedSpec.  The compile gate of run_job.py: "so non-compiling code
\* never reaches GitHub / the CodeMagic iOS build".  The gate is before verification;
\* a correction may break the app, whose old page is then rendered, judged and passed.
PassedCompiles == stop = "all_closed" => tree.compiles

=============================================================================
