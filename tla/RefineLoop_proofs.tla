-------------------------- MODULE RefineLoop_proofs --------------------------
(***************************************************************************)
(* What the refine loop promises, for every set of screens, every graph,   *)
(* every behaviour of the agents and every number of failures.             *)
(***************************************************************************)
EXTENDS RefineLoop, FiniteSetTheorems, TLAPS

(***************************************************************************)
(* The copies and the history agree: what is frozen or described as fit    *)
(* has been shown; what no failure has spoilt is of the tree.              *)
(***************************************************************************)
Good == {"copy", "fit"}

HistoryInv ==
    /\ \A s \in Screens : png[s] \in Good => s \in met
    /\ judge # NoFile => \A s \in Screens : judge[s] \in Good => s \in met
    /\ frozen \subseteq met /\ frozen \subseteq Rendered

CopiesInv ==
    /\ pc = "build" => missed = {}
    /\ pc = "render" => web # NoPage
    /\ pc \in {"decide", "correct"} => judge # NoFile
    /\ pc \in {"ended", "settled"} /\ stop # "verify_failed" => judge # NoFile
    /\ pc = "render" /\ missed = {} => web = tree.look
    /\ pc = "judge" /\ missed = {} => web = tree.look /\ png = tree.look
    /\ pc = "decide" /\ missed = {} => web = tree.look /\ png = tree.look /\ judge = tree.look

StopInv ==
    /\ pc \notin {"ended", "settled"} => stop = None
    /\ pc = "correct" => frozen = FrozenNow /\ iteration < MaxIterations

Inv ==
    /\ TypeOK /\ HistoryInv /\ CopiesInv /\ StopInv
    /\ ReportFresh /\ PassedWasShown /\ ClosedMeansClosed /\ NeverIdle

-----------------------------------------------------------------------------
LEMMA WorthValues ==
    /\ \A l \in Looks \cup {None} : Worth[l] \in 0..2
    /\ \A l \in Looks \cup {None} : Worth[l] >= Threshold <=> l \in Good
BY DEF Looks, None, Worth, Threshold, Good

\* The audit is of finite sets, so that no open finding means that all are empty.
LEMMA AuditEmpty ==
    ASSUME NEW nav \in Nav, NEW B \in SUBSET Screens
    PROVE  /\ NavFindings(NavAudit(nav)) + Cardinality(B) \in Nat
           /\ NavFindings(NavAudit(nav)) + Cardinality(B) = 0 =>
                MissingScreens(nav) = {} /\ DeadLinks(nav) = {} /\ MissingEdges(nav) = {} /\ B = {}
           /\ NavFindings(NavAudit(nav)) + Cardinality(B) # 0 =>
                ~(MissingScreens(nav) = {} /\ DeadLinks(nav) = {} /\ MissingEdges(nav) = {} /\ B = {})
<1>1. IsFiniteSet(Screens) /\ Edges \subseteq Screens \X Screens
  BY SettingsAssumption, GraphAssumption DEF SettingsAssumption, GraphAssumption
<1>2. IsFiniteSet(MissingScreens(nav)) /\ IsFiniteSet(B)
  BY <1>1, FS_Subset DEF MissingScreens
<1>3. IsFiniteSet(DeadLinks(nav))
  <2>1. IsFiniteSet(Screens \cup {Router}) /\ IsFiniteSet(Places)
    BY <1>1, FS_AddElement DEF Places
  <2>2. IsFiniteSet(Targets)
    BY <2>1, FS_AddElement DEF Targets
  <2>3. IsFiniteSet((Screens \cup {Router}) \X Targets)
    BY <2>1, <2>2, FS_Product
  <2> QED BY <2>3, FS_Subset DEF DeadLinks, Nav
<1>4. IsFiniteSet(MissingEdges(nav))
  BY <1>1, FS_Product, FS_Subset DEF MissingEdges
<1>5. \A S \in {MissingScreens(nav), DeadLinks(nav), MissingEdges(nav), B} :
        Cardinality(S) \in Nat /\ (Cardinality(S) = 0 <=> S = {})
  BY <1>2, <1>3, <1>4, FS_CardinalityType, FS_EmptySet
<1>6. NavFindings(NavAudit(nav)) = Cardinality(MissingScreens(nav))
        + Cardinality(DeadLinks(nav)) + Cardinality(MissingEdges(nav))
  BY DEF NavFindings, NavAudit
<1>7. /\ Cardinality(MissingScreens(nav)) \in Nat /\ Cardinality(DeadLinks(nav)) \in Nat
      /\ Cardinality(MissingEdges(nav)) \in Nat /\ Cardinality(B) \in Nat
  BY <1>5
<1>8. /\ Cardinality(MissingScreens(nav)) = 0 <=> MissingScreens(nav) = {}
      /\ Cardinality(DeadLinks(nav)) = 0 <=> DeadLinks(nav) = {}
      /\ Cardinality(MissingEdges(nav)) = 0 <=> MissingEdges(nav) = {}
      /\ Cardinality(B) = 0 <=> B = {}
  BY <1>5
<1> HIDE DEF MissingScreens, DeadLinks, MissingEdges
<1> QED BY <1>6, <1>7, <1>8

-----------------------------------------------------------------------------
LEMMA InitInv == Init => Inv
<1> SUFFICES ASSUME Init PROVE Inv
  OBVIOUS
<1> USE DEF Init
<1>1. TypeOK
  BY SettingsAssumption, GraphAssumption
     DEF TypeOK, Edits, SettingsAssumption, GraphAssumption, NoIteration, Threshold, Shots, None
<1>2. HistoryInv
  BY DEF HistoryInv, Good, None
<1>3. CopiesInv /\ StopInv /\ ReportFresh /\ PassedWasShown /\ ClosedMeansClosed /\ NeverIdle
  BY DEF CopiesInv, StopInv, ReportFresh, PassedWasShown, ClosedMeansClosed, NeverIdle, None
<1> QED BY <1>1, <1>2, <1>3 DEF Inv

-----------------------------------------------------------------------------
(***************************************************************************)
(* What the decision knows when it is taken.                               *)
(***************************************************************************)

\* A screen whose report is good has been shown, and has a screenshot.
LEMMA FrozenShown ==
    ASSUME Inv, judge # NoFile
    PROVE  FrozenNow \in SUBSET Screens /\ FrozenNow \subseteq met /\ FrozenNow \subseteq Rendered
<1>1. \A s \in Screens : Seen(s) \in Looks \cup {None}
  BY DEF Inv, TypeOK, Shots, Seen
<1>2. ASSUME NEW s \in Screens, Met(s) PROVE s \in met /\ s \in Rendered
  <2>1. Seen(s) \in Good
    BY <1>1, <1>2, WorthValues DEF Met
  <2> QED BY <2>1 DEF Seen, Good, None, Inv, HistoryInv
<1> QED BY <1>2 DEF FrozenNow, Inv, HistoryInv, TypeOK

LEMMA GateTypes ==
    ASSUME Inv, judge # NoFile
    PROVE  \A s \in Screens : Held(s) \in 0..2 /\ (Held(s) >= Threshold <=> s \in FrozenNow)
<1>1. \A s \in Screens : Seen(s) \in Looks \cup {None}
  BY DEF Inv, TypeOK, Shots, Seen
<1> QED BY <1>1, WorthValues DEF Held, FrozenNow, Met, Threshold

\* When the gate is passed all screens are frozen.
LEMMA PassedFrozen ==
    ASSUME Inv, judge # NoFile, NEW g \in 0..Threshold, IsGate(g), g >= Threshold
    PROVE  FrozenNow = Screens
<1>1. \A s \in Screens : g <= Held(s)
  BY DEF IsGate
<1>2. \A s \in Screens : Held(s) >= Threshold
  BY <1>1, GateTypes DEF Threshold
<1> QED BY <1>2, GateTypes, FrozenShown

\* When it is not passed there is something to correct.
LEMMA WorkLeft ==
    ASSUME Inv, judge # NoFile, NEW g \in 0..Threshold, IsGate(g), ~Passes(g)
    PROVE  TasksNow # NoTasks
<1>1. CASE g < Threshold
  <2>1. PICK s \in Screens : g = Held(s)
    BY DEF IsGate
  <2>2. s \in FixTasks
    BY <1>1, <2>1, GateTypes DEF FixTasks, Threshold
  <2> QED BY <2>2 DEF TasksNow, NoTasks
<1>2. CASE ~Ok
  <2>1. Open # 0
    BY <1>2 DEF Ok
  <2>2. tree.nav \in Nav /\ BlankScreens \in SUBSET Screens
    BY DEF Inv, TypeOK, BlankScreens
  <2>3. ~(/\ MissingScreens(tree.nav) = {} /\ DeadLinks(tree.nav) = {}
          /\ MissingEdges(tree.nav) = {} /\ BlankScreens = {})
    BY <2>1, <2>2, AuditEmpty DEF Open
  <2> QED BY <2>3 DEF TasksNow, NoTasks, NavAudit
<1>3. CASE CloneRisk
  <2>1. Copies # {}
    <3>1. CASE Rendered = {}
      BY <3>1, SettingsAssumption DEF SettingsAssumption, Copies, Seen
    <3>2. CASE 2 * Cardinality(Copies \cap Rendered) > Cardinality(Rendered)
      <4>1. SUFFICES ASSUME Copies = {} PROVE FALSE
        OBVIOUS
      <4>2. Copies \cap Rendered = {}
        BY <4>1
      <4>3. Cardinality(Copies \cap Rendered) = 0
        BY <4>2, FS_EmptySet
      <4>4. IsFiniteSet(Rendered)
        BY SettingsAssumption, FS_Subset DEF SettingsAssumption, Rendered
      <4>5. Cardinality(Rendered) \in Nat
        BY <4>4, FS_CardinalityType
      <4> QED BY <3>2, <4>3, <4>5
    <3> QED BY <1>3, <3>1, <3>2 DEF CloneRisk
  <2> QED BY <1>3, <2>1 DEF TasksNow, NoTasks
<1>4. g < Threshold \/ ~Ok \/ CloneRisk
  BY DEF Passes, Threshold
<1> QED BY <1>1, <1>2, <1>3, <1>4

\* When the audit is passed the navigation is whole.
LEMMA OkWhole ==
    ASSUME Inv, Ok, StructuralGate
    PROVE  /\ \A s \in Screens : s \in Reachable(tree.nav) /\ png[s] # "blank"
           /\ \A c \in tree.nav.calls : c[2] \in Reachable(tree.nav) \cup {Interpolated}
           /\ \A e \in Edges : \/ Followable(e)
                               \/ e[1] \in tree.nav.covered \ (tree.nav.routes \cup tree.nav.files)
<1>1. tree.nav \in Nav /\ BlankScreens \in SUBSET Screens
  BY DEF Inv, TypeOK, BlankScreens
<1>2. Open = 0
  BY DEF Ok
<1>3. /\ MissingScreens(tree.nav) = {} /\ DeadLinks(tree.nav) = {}
      /\ MissingEdges(tree.nav) = {} /\ BlankScreens = {}
  BY <1>1, <1>2, AuditEmpty DEF Open
<1>4. \A s \in Screens : s \in Reachable(tree.nav) /\ png[s] # "blank"
  BY <1>3 DEF MissingScreens, BlankScreens
<1>5. \A c \in tree.nav.calls : c[2] \in Reachable(tree.nav) \cup {Interpolated}
  BY <1>3 DEF DeadLinks
<1>6. ASSUME NEW e \in Edges
      PROVE  \/ Followable(e)
             \/ e[1] \in tree.nav.covered \ (tree.nav.routes \cup tree.nav.files)
  <2>1. e[1] \in Screens /\ e[2] \in Screens
    BY GraphAssumption DEF GraphAssumption
  <2>2. CASE SourceFiles(tree.nav, e[1]) = {}
    <3>1. e[1] \notin tree.nav.files \cup tree.nav.routes
      <4>1. Router # e[1]
        BY <2>1, NamesAssumption DEF NamesAssumption
      <4> QED BY <2>2, <4>1 DEF SourceFiles
    <3> QED BY <2>1, <1>4, <3>1 DEF Reachable
  <2>3. CASE SourceFiles(tree.nav, e[1]) # {}
    <3>1. PICK f \in SourceFiles(tree.nav, e[1]) : <<f, e[2]>> \in tree.nav.calls
      BY <1>3, <2>3 DEF MissingEdges
    <3>2. f \in {e[1], Router}
      BY DEF SourceFiles
    <3> QED BY <1>4, <2>1, <3>1, <3>2 DEF Followable
  <2> QED BY <2>2, <2>3
<1> QED BY <1>4, <1>5, <1>6

-----------------------------------------------------------------------------
(***************************************************************************)
(* Every step keeps the invariant.                                         *)
(***************************************************************************)
LEMMA MisfortuneType == ASSUME TypeOK, Misfortune PROVE failures' \in 0..MaxFailures
BY SettingsAssumption DEF TypeOK, Misfortune, SettingsAssumption

LEMMA EditsTyped ==
    ASSUME NEW t \in Edits PROVE t.look \in Page /\ t.nav \in Nav /\ t.compiles \in BOOLEAN
BY GraphAssumption DEF Edits, GraphAssumption

\* The named properties of a state that has not ended and is not about to correct.
LEMMA StillRunning ==
    ASSUME pc' \notin {"ended", "settled", "correct"}, stop' = None
    PROVE  ReportFresh' /\ PassedWasShown' /\ ClosedMeansClosed' /\ NeverIdle'
BY DEF ReportFresh, PassedWasShown, ClosedMeansClosed, NeverIdle, None

LEMMA BuildInv == ASSUME Inv, Build PROVE Inv'
<1> USE DEF Build, loop
<1>1. TypeOK'
  BY DEF Inv, TypeOK
<1>2. HistoryInv'
  BY DEF Inv, HistoryInv, Rendered
<1>3. CopiesInv' /\ StopInv'
  BY NamesAssumption DEF Inv, TypeOK, CopiesInv, StopInv, NamesAssumption, None
<1>4. pc' \notin {"ended", "settled", "correct"} /\ stop' = None
  BY <1>3 DEF Inv, StopInv
<1> QED BY <1>1, <1>2, <1>3, <1>4, StillRunning DEF Inv

\* A run that raises.
LEMMA RaiseInv ==
    ASSUME Inv, Raise, web' \in {web, NoPage}, failures' \in 0..MaxFailures
    PROVE  Inv'
<1> USE DEF Raise
<1>1. TypeOK'
  BY DEF Inv, TypeOK
<1>2. HistoryInv'
  BY DEF Inv, HistoryInv, Rendered
<1>3. CopiesInv' /\ StopInv'
  BY DEF CopiesInv, StopInv
<1>4. ReportFresh' /\ PassedWasShown' /\ ClosedMeansClosed' /\ NeverIdle'
  BY DEF ReportFresh, PassedWasShown, ClosedMeansClosed, NeverIdle
<1> QED BY <1>1, <1>2, <1>3, <1>4 DEF Inv

LEMMA BuildFailsInv == ASSUME Inv, BuildFails PROVE Inv'
<1>1. failures' \in 0..MaxFailures
  BY MisfortuneType DEF BuildFails, Inv, TypeOK
<1>2. CASE /\ pc = "build" /\ web # NoPage /\ pc' = "render" /\ missed' = missed \cup {"build"}
           /\ UNCHANGED <<loop, files, stop, job, met>>
  <2> USE <1>2 DEF loop, files
  <2>1. TypeOK'
    BY <1>1 DEF Inv, TypeOK
  <2>2. HistoryInv'
    BY DEF Inv, HistoryInv, Rendered
  <2>3. CopiesInv' /\ StopInv'
    BY DEF Inv, CopiesInv, StopInv
  <2>4. pc' \notin {"ended", "settled", "correct"} /\ stop' = None
    BY <2>3 DEF StopInv
  <2> QED BY <2>1, <2>2, <2>3, <2>4, StillRunning DEF Inv
<1>3. CASE web' = NoPage /\ Raise
  BY <1>1, <1>3, RaiseInv
<1> QED BY <1>2, <1>3 DEF BuildFails

LEMMA RenderInv == ASSUME Inv, Render PROVE Inv'
<1>1. PICK lost \in SUBSET Screens :
        /\ IF lost = {} THEN UNCHANGED <<missed, failures>>
                        ELSE Misfortune /\ missed' = missed \cup {"shot"}
        /\ png' = [s \in Screens |-> IF s \in lost THEN png[s] ELSE web[s]]
  BY DEF Render
<1>2. /\ pc = "render" /\ pc' = "judge"
      /\ met' = met \cup {s \in Screens : png'[s] \in Good}
      /\ UNCHANGED <<loop, tree, web, judge, stop, job>>
  BY DEF Render, Good
<1>3. web \in Page
  BY <1>2 DEF Inv, TypeOK, CopiesInv
<1>4. failures' \in 0..MaxFailures
  BY <1>1, MisfortuneType DEF Inv, TypeOK
<1>5. png' \in Shots
  BY <1>1, <1>3 DEF Inv, TypeOK, Shots, Page
<1>6. TypeOK'
  BY <1>1, <1>2, <1>4, <1>5 DEF Inv, TypeOK, loop
<1>7. HistoryInv'
  <2>1. \A s \in Screens : png'[s] \in Good => s \in met'
    BY <1>2
  <2>2. met \subseteq met' /\ UNCHANGED <<judge, frozen>>
    BY <1>2 DEF loop
  <2>3. Rendered \subseteq Rendered'
    BY <1>1, <1>3 DEF Rendered, Page, Looks, None
  <2> QED BY <2>1, <2>2, <2>3 DEF Inv, HistoryInv
<1>8. CopiesInv' /\ StopInv'
  <2>1. missed' = {} => missed = {} /\ lost = {}
    BY <1>1
  <2>2. missed' = {} => png' = web /\ web = tree.look
    <3>1. ASSUME missed' = {} PROVE png' = [s \in Screens |-> web[s]]
      BY <1>1, <2>1, <3>1
    <3> QED BY <1>2, <1>3, <2>1, <3>1 DEF Page, Inv, CopiesInv
  <2> QED BY <1>2, <2>2 DEF Inv, CopiesInv, StopInv
<1>9. pc' \notin {"ended", "settled", "correct"} /\ stop' = None
  BY <1>2, <1>8 DEF StopInv
<1> QED BY <1>6, <1>7, <1>8, <1>9, StillRunning DEF Inv

LEMMA JudgeInv == ASSUME Inv, Judge PROVE Inv'
<1>1. PICK forgotten \in SUBSET Rendered :
        /\ IF forgotten = {} THEN UNCHANGED <<missed, failures>>
                             ELSE Misfortune /\ missed' = missed \cup {"judge"}
        /\ judge' = [s \in Screens |-> IF s \in forgotten THEN None ELSE png[s]]
  BY DEF Judge
<1>2. /\ pc = "judge" /\ pc' = "decide"
      /\ UNCHANGED <<loop, tree, web, png, stop, job, met>>
  BY DEF Judge
<1>3. failures' \in 0..MaxFailures
  BY <1>1, MisfortuneType DEF Inv, TypeOK
<1>4. judge' \in Shots
  BY <1>1 DEF Inv, TypeOK, Shots
<1>5. TypeOK'
  BY <1>1, <1>2, <1>3, <1>4 DEF Inv, TypeOK, loop
<1>6. HistoryInv'
  BY <1>1, <1>2 DEF Inv, HistoryInv, Rendered, Good, None, loop
<1>7. CopiesInv' /\ StopInv'
  <2>1. missed' = {} => missed = {} /\ forgotten = {}
    BY <1>1
  <2>2. missed' = {} => judge' = png
    <3>1. ASSUME missed' = {} PROVE judge' = [s \in Screens |-> png[s]]
      BY <1>1, <2>1, <3>1
    <3> QED BY <3>1 DEF Inv, TypeOK, Shots
  <2>3. judge' # NoFile
    BY <1>4, NamesAssumption DEF NamesAssumption
  <2> QED BY <1>2, <2>1, <2>2, <2>3 DEF Inv, CopiesInv, StopInv
<1>8. pc' \notin {"ended", "settled", "correct"} /\ stop' = None
  BY <1>2, <1>7 DEF StopInv
<1> QED BY <1>5, <1>6, <1>7, <1>8, StillRunning DEF Inv

LEMMA JudgeFailsInv == ASSUME Inv, JudgeFails PROVE Inv'
<1>1. failures' \in 0..MaxFailures
  BY MisfortuneType DEF JudgeFails, Inv
<1>2. CASE judge = NoFile
  BY <1>1, <1>2, RaiseInv DEF JudgeFails
<1>3. CASE judge # NoFile
  <2>1. /\ pc = "judge" /\ pc' = "decide" /\ missed' = missed \cup {"judge"}
        /\ UNCHANGED <<loop, files, stop, job, met>>
    BY <1>3 DEF JudgeFails
  <2>2. TypeOK'
    BY <1>1, <2>1 DEF Inv, TypeOK, loop, files
  <2>3. HistoryInv'
    BY <2>1 DEF Inv, HistoryInv, Rendered, loop, files
  <2>4. CopiesInv' /\ StopInv'
    BY <1>3, <2>1 DEF Inv, CopiesInv, StopInv, files
  <2>5. pc' \notin {"ended", "settled", "correct"} /\ stop' = None
    BY <2>1, <2>4 DEF StopInv
  <2> QED BY <2>2, <2>3, <2>4, <2>5, StillRunning DEF Inv
<1> QED BY <1>2, <1>3

\* The three ways to stop with a report.
LEMMA StopStepInv ==
    ASSUME Inv, pc = "decide",
           NEW reason \in {"all_closed", "max_iterations", "no_improvement"}, Stop(reason),
           reason = "all_closed" => \E g \in 0..Threshold : IsGate(g) /\ Passes(g)
    PROVE  Inv'
<1> USE DEF Stop, files
<1>1. judge # NoFile
  BY DEF Inv, CopiesInv
<1>2. FrozenNow \in SUBSET Screens /\ FrozenNow \subseteq met /\ FrozenNow \subseteq Rendered
  BY <1>1, FrozenShown
<1>3. TypeOK'
  BY <1>2 DEF Inv, TypeOK
<1>4. HistoryInv'
  BY <1>2 DEF Inv, HistoryInv, Rendered
<1>5. CopiesInv' /\ StopInv'
  BY <1>1 DEF CopiesInv, StopInv
<1>6. ReportFresh'
  BY DEF Inv, CopiesInv, ReportFresh
<1>7. CASE reason = "all_closed"
  <2>1. PICK g \in 0..Threshold : IsGate(g) /\ Passes(g)
    BY <1>7
  <2>2. FrozenNow = Screens /\ Ok
    BY <1>1, <2>1, PassedFrozen DEF Passes
  <2>3. PassedWasShown'
    BY <1>2, <2>2 DEF PassedWasShown, Rendered, Inv, TypeOK
  <2>4. ClosedMeansClosed'
    BY <2>2, OkWhole DEF ClosedMeansClosed, Followable
  <2> QED BY <1>3, <1>4, <1>5, <1>6, <2>3, <2>4 DEF Inv, NeverIdle
<1>8. CASE reason # "all_closed"
  BY <1>3, <1>4, <1>5, <1>6, <1>8 DEF Inv, NeverIdle, PassedWasShown, ClosedMeansClosed
<1> QED BY <1>7, <1>8

LEMMA GoOnInv == ASSUME Inv, GoOn PROVE Inv'
<1> USE DEF files
<1>1. PICK g \in 0..Threshold :
        IsGate(g) /\ ~Passes(g) /\ before' = [gate |-> g, open |-> Open, any |-> TRUE]
  BY DEF GoOn
<1>2. /\ pc = "decide" /\ pc' = "correct" /\ frozen' = FrozenNow
      /\ UNCHANGED <<iteration, files, stop, job, missed, met, failures>>
  BY DEF GoOn
<1>3. judge # NoFile
  BY <1>2 DEF Inv, CopiesInv
<1>4. FrozenNow \in SUBSET Screens /\ FrozenNow \subseteq met /\ FrozenNow \subseteq Rendered
  BY <1>3, FrozenShown
<1>5. Open \in Nat
  <2>1. tree.nav \in Nav /\ BlankScreens \in SUBSET Screens
    BY DEF Inv, TypeOK, BlankScreens
  <2> QED BY <2>1, AuditEmpty DEF Open
<1>6. TypeOK'
  BY <1>1, <1>2, <1>4, <1>5 DEF Inv, TypeOK
<1>7. HistoryInv'
  BY <1>2, <1>4 DEF Inv, HistoryInv, Rendered
<1>8. FrozenNow' = FrozenNow
  BY <1>2 DEF FrozenNow, Met, Seen, Rendered
<1>9. CopiesInv' /\ StopInv'
  <2>1. iteration \in Nat /\ MaxIterations \in Nat /\ iteration < MaxIterations
    BY SettingsAssumption DEF GoOn, Inv, TypeOK, SettingsAssumption
  <2> QED BY <1>2, <1>3, <1>8, <2>1 DEF CopiesInv, StopInv, Inv
<1>10. NeverIdle'
  <2>1. TasksNow # NoTasks
    BY <1>1, <1>3, WorkLeft
  <2>2. TasksNow' = TasksNow
    BY <1>2, <1>8
       DEF TasksNow, FixTasks, CloneRisk, Copies, Rendered, Seen, BlankScreens
  <2>3. FixTasks' \cap frozen' = {}
    BY <1>2, <1>8 DEF FixTasks
  <2>4. NoTasks' = NoTasks
    BY DEF NoTasks
  <2> QED BY <2>1, <2>2, <2>3, <2>4 DEF NeverIdle
<1>11. ReportFresh' /\ PassedWasShown' /\ ClosedMeansClosed'
  BY <1>2, <1>9 DEF ReportFresh, PassedWasShown, ClosedMeansClosed, StopInv, None
<1> QED BY <1>6, <1>7, <1>9, <1>10, <1>11 DEF Inv

LEMMA CorrectInv ==
    ASSUME Inv, Correct PROVE Inv'
<1> USE DEF Correct
<1>0. iteration < MaxIterations
  BY DEF Inv, StopInv
<1>1. tree'.look \in Page /\ tree'.nav \in Nav /\ tree'.compiles \in BOOLEAN
  BY EditsTyped DEF Inv, TypeOK
<1>2. TypeOK'
  BY <1>0, <1>1, SettingsAssumption DEF Inv, TypeOK, SettingsAssumption
<1>3. HistoryInv'
  BY DEF Inv, HistoryInv, Rendered
<1>4. CopiesInv' /\ StopInv'
  BY DEF Inv, CopiesInv, StopInv
<1>5. pc' \notin {"ended", "settled", "correct"} /\ stop' = None
  BY <1>4 DEF StopInv
<1> QED BY <1>2, <1>3, <1>4, <1>5, StillRunning DEF Inv

LEMMA CorrectFailsInv == ASSUME Inv, CorrectFails \/ TimesOut PROVE Inv'
<1>1. failures' \in 0..MaxFailures
  BY MisfortuneType DEF CorrectFails, TimesOut, Inv
<1> QED BY <1>1, RaiseInv DEF CorrectFails, TimesOut

LEMMA SettleInv == ASSUME Inv, Settle PROVE Inv'
<1> USE DEF Settle, loop, files
<1>1. TypeOK'
  BY DEF Inv, TypeOK
<1>2. HistoryInv' /\ CopiesInv' /\ StopInv'
  BY DEF Inv, HistoryInv, Rendered, CopiesInv, StopInv
<1>3. ReportFresh' /\ PassedWasShown' /\ ClosedMeansClosed' /\ NeverIdle'
  BY DEF Inv, ReportFresh, PassedWasShown, Rendered, ClosedMeansClosed, Followable, NeverIdle
<1> QED BY <1>1, <1>2, <1>3 DEF Inv

LEMMA StutterInv == ASSUME Inv, UNCHANGED vars PROVE Inv'
<1> USE DEF vars, loop, files
<1>1. TypeOK' /\ HistoryInv' /\ CopiesInv'
  BY DEF Inv, TypeOK, HistoryInv, Rendered, CopiesInv
<1>2. FrozenNow' = FrozenNow
  BY DEF FrozenNow, Met, Seen, Rendered
<1>3. StopInv' /\ ReportFresh' /\ PassedWasShown' /\ ClosedMeansClosed'
  BY <1>2 DEF Inv, StopInv, ReportFresh, PassedWasShown, Rendered, ClosedMeansClosed, Followable
<1>4. TasksNow' = TasksNow /\ FixTasks' = FixTasks
  BY <1>2 DEF TasksNow, FixTasks, CloneRisk, Copies, Rendered, Seen, BlankScreens
<1>5. NeverIdle'
  BY <1>4 DEF Inv, NeverIdle, NoTasks
<1> QED BY <1>1, <1>3, <1>5 DEF Inv

LEMMA NextInv == Inv /\ [Next]_vars => Inv'
<1> SUFFICES ASSUME Inv, [Next]_vars PROVE Inv'
  OBVIOUS
<1>1. ASSUME Pass PROVE Inv'
  BY <1>1, StopStepInv DEF Pass
<1>2. ASSUME LastIteration PROVE Inv'
  BY <1>2, StopStepInv DEF LastIteration
<1>3. ASSUME Plateau PROVE Inv'
  BY <1>3, StopStepInv DEF Plateau
<1> QED
  BY <1>1, <1>2, <1>3, BuildInv, BuildFailsInv, RenderInv, JudgeInv, JudgeFailsInv, GoOnInv,
     CorrectInv, CorrectFailsInv, SettleInv, StutterInv DEF Next

\* The loop keeps its invariant: types, and what the copies have to do with each other.
THEOREM RefineInvariant == Spec => []Inv
<1> QED BY InitInv, NextInv, PTL DEF Spec

\* Type correctness of the refine loop.
THEOREM RefineTypes == Spec => []TypeOK
<1>1. Inv => TypeOK
  BY DEF Inv
<1> QED BY <1>1, RefineInvariant, PTL

\* A report in whose iteration nothing failed is about the tree that is delivered.
THEOREM RefineFresh == Spec => []ReportFresh
<1>1. Inv => ReportFresh
  BY DEF Inv
<1> QED BY <1>1, RefineInvariant, PTL

\* Whatever fails, a passed app has shown every screen at the threshold.
THEOREM RefineShown == Spec => []PassedWasShown
<1>1. Inv => PassedWasShown
  BY DEF Inv
<1> QED BY <1>1, RefineInvariant, PTL

\* A passed app has the navigation of the original, up to the audit's known gaps:
\* interpolated targets, and sources that only a parametric route covers.
THEOREM RefineClosed == Spec => []ClosedMeansClosed
<1>1. Inv => ClosedMeansClosed
  BY DEF Inv
<1> QED BY <1>1, RefineInvariant, PTL

\* An iteration that goes on has work, and leaves the layout of frozen screens alone.
THEOREM RefineWorks == Spec => []NeverIdle
<1>1. Inv => NeverIdle
  BY DEF Inv
<1> QED BY <1>1, RefineInvariant, PTL

=============================================================================
