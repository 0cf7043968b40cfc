------------------------ MODULE CodemagicBuild_proofs -------------------------
(***************************************************************************)
(* For any number of requests, failures, deaths and polls: a final row of  *)
(* CodemagicBuild says how its build has ended, no build has two rows, the *)
(* worker forgets no build that it has started and starts one per message, *)
(* and the last build is one of the head of the branch.                    *)
(***************************************************************************)
EXTENDS CodemagicBuild, FiniteSetTheorems, SequenceTheorems, TLAPS

RemoteBuild == [tree : Nat, made : Nat, yaml : Nat, status : Status]
Row         == [build : Nat, status : Status]

\* What the proofs need of TypeOK, without its bounds.
Types ==
    /\ ident \in Nat /\ rwIdent \in Nat /\ want \in Nat
    /\ head \in [tree : Nat, made : Nat, yaml : Nat]
    /\ remote \in Seq(RemoteBuild) /\ rows \in Seq(Row)
    /\ build \in Nat /\ pc \in Pcs
    /\ crashes \in Nat /\ timeouts \in Nat /\ lostAnswers \in Nat

\* The worker between start_build and the end of the loop holds a build of
\* CodeMagic's, which has a row exactly from InsertRow on; rows name such builds.
BuildHeld ==
    /\ build \in 0..Len(remote)
    /\ pc \in {"row", "poll"} => build # 0
    /\ \A r \in DOMAIN rows : rows[r].build \in 0..Len(remote)
    /\ pc = "row" => \A r \in DOMAIN rows : rows[r].build # build

RowInv == Types /\ BuildHeld /\ RowsTellTruth

\* The steps that touch neither rows nor builds, nor the worker's place.
Aside == UNCHANGED <<rows, remote, build, pc>>

LEMMA SettingsTyped ==
    ASSUME Types, RouteRework \/ RouteButton \/ Codegen \/ ReworkAgain \/ PollFails
    PROVE  Types' /\ Aside
<1> USE DEF Types, Aside
<1>1. CASE RouteRework
  BY <1>1 DEF RouteRework, Misfortune, queue
<1>2. CASE RouteButton
  BY <1>2 DEF RouteButton, codegen
<1>3. CASE ReworkEdit
  BY <1>3 DEF ReworkEdit, queue, history
<1>4. CASE ReworkPush
  BY <1>4 DEF ReworkPush, queue, history
<1>5. CASE ReworkSend
  BY <1>5 DEF ReworkSend, history
<1>6. CASE ReworkAgain
  BY <1>6 DEF ReworkAgain, Misfortune, queue
<1>7. CASE PollFails
  BY <1>7 DEF PollFails, codegen
<1>. QED
  BY <1>1, <1>2, <1>3, <1>4, <1>5, <1>6, <1>7 DEF Codegen

\* A new build goes to the end of CodeMagic's list.
LEMMA BuildAdded ==
    ASSUME Types, remote' = Append(remote, NewBuild)
    PROVE  /\ remote' \in Seq(RemoteBuild) /\ Len(remote') = Len(remote) + 1
           /\ \A b \in 1..Len(remote) : remote'[b] = remote[b]
<1>1. NewBuild \in RemoteBuild
  BY DEF NewBuild, RemoteBuild, Status, TERMINAL
<1>. QED
  BY <1>1 DEF Types

\* A new row goes to the end of the table.
LEMMA RowAdded ==
    ASSUME Types, NEW e \in Row, rows' = Append(rows, e)
    PROVE  /\ rows' \in Seq(Row) /\ DOMAIN rows' = DOMAIN rows \cup {Len(rows) + 1}
           /\ rows'[Len(rows) + 1] = e
           /\ \A r \in DOMAIN rows : rows'[r] = rows[r]
           /\ Len(rows) + 1 \notin DOMAIN rows
  BY DEF Types

\* A poll changes the status of the rows of its build and nothing else.
LEMMA StatusStored ==
    ASSUME Types, build \in 1..Len(remote), StoreStatus
    PROVE  /\ rows' \in Seq(Row) /\ DOMAIN rows' = DOMAIN rows
           /\ \A r \in DOMAIN rows :
                 /\ rows'[r].build = rows[r].build
                 /\ rows[r].build = build => rows'[r].status = remote[build].status
                 /\ rows[r].build # build => rows'[r] = rows[r]
<1>1. remote[build] \in RemoteBuild
  BY DEF Types
<1>2. remote[build].status \in Status
  BY <1>1 DEF RemoteBuild
<1>3. \A r \in DOMAIN rows : rows[r] \in Row
  BY DEF Types
<1>4. \A r \in DOMAIN rows : [rows[r] EXCEPT !.status = remote[build].status] \in Row
  BY <1>2, <1>3 DEF Row
<1>5. DOMAIN rows = 1..Len(rows) /\ Len(rows) \in Nat
  BY DEF Types
<1>6. DOMAIN rows' = DOMAIN rows
  BY DEF StoreStatus
<1>7. \A r \in DOMAIN rows : rows'[r] \in Row
  BY <1>3, <1>4 DEF StoreStatus
<1>8. rows' \in [1..Len(rows) -> Row]
  BY <1>5, <1>6, <1>7 DEF StoreStatus
<1>9. rows' \in Seq(Row)
  BY <1>5, <1>8
<1>10. ASSUME NEW r \in DOMAIN rows
       PROVE  /\ rows'[r].build = rows[r].build
              /\ rows[r].build = build => rows'[r].status = remote[build].status
              /\ rows[r].build # build => rows'[r] = rows[r]
  BY <1>3, <1>10 DEF StoreStatus, Row
<1>. QED
  BY <1>6, <1>9, <1>10

\* CodeMagic ends a build that was still queued.
LEMMA RemoteEnds ==
    ASSUME Types, Remote
    PROVE  /\ remote' \in Seq(RemoteBuild) /\ Len(remote') = Len(remote)
           /\ \A b \in 1..Len(remote) :
                 remote[b].status \in TERMINAL => remote'[b] = remote[b]
<1>1. PICK b \in DOMAIN remote, s \in TERMINAL :
         /\ remote[b].status = "queued"
         /\ remote' = [remote EXCEPT ![b] =
              [tree |-> head.tree, made |-> head.made, yaml |-> head.yaml, status |-> s]]
  BY DEF Remote
<1> DEFINE e == [tree |-> head.tree, made |-> head.made, yaml |-> head.yaml, status |-> s]
<1>2. e \in RemoteBuild
  BY DEF Types, RemoteBuild, Status
<1>3. remote' = [remote EXCEPT ![b] = e]
  BY <1>1
<1> HIDE DEF e
<1>4. remote' \in Seq(RemoteBuild) /\ Len(remote') = Len(remote)
  BY <1>2, <1>3 DEF Types
<1>5. \A c \in 1..Len(remote) : c # b => remote'[c] = remote[c]
  BY <1>3 DEF Types
<1>6. remote[b].status \notin TERMINAL
  BY <1>1 DEF TERMINAL
<1>. QED
  BY <1>4, <1>5, <1>6

LEMMA RowInvInit == Init => RowInv
<1> SUFFICES ASSUME Init PROVE RowInv
  OBVIOUS
<1>1. rows \in Seq(Row) /\ remote \in Seq(RemoteBuild) /\ DOMAIN rows = {} /\ Len(remote) = 0
  BY DEF Init
<1>. QED
  BY <1>1 DEF Init, RowInv, Types, BuildHeld, RowsTellTruth, Pcs

\* Every step keeps RowInv: CodeMagic ends only queued builds, and the one step
\* that makes a row final stores the status of its build.
LEMMA RowInvStep ==
    ASSUME RowInv, [Next]_vars
    PROVE  RowInv'
<1> USE DEF RowInv
<1>0. DOMAIN rows = 1..Len(rows) /\ Len(rows) \in Nat /\ Len(remote) \in Nat
      /\ \A r \in DOMAIN rows : rows[r] \in Row
  BY DEF Types
<1>1. CASE RouteRework \/ RouteButton \/ Codegen \/ ReworkAgain \/ PollFails
  <2>1. Types' /\ Aside
    BY <1>1, SettingsTyped
  <2>. QED
    BY <2>1 DEF Aside, BuildHeld, RowsTellTruth
<1>2. CASE Remote
  <2>1. /\ remote' \in Seq(RemoteBuild) /\ Len(remote') = Len(remote)
        /\ \A b \in 1..Len(remote) : remote[b].status \in TERMINAL => remote'[b] = remote[b]
    BY <1>2, RemoteEnds
  <2>2. UNCHANGED <<ident, rows, head, lag, codegen, queue, history>>
    BY <1>2 DEF Remote
  <2>3. Types' /\ BuildHeld'
    BY <2>1, <2>2 DEF Types, BuildHeld, codegen, queue, history
  <2>4. \A r \in DOMAIN rows : rows[r].build # 0 => rows[r].build \in 1..Len(remote)
    BY <1>0 DEF BuildHeld
  <2>5. RowsTellTruth'
    BY <2>1, <2>2, <2>4 DEF RowsTellTruth
  <2>. QED
    BY <2>3, <2>5
<1>3. CASE Deliver \/ Raise \/ YamlGet \/ YamlPut \/ YamlFails \/ TimeOut \/ Ack \/ Crash
  <2>1. /\ rows' = rows /\ remote' = remote /\ build' \in {0, build}
        /\ pc' \in {"idle", "yamlGet", "yamlPut", "start", "ack"}
    BY <1>3 DEF Deliver, Raise, YamlGet, YamlPut, YamlFails, TimeOut, Ack, Crash, Forget
  <2>2. ident' = ident /\ rwIdent' = rwIdent /\ want' \in {0, ident, want}
    BY <1>3 DEF Deliver, Raise, YamlGet, YamlPut, YamlFails, TimeOut, Ack, Crash, Forget, codegen
  <2>3. head' \in [tree : Nat, made : Nat, yaml : Nat]
    BY <1>3 DEF Types, Deliver, Raise, YamlGet, YamlPut, YamlFails, TimeOut, Ack, Crash
  <2>4. crashes' \in Nat /\ timeouts' \in Nat /\ lostAnswers' \in Nat
    BY <1>3 DEF Types, Deliver, Raise, YamlGet, YamlPut, YamlFails, TimeOut, Ack, Crash, history
  <2>5. Types'
    BY <2>1, <2>2, <2>3, <2>4 DEF Types, Pcs
  <2>. QED
    BY <1>0, <2>1, <2>5 DEF BuildHeld, RowsTellTruth
<1>4. CASE Start
  <2>1. /\ remote' \in Seq(RemoteBuild) /\ Len(remote') = Len(remote) + 1
        /\ \A b \in 1..Len(remote) : remote'[b] = remote[b]
    BY <1>4, BuildAdded DEF Start
  <2>2. /\ UNCHANGED <<ident, rows, head, codegen, crashes, timeouts, lostAnswers>>
        /\ build' = Len(remote') /\ pc' = "row" /\ want' = 0
    BY <1>4 DEF Start, history
  <2>3. Types'
    BY <1>0, <2>1, <2>2 DEF Types, codegen, Pcs
  <2>4. \A r \in DOMAIN rows : rows[r].build \in 0..Len(remote)
    BY DEF BuildHeld
  <2>5. BuildHeld'
    BY <1>0, <2>1, <2>2, <2>4 DEF BuildHeld
  <2>6. RowsTellTruth'
    BY <1>0, <2>1, <2>2, <2>4 DEF RowsTellTruth
  <2>. QED
    BY <2>3, <2>5, <2>6
<1>5. CASE StartFails
  <2> DEFINE e == [build |-> 0, status |-> "failed"]
  <2>1. e \in Row /\ e.build = 0
    BY DEF Row, Status, TERMINAL
  <2>2. rows' = Append(rows, e)
    BY <1>5 DEF StartFails
  <2> HIDE DEF e
  <2>3. /\ rows' \in Seq(Row) /\ DOMAIN rows' = DOMAIN rows \cup {Len(rows) + 1}
        /\ rows'[Len(rows) + 1] = e /\ \A r \in DOMAIN rows : rows'[r] = rows[r]
    BY <2>1, <2>2, RowAdded
  <2>4. /\ remote' \in Seq(RemoteBuild) /\ Len(remote') \in {Len(remote), Len(remote) + 1}
        /\ \A b \in 1..Len(remote) : remote'[b] = remote[b]
    BY <1>5, BuildAdded DEF StartFails, Types
  <2>5. /\ UNCHANGED <<ident, head, codegen, want, build, crashes, timeouts>> /\ pc' = "ack"
        /\ lostAnswers' \in {lostAnswers, lostAnswers + 1}
    BY <1>5 DEF StartFails
  <2>6. Types'
    BY <2>3, <2>4, <2>5 DEF Types, codegen, Pcs
  <2>7. \A r \in DOMAIN rows : rows[r].build \in 0..Len(remote)
    BY DEF BuildHeld
  <2>8. BuildHeld'
    BY <1>0, <2>1, <2>3, <2>4, <2>5, <2>7 DEF BuildHeld
  <2>9. RowsTellTruth'
    BY <1>0, <2>1, <2>3, <2>4, <2>7 DEF RowsTellTruth
  <2>. QED
    BY <2>6, <2>8, <2>9
<1>6. CASE InsertRow
  <2> DEFINE e == [build |-> build, status |-> "queued"]
  <2>1. e \in Row /\ e.build = build /\ e.status \notin TERMINAL
    BY DEF Types, Row, Status, TERMINAL
  <2>2. rows' = Append(rows, e)
    BY <1>6 DEF InsertRow
  <2> HIDE DEF e
  <2>3. /\ rows' \in Seq(Row) /\ DOMAIN rows' = DOMAIN rows \cup {Len(rows) + 1}
        /\ rows'[Len(rows) + 1] = e /\ \A r \in DOMAIN rows : rows'[r] = rows[r]
    BY <2>1, <2>2, RowAdded
  <2>4. /\ UNCHANGED <<ident, head, remote, codegen, want, build, crashes, timeouts, lostAnswers>>
        /\ pc = "row" /\ pc' = "poll"
    BY <1>6 DEF InsertRow, history
  <2>5. Types'
    BY <2>3, <2>4 DEF Types, codegen, Pcs
  <2>6. BuildHeld'
    BY <2>1, <2>3, <2>4 DEF BuildHeld
  <2>7. RowsTellTruth'
    BY <2>1, <2>3, <2>4 DEF RowsTellTruth, BuildHeld
  <2>. QED
    BY <2>5, <2>6, <2>7
<1>7. CASE Poll
  <2>1. build \in 1..Len(remote) /\ StoreStatus
    BY <1>0, <1>7 DEF Poll, BuildHeld
  <2>2. /\ rows' \in Seq(Row) /\ DOMAIN rows' = DOMAIN rows
        /\ \A r \in DOMAIN rows :
              /\ rows'[r].build = rows[r].build
              /\ rows[r].build = build => rows'[r].status = remote[build].status
              /\ rows[r].build # build => rows'[r] = rows[r]
    BY <2>1, StatusStored
  <2>3. /\ UNCHANGED <<ident, head, remote, codegen, want, build, crashes, timeouts, lostAnswers>>
        /\ pc' \in {"poll", "ack"}
    BY <1>7 DEF Poll, history
  <2>4. Types'
    BY <2>2, <2>3 DEF Types, codegen, Pcs
  <2>5. BuildHeld'
    BY <2>1, <2>2, <2>3 DEF BuildHeld
  <2>6. RowsTellTruth'
    BY <2>2, <2>3 DEF RowsTellTruth
  <2>. QED
    BY <2>4, <2>5, <2>6
<1>8. CASE UNCHANGED vars
  BY <1>8 DEF vars, codegen, queue, history, Types, BuildHeld, RowsTellTruth
<1>. QED
  BY <1>1, <1>2, <1>3, <1>4, <1>5, <1>6, <1>7, <1>8 DEF Next, Delivery

\* A row of CodemagicBuild is final only with the status its build ended with, and
\* no build has two rows, whatever is redelivered, times out or fails.
THEOREM RowsTrue == Spec => []RowsTellTruth
<1>1. RowInv => RowsTellTruth
  BY DEF RowInv
<1>. QED
  BY <1>1, RowInvInit, RowInvStep, PTL DEF Spec

(***************************************************************************)
(* No build is forgotten.                                                  *)
(***************************************************************************)

\* The open rows and the builds without a row that the worker will not deal with:
\* while it polls, the row of its build is going to be closed; between start_build
\* and InsertRow its build is going to have a row.
OpenElse    == {r \in Open : pc = "poll" => rows[r].build # build}
RowlessElse == {b \in Rowless : pc = "row" => b # build}

AccountInv ==
    /\ RowInv
    /\ Cardinality(OpenElse) <= crashes + timeouts
    /\ Cardinality(RowlessElse) <= crashes + lostAnswers

\* Both sets are finite, and one element more is one more at most.
LEMMA Finite ==
    ASSUME Types
    PROVE  /\ IsFiniteSet(OpenElse) /\ Cardinality(OpenElse) \in Nat
           /\ IsFiniteSet(RowlessElse) /\ Cardinality(RowlessElse) \in Nat
<1>1. /\ DOMAIN rows = 1..Len(rows) /\ Len(rows) \in Nat
      /\ DOMAIN remote = 1..Len(remote) /\ Len(remote) \in Nat
  BY DEF Types
<1>2. IsFiniteSet(DOMAIN rows) /\ IsFiniteSet(DOMAIN remote)
  BY <1>1, FS_Interval
<1>3. OpenElse \subseteq DOMAIN rows /\ RowlessElse \subseteq DOMAIN remote
  BY DEF OpenElse, Open, RowlessElse, Rowless
<1>. QED
  BY <1>2, <1>3, FS_Subset, FS_CardinalityType

LEMMA OneMore ==
    ASSUME NEW S, IsFiniteSet(S), NEW x, NEW T, T \subseteq S \cup {x}
    PROVE  Cardinality(T) \in Nat /\ Cardinality(T) <= Cardinality(S) + 1
<1>1. IsFiniteSet(S \cup {x}) /\ Cardinality(S) \in Nat
  BY FS_AddElement, FS_CardinalityType
<1>2. Cardinality(S \cup {x}) \in Nat /\ Cardinality(S \cup {x}) <= Cardinality(S) + 1
  BY <1>1, FS_AddElement
<1>3. Cardinality(T) \in Nat /\ Cardinality(T) <= Cardinality(S \cup {x})
  BY <1>1, FS_Subset, FS_CardinalityType
<1>. QED
  BY <1>1, <1>2, <1>3

LEMMA AccountStep ==
    ASSUME AccountInv, [Next]_vars
    PROVE  AccountInv'
<1>1. RowInv /\ Types /\ RowInv'
  BY RowInvStep DEF AccountInv, RowInv
<1>2. /\ IsFiniteSet(OpenElse) /\ Cardinality(OpenElse) \in Nat
      /\ IsFiniteSet(RowlessElse) /\ Cardinality(RowlessElse) \in Nat
  BY <1>1, Finite
<1>3. /\ DOMAIN rows = 1..Len(rows) /\ Len(rows) \in Nat
      /\ DOMAIN remote = 1..Len(remote) /\ Len(remote) \in Nat
      /\ \A r \in DOMAIN rows : rows[r].build \in 0..Len(remote)
  <2>1. /\ DOMAIN rows = 1..Len(rows) /\ Len(rows) \in Nat
        /\ DOMAIN remote = 1..Len(remote) /\ Len(remote) \in Nat
    BY <1>1 DEF Types
  <2>2. \A r \in DOMAIN rows : rows[r].build \in 0..Len(remote)
    BY <1>1 DEF RowInv, BuildHeld
  <2>. QED
    BY <2>1, <2>2
<1>4. /\ crashes \in Nat /\ timeouts \in Nat /\ lostAnswers \in Nat
      /\ crashes' \in Nat /\ timeouts' \in Nat /\ lostAnswers' \in Nat
  BY <1>1 DEF RowInv, Types
<1>5. /\ Cardinality(OpenElse) <= crashes + timeouts
      /\ Cardinality(RowlessElse) <= crashes + lostAnswers
  BY DEF AccountInv
<1>6. CASE RouteRework \/ RouteButton \/ Codegen \/ ReworkAgain \/ PollFails
  <2>1. Aside
    BY <1>1, <1>6, SettingsTyped
  <2>2. OpenElse' = OpenElse /\ RowlessElse' = RowlessElse
    BY <2>1 DEF Aside, OpenElse, Open, RowlessElse, Rowless
  <2>3. crashes' >= crashes /\ timeouts' >= timeouts /\ lostAnswers' >= lostAnswers
    BY <1>4, <1>6 DEF RouteRework, RouteButton, Codegen, ReworkEdit, ReworkPush, ReworkSend,
        ReworkAgain, PollFails, history
  <2>. QED
    BY <1>1, <1>2, <1>4, <1>5, <2>2, <2>3 DEF AccountInv
<1>7. CASE Remote
  <2>1. Len(remote') = Len(remote) /\ remote' \in Seq(RemoteBuild)
    BY <1>1, <1>7, RemoteEnds
  <2>2. rows' = rows /\ build' = build /\ pc' = pc /\ UNCHANGED <<crashes, timeouts, lostAnswers>>
    BY <1>7 DEF Remote, queue, history
  <2>3. DOMAIN remote' = DOMAIN remote
    BY <1>3, <2>1
  <2>4. OpenElse' = OpenElse /\ RowlessElse' = RowlessElse
    BY <2>2, <2>3 DEF OpenElse, Open, RowlessElse, Rowless
  <2>. QED
    BY <1>1, <1>5, <2>2, <2>4 DEF AccountInv
<1>8. CASE Deliver \/ Raise \/ YamlGet \/ YamlPut \/ YamlFails \/ Ack
  <2>1. /\ rows' = rows /\ remote' = remote /\ pc \notin {"row", "poll"}
        /\ pc' \notin {"row", "poll"} /\ UNCHANGED <<crashes, timeouts, lostAnswers>>
    BY <1>8 DEF Deliver, Raise, YamlGet, YamlPut, YamlFails, Ack, Forget, history
  <2>2. OpenElse' = OpenElse /\ RowlessElse' = RowlessElse
    BY <2>1 DEF OpenElse, Open, RowlessElse, Rowless
  <2>. QED
    BY <1>1, <1>5, <2>1, <2>2 DEF AccountInv
<1>9. CASE Start
  <2>1. /\ rows' = rows /\ pc = "start" /\ pc' = "row" /\ build' = Len(remote')
        /\ UNCHANGED <<crashes, timeouts, lostAnswers>>
        /\ remote' = Append(remote, NewBuild)
    BY <1>9 DEF Start, history
  <2>2. remote' \in Seq(RemoteBuild) /\ Len(remote') = Len(remote) + 1
    BY <1>1, <2>1, BuildAdded
  <2>3. DOMAIN remote' = DOMAIN remote \cup {build'}
    BY <1>3, <2>1, <2>2
  <2>4. OpenElse' = OpenElse /\ RowlessElse' \subseteq RowlessElse
    BY <2>1, <2>3 DEF OpenElse, Open, RowlessElse, Rowless
  <2>5. Cardinality(RowlessElse') \in Nat /\ Cardinality(RowlessElse') <= Cardinality(RowlessElse)
    BY <1>2, <2>4, FS_Subset, FS_CardinalityType
  <2>. QED
    BY <1>1, <1>2, <1>4, <1>5, <2>1, <2>4, <2>5 DEF AccountInv
<1>10. CASE StartFails
  <2> DEFINE e == [build |-> 0, status |-> "failed"]
  <2>1. e \in Row /\ e.build = 0 /\ e.status \in TERMINAL
    BY DEF Row, Status, TERMINAL
  <2>2. /\ rows' = Append(rows, e) /\ pc = "start" /\ pc' = "ack"
        /\ UNCHANGED <<crashes, timeouts>>
        /\ \/ remote' = remote /\ lostAnswers' = lostAnswers
           \/ remote' = Append(remote, NewBuild) /\ lostAnswers' = lostAnswers + 1
    BY <1>10 DEF StartFails
  <2> HIDE DEF e
  <2>3. /\ DOMAIN rows' = DOMAIN rows \cup {Len(rows) + 1}
        /\ rows'[Len(rows) + 1] = e /\ \A r \in DOMAIN rows : rows'[r] = rows[r]
    BY <1>1, <2>1, <2>2, RowAdded
  <2>4. OpenElse' = OpenElse
    BY <2>1, <2>2, <2>3 DEF OpenElse, Open
  <2>5. CASE remote' = remote /\ lostAnswers' = lostAnswers
    <3>1. RowlessElse' = RowlessElse
      BY <1>3, <2>1, <2>2, <2>3, <2>5 DEF RowlessElse, Rowless
    <3>. QED
      BY <1>1, <1>5, <2>2, <2>4, <2>5, <3>1 DEF AccountInv
  <2>6. CASE remote' = Append(remote, NewBuild) /\ lostAnswers' = lostAnswers + 1
    <3>1. remote' \in Seq(RemoteBuild) /\ Len(remote') = Len(remote) + 1
      BY <1>1, <2>6, BuildAdded
    <3>2. DOMAIN remote' = DOMAIN remote \cup {Len(remote) + 1}
      BY <1>3, <3>1
    <3>3. RowlessElse' \subseteq RowlessElse \cup {Len(remote) + 1}
      BY <2>2, <2>3, <3>2 DEF RowlessElse, Rowless
    <3>4. /\ Cardinality(RowlessElse') \in Nat
          /\ Cardinality(RowlessElse') <= Cardinality(RowlessElse) + 1
      BY <1>2, <3>3, OneMore
    <3>. QED
      BY <1>1, <1>2, <1>4, <1>5, <2>2, <2>4, <2>6, <3>4 DEF AccountInv
  <2>. QED
    BY <2>2, <2>5, <2>6
<1>11. CASE InsertRow
  <2> DEFINE e == [build |-> build, status |-> "queued"]
  <2>1. e \in Row /\ e.build = build
    BY <1>1 DEF Types, Row, Status, TERMINAL
  <2>2. /\ rows' = Append(rows, e) /\ pc = "row" /\ pc' = "poll"
        /\ UNCHANGED <<remote, build, crashes, timeouts, lostAnswers>>
    BY <1>11 DEF InsertRow, history
  <2> HIDE DEF e
  <2>3. /\ DOMAIN rows' = DOMAIN rows \cup {Len(rows) + 1}
        /\ rows'[Len(rows) + 1] = e /\ \A r \in DOMAIN rows : rows'[r] = rows[r]
    BY <1>1, <2>1, <2>2, RowAdded
  <2>4. \A r \in DOMAIN rows : rows[r].build # build
    BY <1>1, <2>2 DEF RowInv, BuildHeld
  <2>5. OpenElse' = OpenElse
    BY <2>1, <2>2, <2>3, <2>4 DEF OpenElse, Open
  <2>6. RowlessElse' = RowlessElse
    BY <2>1, <2>2, <2>3 DEF RowlessElse, Rowless
  <2>. QED
    BY <1>1, <1>5, <2>2, <2>5, <2>6 DEF AccountInv
<1>12. CASE Poll
  <2>1. build \in 1..Len(remote) /\ StoreStatus
    BY <1>1, <1>3, <1>12 DEF Poll, RowInv, BuildHeld
  <2>2. /\ DOMAIN rows' = DOMAIN rows
        /\ \A r \in DOMAIN rows :
              /\ rows'[r].build = rows[r].build
              /\ rows[r].build = build => rows'[r].status = remote[build].status
              /\ rows[r].build # build => rows'[r] = rows[r]
    BY <1>1, <2>1, StatusStored
  <2>3. /\ pc = "poll" /\ UNCHANGED <<remote, build, crashes, timeouts, lostAnswers>>
        /\ pc' = IF remote[build].status \in TERMINAL THEN "ack" ELSE "poll"
    BY <1>12 DEF Poll, history
  <2>4. OpenElse' = OpenElse
    BY <2>2, <2>3 DEF OpenElse, Open
  <2>5. RowlessElse' = RowlessElse
    BY <2>2, <2>3 DEF RowlessElse, Rowless
  <2>. QED
    BY <1>1, <1>5, <2>3, <2>4, <2>5 DEF AccountInv
<1>13. CASE TimeOut \/ Crash
  <2>1. /\ UNCHANGED <<rows, remote>> /\ pc' \notin {"row", "poll"}
        /\ \/ crashes' = crashes + 1 /\ timeouts' = timeouts
           \/ pc = "poll" /\ crashes' = crashes /\ timeouts' = timeouts + 1
        /\ lostAnswers' = lostAnswers
    BY <1>13 DEF TimeOut, Crash, Forget
  <2>2. PICK x : pc = "poll" => \A r \in DOMAIN rows : rows[r].build = build => r = x
    BY <1>1 DEF RowInv, BuildHeld, RowsTellTruth
  <2>3. OpenElse' \subseteq OpenElse \cup {x}
    BY <2>1, <2>2 DEF OpenElse, Open
  <2>4. Cardinality(OpenElse') \in Nat /\ Cardinality(OpenElse') <= Cardinality(OpenElse) + 1
    BY <1>2, <2>3, OneMore
  <2>5. CASE pc = "poll"
    <3>1. RowlessElse' = RowlessElse
      BY <2>1, <2>5 DEF RowlessElse, Rowless
    <3>. QED
      BY <1>1, <1>2, <1>4, <1>5, <2>1, <2>4, <3>1 DEF AccountInv
  <2>6. CASE pc # "poll"
    <3>1. RowlessElse' \subseteq RowlessElse \cup {build}
      BY <2>1 DEF RowlessElse, Rowless
    <3>2. /\ Cardinality(RowlessElse') \in Nat
          /\ Cardinality(RowlessElse') <= Cardinality(RowlessElse) + 1
      BY <1>2, <3>1, OneMore
    <3>. QED
      BY <1>1, <1>2, <1>4, <1>5, <2>1, <2>4, <2>6, <3>2 DEF AccountInv
  <2>. QED
    BY <2>5, <2>6
<1>14. CASE UNCHANGED vars
  <2>1. UNCHANGED <<rows, remote, build, pc, crashes, timeouts, lostAnswers>>
    BY <1>14 DEF vars, queue, history
  <2>2. OpenElse' = OpenElse /\ RowlessElse' = RowlessElse
    BY <2>1 DEF OpenElse, Open, RowlessElse, Rowless
  <2>. QED
    BY <1>1, <1>5, <2>1, <2>2 DEF AccountInv
<1>. QED
  BY <1>6, <1>7, <1>8, <1>9, <1>10, <1>11, <1>12, <1>13, <1>14 DEF Next, Delivery

\* Between two tasks of the delivery worker there is an open row for a death or a
\* deadline only, and a build without a row for a death or a lost answer only:
\* run_codemagic_build forgets nothing on its own.
THEOREM NothingForgotten == Spec => []BuildsAccounted
<1>1. Init => AccountInv
  <2> SUFFICES ASSUME Init PROVE AccountInv
    OBVIOUS
  <2>1. OpenElse = {} /\ RowlessElse = {}
    BY DEF Init, OpenElse, Open, RowlessElse, Rowless
  <2>2. Cardinality(OpenElse) = 0 /\ Cardinality(RowlessElse) = 0
    BY <2>1, FS_EmptySet
  <2>. QED
    BY <2>2, RowInvInit DEF Init, AccountInv
<1>2. AccountInv => BuildsAccounted
  <2> SUFFICES ASSUME AccountInv, pc = "idle"
      PROVE  /\ Cardinality(Open) <= crashes + timeouts
             /\ Cardinality(Rowless) <= crashes + lostAnswers
    BY DEF BuildsAccounted
  <2>1. OpenElse = Open /\ RowlessElse = Rowless
    BY DEF OpenElse, Open, RowlessElse, Rowless
  <2>. QED
    BY <2>1 DEF AccountInv
<1>. QED
  BY <1>1, <1>2, AccountStep, PTL DEF Spec

(***************************************************************************)
(* No build for nothing.                                                   *)
(***************************************************************************)

QueueTypes ==
    /\ queued \in [0..MaxRetries -> Nat] /\ cur \in 0..MaxRetries
    /\ sent \in Nat /\ crashes \in Nat
    /\ remote \in Seq(RemoteBuild)

\* The waiting messages one by one, each with its place among those of as many retries.
Waiting == {t \in (0..MaxRetries) \X Nat : t[2] \in 1..queued[t[1]]}

\* A running task that has not started its build yet.
ToStart == IF pc \in {"yamlGet", "yamlPut", "start"} THEN 1 ELSE 0

\* A message that waits, or whose task is on its way to start_build, has its build
\* before it.
CountInv ==
    /\ QueueTypes /\ IsFiniteSet(Waiting)
    /\ Len(remote) + Cardinality(Waiting) + ToStart <= sent + crashes

\* One more message of n retries is one element more, one less is one less.
LEMMA OneWaits ==
    ASSUME QueueTypes, IsFiniteSet(Waiting), NEW n \in 0..MaxRetries,
           queued' = [queued EXCEPT ![n] = @ + 1]
    PROVE  /\ queued' \in [0..MaxRetries -> Nat]
           /\ IsFiniteSet(Waiting') /\ Cardinality(Waiting') = Cardinality(Waiting) + 1
<1>1. queued' \in [0..MaxRetries -> Nat] /\ queued[n] \in Nat
      /\ queued'[n] = queued[n] + 1 /\ \A k \in 0..MaxRetries : k # n => queued'[k] = queued[k]
  BY DEF QueueTypes
<1>2. Waiting' = Waiting \cup {<<n, queued[n] + 1>>} /\ <<n, queued[n] + 1>> \notin Waiting
  <2>1. ASSUME NEW k \in 0..MaxRetries, NEW i \in Nat
        PROVE  <<k, i>> \in Waiting' <=> <<k, i>> \in Waiting \/ (k = n /\ i = queued[n] + 1)
    <3>1. <<k, i>> \in Waiting' <=> i \in 1..queued'[k]
      BY DEF Waiting
    <3>2. <<k, i>> \in Waiting <=> i \in 1..queued[k]
      BY DEF Waiting
    <3>3. queued[k] \in Nat
      BY DEF QueueTypes
    <3> QED  BY <1>1, <3>1, <3>2, <3>3
  <2>2. <<n, queued[n] + 1>> \notin Waiting
    BY <1>1 DEF Waiting
  <2>3. Waiting \subseteq (0..MaxRetries) \X Nat /\ Waiting' \subseteq (0..MaxRetries) \X Nat
    BY DEF Waiting
  <2>4. \A t \in (0..MaxRetries) \X Nat : t = <<t[1], t[2]>> /\ t[1] \in 0..MaxRetries /\ t[2] \in Nat
    OBVIOUS
  <2>5. \A t \in (0..MaxRetries) \X Nat : t \in Waiting' <=> t \in Waiting \/ t = <<n, queued[n] + 1>>
    BY <2>1, <2>4
  <2>6. <<n, queued[n] + 1>> \in (0..MaxRetries) \X Nat
    BY <1>1
  <2> QED  BY <2>2, <2>3, <2>5, <2>6
<1> QED  BY <1>1, <1>2, FS_AddElement, FS_CardinalityType

LEMMA OneTaken ==
    ASSUME QueueTypes, IsFiniteSet(Waiting), NEW n \in 0..MaxRetries, queued[n] > 0,
           queued' = [queued EXCEPT ![n] = @ - 1]
    PROVE  /\ queued' \in [0..MaxRetries -> Nat]
           /\ IsFiniteSet(Waiting') /\ Cardinality(Waiting') = Cardinality(Waiting) - 1
<1>1. queued' \in [0..MaxRetries -> Nat] /\ queued[n] \in Nat
      /\ queued'[n] = queued[n] - 1 /\ \A k \in 0..MaxRetries : k # n => queued'[k] = queued[k]
  BY DEF QueueTypes
<1>2. Waiting' = Waiting \ {<<n, queued[n]>>} /\ <<n, queued[n]>> \in Waiting
  <2>1. ASSUME NEW k \in 0..MaxRetries, NEW i \in Nat
        PROVE  <<k, i>> \in Waiting' <=> <<k, i>> \in Waiting /\ ~(k = n /\ i = queued[n])
    <3>1. <<k, i>> \in Waiting' <=> i \in 1..queued'[k]
      BY DEF Waiting
    <3>2. <<k, i>> \in Waiting <=> i \in 1..queued[k]
      BY DEF Waiting
    <3>3. queued[k] \in Nat
      BY DEF QueueTypes
    <3> QED  BY <1>1, <3>1, <3>2, <3>3
  <2>2. <<n, queued[n]>> \in Waiting
    BY <1>1 DEF Waiting
  <2>3. Waiting \subseteq (0..MaxRetries) \X Nat /\ Waiting' \subseteq (0..MaxRetries) \X Nat
    BY DEF Waiting
  <2>4. \A t \in (0..MaxRetries) \X Nat : t = <<t[1], t[2]>> /\ t[1] \in 0..MaxRetries /\ t[2] \in Nat
    OBVIOUS
  <2>5. \A t \in (0..MaxRetries) \X Nat : t \in Waiting' <=> t \in Waiting /\ t # <<n, queued[n]>>
    BY <2>1, <2>4
  <2> QED  BY <2>2, <2>3, <2>5
<1> QED  BY <1>1, <1>2, FS_RemoveElement, FS_CardinalityType

LEMMA CountInit == Init => CountInv
<1> SUFFICES ASSUME Init PROVE CountInv
  OBVIOUS
<1>1. MaxRetries \in Nat
  BY BoundsAssumption DEF BoundsAssumption
<1>2. QueueTypes /\ Len(remote) = 0 /\ ToStart = 0 /\ sent \in {0, 1} /\ crashes = 0
  BY <1>1 DEF Init, QueueTypes, ToStart
<1>3. CASE sent = 0
  <2>1. Waiting = {}
    BY <1>3 DEF Init, Waiting
  <2> QED  BY <1>2, <1>3, <2>1, FS_EmptySet DEF CountInv
<1>4. CASE sent = 1
  <2>1. Waiting \subseteq {<<0, 1>>}
    <3>1. \A k \in 0..MaxRetries : queued[k] = IF k = 0 THEN 1 ELSE 0
      BY <1>4 DEF Init
    <3>2. ASSUME NEW t \in Waiting PROVE t = <<0, 1>>
      BY <3>1, <3>2 DEF Waiting
    <3> QED  BY <3>2
  <2>2. IsFiniteSet({<<0, 1>>}) /\ Cardinality({<<0, 1>>}) = 1
    BY FS_Singleton
  <2>3. IsFiniteSet(Waiting) /\ Cardinality(Waiting) <= 1 /\ Cardinality(Waiting) \in Nat
    BY <2>1, <2>2, FS_Subset, FS_CardinalityType
  <2> QED  BY <1>2, <1>4, <2>3 DEF CountInv
<1> QED  BY <1>2, <1>3, <1>4

LEMMA CountStep ==
    ASSUME CountInv, RowInv, [Next]_vars
    PROVE  CountInv'
<1>1. QueueTypes /\ IsFiniteSet(Waiting) /\ Cardinality(Waiting) \in Nat /\ Len(remote) \in Nat
      /\ ToStart \in {0, 1} /\ Len(remote) + Cardinality(Waiting) + ToStart <= sent + crashes
      /\ sent \in Nat /\ crashes \in Nat /\ MaxRetries \in Nat
  BY FS_CardinalityType, BoundsAssumption DEF CountInv, ToStart, QueueTypes, BoundsAssumption
<1>t. Types
  BY DEF RowInv
<1>2. CASE RouteRework \/ ReworkEdit \/ ReworkPush \/ ReworkAgain \/ PollFails
  <2>1. UNCHANGED <<remote, queued, cur, sent, pc>> /\ crashes' \in {crashes, crashes + 1}
    BY <1>2 DEF RouteRework, ReworkEdit, ReworkPush, ReworkAgain, PollFails, queue, history
  <2>2. Waiting' = Waiting /\ ToStart' = ToStart
    BY <2>1 DEF Waiting, ToStart
  <2> QED  BY <1>1, <2>1, <2>2 DEF CountInv, QueueTypes
<1>3. CASE RouteButton \/ ReworkSend
  <2>1. UNCHANGED <<remote, cur, pc, crashes>> /\ sent' = sent + 1 /\ queued' = [queued EXCEPT ![0] = @ + 1]
    BY <1>3 DEF RouteButton, ReworkSend, Enqueue, history
  <2>2. /\ queued' \in [0..MaxRetries -> Nat]
        /\ IsFiniteSet(Waiting') /\ Cardinality(Waiting') = Cardinality(Waiting) + 1
    <3>1. 0 \in 0..MaxRetries
      BY <1>1
    <3> QED  BY <1>1, <2>1, <3>1, OneWaits
  <2>3. ToStart' = ToStart
    BY <2>1 DEF ToStart
  <2> QED  BY <1>1, <2>1, <2>2, <2>3 DEF CountInv, QueueTypes
<1>4. CASE Deliver
  <2>1. PICK n \in 0..MaxRetries :
            queued[n] > 0 /\ queued' = [queued EXCEPT ![n] = @ - 1] /\ cur' = n
    BY <1>4 DEF Deliver
  <2>2. UNCHANGED <<remote, sent, crashes>> /\ pc = "idle" /\ pc' = "yamlGet"
    BY <1>4 DEF Deliver, history
  <2>3. /\ queued' \in [0..MaxRetries -> Nat]
        /\ IsFiniteSet(Waiting') /\ Cardinality(Waiting') = Cardinality(Waiting) - 1
    BY <1>1, <2>1, OneTaken
  <2>4. ToStart' = ToStart + 1
    BY <2>2 DEF ToStart
  <2> QED  BY <1>1, <2>1, <2>2, <2>3, <2>4, SMTT(30) DEF CountInv, QueueTypes
<1>5. CASE Raise
  <2>1. UNCHANGED <<remote, sent, crashes>> /\ pc' = "idle" /\ cur' = 0 /\ Retry /\ ToStart = 1
    BY <1>5 DEF Raise, Forget, ToStart
  <2>2. ToStart' = 0
    BY <2>1 DEF ToStart
  <2>3. CASE queued' = queued
    <3>1. Waiting' = Waiting
      BY <2>3 DEF Waiting
    <3> QED  BY <1>1, <2>1, <2>2, <2>3, <3>1 DEF CountInv, QueueTypes
  <2>4. CASE cur < MaxRetries /\ queued' = [queued EXCEPT ![cur + 1] = @ + 1]
    <3>1. cur + 1 \in 0..MaxRetries
      BY <1>1, <2>4 DEF QueueTypes
    <3>2. /\ queued' \in [0..MaxRetries -> Nat]
          /\ IsFiniteSet(Waiting') /\ Cardinality(Waiting') = Cardinality(Waiting) + 1
      BY <1>1, <2>4, <3>1, OneWaits
    <3> QED  BY <1>1, <2>1, <2>2, <3>2 DEF CountInv, QueueTypes
  <2> QED  BY <2>1, <2>3, <2>4 DEF Retry
<1>6. CASE YamlGet \/ YamlPut \/ YamlFails
  <2>1. UNCHANGED <<remote, queued, cur, sent, crashes>> /\ ToStart = 1 /\ ToStart' = 1
    BY <1>6 DEF YamlGet, YamlPut, YamlFails, ToStart, history
  <2>2. Waiting' = Waiting
    BY <2>1 DEF Waiting
  <2> QED  BY <1>1, <2>1, <2>2 DEF CountInv, QueueTypes
<1>7. CASE Start \/ StartFails
  <2>1. /\ UNCHANGED <<queued, cur, sent, crashes>> /\ ToStart = 1 /\ ToStart' = 0
        /\ remote' = remote \/ remote' = Append(remote, NewBuild)
    BY <1>7 DEF Start, StartFails, ToStart, history
  <2>2. Waiting' = Waiting
    BY <2>1 DEF Waiting
  <2>3. remote' \in Seq(RemoteBuild) /\ Len(remote') <= Len(remote) + 1 /\ Len(remote') \in Nat
    BY <1>1, <1>t, <2>1, BuildAdded DEF QueueTypes
  <2> QED  BY <1>1, <2>1, <2>2, <2>3 DEF CountInv, QueueTypes
<1>8. CASE InsertRow \/ Poll \/ TimeOut \/ Ack
  <2>1. /\ UNCHANGED <<remote, queued, sent, crashes>> /\ ToStart = 0 /\ ToStart' = 0
        /\ cur' \in {cur, 0}
    BY <1>8 DEF InsertRow, Poll, TimeOut, Ack, Forget, ToStart, history
  <2>2. Waiting' = Waiting
    BY <2>1 DEF Waiting
  <2> QED  BY <1>1, <2>1, <2>2 DEF CountInv, QueueTypes
<1>9. CASE Crash
  <2>1. /\ UNCHANGED <<remote, sent>> /\ crashes' = crashes + 1 /\ pc' = "idle" /\ cur' = 0
        /\ queued' = [queued EXCEPT ![cur] = @ + 1]
    BY <1>9 DEF Crash, Forget
  <2>2. /\ queued' \in [0..MaxRetries -> Nat]
        /\ IsFiniteSet(Waiting') /\ Cardinality(Waiting') = Cardinality(Waiting) + 1
    BY <1>1, <2>1, OneWaits DEF QueueTypes
  <2>3. ToStart' = 0
    BY <2>1 DEF ToStart
  <2> QED  BY <1>1, <2>1, <2>2, <2>3, SMTT(30) DEF CountInv, QueueTypes
<1>10. CASE Remote
  <2>1. remote' \in Seq(RemoteBuild) /\ Len(remote') = Len(remote)
    BY <1>t, <1>10, RemoteEnds
  <2>2. UNCHANGED <<queued, cur, sent, pc, crashes>>
    BY <1>10 DEF Remote, queue, history
  <2>3. Waiting' = Waiting /\ ToStart' = ToStart
    BY <2>2 DEF Waiting, ToStart
  <2> QED  BY <1>1, <2>1, <2>2, <2>3 DEF CountInv, QueueTypes
<1>11. CASE UNCHANGED vars
  BY <1>1, <1>11 DEF vars, codegen, queue, history, CountInv, QueueTypes, Waiting, ToStart
<1> QED
  BY <1>2, <1>3, <1>4, <1>5, <1>6, <1>7, <1>8, <1>9, <1>10, <1>11 DEF Next, Delivery, Codegen

\* A message starts one build, and one more only after a death of the worker, whatever
\* run_codemagic_build meets before, at and after start_build.
THEOREM OneBuildEach == Spec => []OneBuildPerMessage
<1>1. CountInv => OneBuildPerMessage
  BY FS_CardinalityType DEF CountInv, QueueTypes, ToStart, OneBuildPerMessage
<1> QED  BY <1>1, RowInvInit, RowInvStep, CountInit, CountStep, PTL DEF Spec

(***************************************************************************)
(* The last build is one of the head of the branch.                        *)
(***************************************************************************)

SettingsTypes ==
    /\ ident \in Nat /\ rwIdent \in Nat /\ reworks \in Nat /\ failures \in Nat
    /\ head \in [tree : Nat, made : Nat, yaml : Nat]
    /\ rwPc \in {"idle", "push", "send"}

\* While nothing failed, the last rework in the queue is the one that compiles the
\* settings as they are into the app: a change of the settings asks for a rework.
ReworkInv ==
    /\ SettingsTypes
    /\ rwPc # "idle" => reworks > 0
    /\ failures = 0 =>
        /\ reworks = 0 => head.made = ident
        /\ reworks = 1 /\ rwPc = "push" => rwIdent = ident
        /\ reworks = 1 /\ rwPc = "send" => head.made = ident

\* No push is to come, and no task that begins after it.
LastTask == failures = 0 /\ head.tree > 1 /\ reworks = 0 /\ \A n \in 0..MaxRetries : queued[n] = 0

\* The worker was shown the codemagic.yaml of the head.
ShownHead == lagged = FALSE

FromHead ==
    /\ Len(remote) > 0
    /\ remote[Len(remote)].tree \in {0, head.tree}
    /\ remote[Len(remote)].tree # 0 => remote[Len(remote)].made = ident

FileFromHead ==
    /\ head.yaml = ident
    /\ remote[Len(remote)].tree # 0 => remote[Len(remote)].yaml = ident

\* What the last task, which begins after the last push, has done at each step.
LatestInv ==
    LastTask =>
        /\ pc = "yamlGet" => want = ident
        /\ pc = "yamlPut" => want = ident /\ (ShownHead => seen = head.yaml)
        /\ pc = "start"   => (ShownHead => head.yaml = ident)
        /\ pc \in {"row", "poll", "ack", "idle"} => FromHead /\ (ShownHead => FileFromHead)
        /\ pc \in {"row", "poll"} => build = Len(remote)
        /\ pc \in {"poll", "ack", "idle"} => Len(rows) > 0 /\ rows[Len(rows)].build = Len(remote)

LEMMA ReworkInvStep ==
    ASSUME ReworkInv, RowInv, [Next]_vars
    PROVE  ReworkInv' /\ failures' >= failures
<1>1. SettingsTypes
  BY DEF ReworkInv
<1>2. CASE RouteRework
  <2>1. CASE reworks' = reworks + 1 /\ ident' \in {ident, ident + 1} /\ UNCHANGED <<failures, rwPc, rwIdent, head>>
    BY <1>1, <2>1 DEF ReworkInv, SettingsTypes
  <2>2. CASE failures' = failures + 1 /\ ident' = ident + 1 /\ UNCHANGED <<reworks, rwPc, rwIdent, head>>
    BY <1>1, <2>2 DEF ReworkInv, SettingsTypes
  <2> QED  BY <1>2, <2>1, <2>2 DEF RouteRework, Misfortune
<1>3. CASE ReworkEdit
  BY <1>1, <1>3 DEF ReworkEdit, ReworkInv, SettingsTypes, history
<1>4. CASE ReworkPush
  BY <1>1, <1>4 DEF ReworkPush, ReworkInv, SettingsTypes, history
<1>5. CASE ReworkSend
  BY <1>1, <1>5 DEF ReworkSend, ReworkInv, SettingsTypes, history
<1>6. CASE ReworkAgain
  BY <1>1, <1>6 DEF ReworkAgain, Misfortune, ReworkInv, SettingsTypes
<1>7. CASE YamlPut
  <2>1. want \in Nat
    BY DEF RowInv, Types
  <2>2. /\ UNCHANGED <<ident, rwIdent, reworks, failures, rwPc>>
        /\ head' = head \/ head' = [head EXCEPT !.yaml = want]
    BY <1>7 DEF YamlPut, codegen, history
  <2>3. head' \in [tree : Nat, made : Nat, yaml : Nat] /\ head'.made = head.made
    BY <1>1, <2>1, <2>2 DEF SettingsTypes
  <2> QED  BY <1>1, <2>2, <2>3 DEF ReworkInv, SettingsTypes
<1>8. CASE UNCHANGED <<ident, head, codegen>> /\ failures' \in {failures, failures + 1}
  BY <1>1, <1>8 DEF ReworkInv, SettingsTypes, codegen
<1>9. CASE RouteButton \/ (Delivery /\ ~YamlPut) \/ Crash \/ Remote \/ UNCHANGED vars
  BY <1>8, <1>9 DEF RouteButton, Delivery, Deliver, Raise, YamlGet, YamlFails, Start, StartFails, InsertRow,
     Poll, PollFails, TimeOut, Ack, Crash, Remote, Misfortune, vars, history
<1> QED
  BY <1>2, <1>3, <1>4, <1>5, <1>6, <1>7, <1>9 DEF Next, Codegen

\* The last task goes on, or there is none yet.
LEMMA LatestStep ==
    ASSUME LatestInv, ReworkInv, CountInv, RowInv, [Next]_vars
    PROVE  LatestInv'
<1> SUFFICES ASSUME LastTask' PROVE LatestInv'
  BY DEF LatestInv
<1>1. SettingsTypes /\ QueueTypes /\ Types /\ MaxRetries \in Nat
  BY BoundsAssumption DEF ReworkInv, CountInv, RowInv, BoundsAssumption
<1>2. failures' = 0 /\ failures = 0 /\ reworks' = 0 /\ \A n \in 0..MaxRetries : queued'[n] = 0
  BY <1>1, ReworkInvStep DEF LastTask, SettingsTypes
<1>3. ~(RouteRework \/ Codegen \/ ReworkAgain \/ RouteButton)
  <2>1. ~RouteRework
    BY <1>1, <1>2 DEF RouteRework, Misfortune, SettingsTypes
  <2>2. ~ReworkEdit /\ ~ReworkPush
    BY <1>1, <1>2 DEF ReworkEdit, ReworkPush, ReworkInv
  <2>3. ~RouteButton /\ ~ReworkSend
    <3>1. ASSUME Enqueue PROVE FALSE
      <4>1. 0 \in 0..MaxRetries /\ queued[0] \in Nat /\ queued'[0] = queued[0] + 1
        BY <1>1, <3>1 DEF Enqueue, QueueTypes
      <4> QED  BY <1>2, <4>1
    <3> QED  BY <3>1 DEF RouteButton, ReworkSend
  <2>4. ~ReworkAgain
    BY <1>1, <1>2 DEF ReworkAgain, Misfortune, ReworkInv, SettingsTypes
  <2> QED  BY <2>1, <2>2, <2>3, <2>4 DEF Codegen
<1>4. ~(Raise \/ YamlFails \/ StartFails \/ PollFails)
  BY <1>1, <1>2 DEF Raise, YamlFails, StartFails, PollFails, Misfortune, SettingsTypes
<1>5. ~Crash
  <2>1. ASSUME Crash PROVE FALSE
    <3>1. cur \in 0..MaxRetries /\ queued[cur] \in Nat /\ queued'[cur] = queued[cur] + 1
      BY <1>1, <2>1 DEF Crash, QueueTypes
    <3> QED  BY <1>2, <3>1
  <2> QED  BY <2>1
<1>6. CASE Deliver
  BY <1>6 DEF Deliver, LatestInv
<1>7. CASE YamlGet
  <2>1. LastTask /\ pc = "yamlGet" /\ UNCHANGED <<ident, head, want>>
        /\ pc' = IF seen' = want THEN "start" ELSE "yamlPut"
    BY <1>2, <1>7 DEF YamlGet, LastTask, codegen, history
  <2>2. ShownHead' => seen' = head.yaml
    BY <1>7 DEF YamlGet, ShownHead
  <2> QED  BY <2>1, <2>2 DEF LatestInv
<1>8. CASE YamlPut
  <2>1. LastTask /\ pc = "yamlPut" /\ pc' = "start" /\ ident' = ident
    BY <1>1, <1>2, <1>8 DEF YamlPut, LastTask, codegen, history, SettingsTypes
  <2>2. ShownHead' => ShownHead
    BY <1>8 DEF YamlPut, ShownHead
  <2>3. ShownHead' => head' = [head EXCEPT !.yaml = want] /\ want = ident
    BY <1>8, <2>1, <2>2 DEF YamlPut, LatestInv
  <2> QED  BY <1>1, <2>1, <2>3 DEF LatestInv, SettingsTypes
<1>9. CASE Start
  <2>1. LastTask /\ pc = "start" /\ pc' = "row" /\ UNCHANGED <<ident, head, lagged>>
        /\ remote' = Append(remote, NewBuild) /\ build' = Len(remote')
    BY <1>2, <1>9 DEF Start, LastTask, lag, codegen, history
  <2>2. Len(remote') = Len(remote) + 1 /\ Len(remote) \in Nat /\ remote'[Len(remote')] = NewBuild
    BY <1>1, <2>1 DEF Types
  <2> QED  BY <2>1, <2>2 DEF LatestInv, FromHead, FileFromHead, ShownHead, NewBuild
<1>10. CASE InsertRow
  <2> DEFINE e == [build |-> build, status |-> "queued"]
  <2>1. LastTask /\ pc = "row" /\ pc' = "poll" /\ UNCHANGED <<ident, head, remote, build, lagged>>
        /\ rows' = Append(rows, e)
    BY <1>2, <1>10 DEF InsertRow, LastTask, lag, codegen, history
  <2>2. e.build = build
    OBVIOUS
  <2> HIDE DEF e
  <2>3. Len(rows') = Len(rows) + 1 /\ Len(rows) \in Nat /\ rows'[Len(rows')] = e
    BY <1>1, <2>1 DEF Types
  <2> QED  BY <2>1, <2>2, <2>3 DEF LatestInv, FromHead, FileFromHead, ShownHead
<1>11. CASE Poll
  <2>1. LastTask /\ pc = "poll" /\ pc' \in {"poll", "ack"} /\ UNCHANGED <<ident, head, remote, build, lagged>>
        /\ StoreStatus
    BY <1>2, <1>11 DEF Poll, LastTask, lag, codegen, history
  <2>2. build \in 1..Len(remote)
    BY <1>1, <2>1 DEF RowInv, BuildHeld, Types
  <2>3. rows' \in Seq(Row) /\ DOMAIN rows' = DOMAIN rows
        /\ \A r \in DOMAIN rows : rows'[r].build = rows[r].build
    BY <1>1, <2>1, <2>2, StatusStored
  <2>4. Len(rows') = Len(rows) /\ Len(rows) > 0 /\ Len(rows) \in DOMAIN rows
        /\ rows[Len(rows)].build = Len(remote)
    BY <1>1, <2>1, <2>3 DEF LatestInv, Types
  <2> QED  BY <2>1, <2>3, <2>4 DEF LatestInv, FromHead, FileFromHead, ShownHead
<1>12. CASE TimeOut \/ Ack
  <2>1. LastTask /\ pc \in {"poll", "ack"} /\ pc' \in {"ack", "idle"} /\ UNCHANGED <<ident, head, remote, rows, lagged>>
    BY <1>2, <1>12 DEF TimeOut, Ack, Forget, LastTask, lag, codegen, history
  <2> QED  BY <2>1 DEF LatestInv, FromHead, FileFromHead, ShownHead
<1>13. CASE Remote
  <2>1. LastTask /\ UNCHANGED <<ident, head, rows, pc, want, seen, build, lagged>>
    BY <1>2, <1>13 DEF Remote, LastTask, lag, codegen, queue, history
  <2>2. PICK b \in DOMAIN remote, s \in TERMINAL :
           remote' = [remote EXCEPT ![b] =
              [tree |-> head.tree, made |-> head.made, yaml |-> head.yaml, status |-> s]]
    BY <1>13 DEF Remote
  <2>3. Len(remote') = Len(remote) /\ Len(remote) \in Nat
    BY <1>1, <1>13, RemoteEnds DEF Types
  <2>4. Len(remote) > 0 => remote'[Len(remote)] = remote[Len(remote)] \/
           /\ remote'[Len(remote)].tree = head.tree /\ remote'[Len(remote)].made = head.made
           /\ remote'[Len(remote)].yaml = head.yaml
    <3>1. SUFFICES ASSUME Len(remote) > 0, b = Len(remote)
                   PROVE  /\ remote'[Len(remote)].tree = head.tree
                          /\ remote'[Len(remote)].made = head.made
                          /\ remote'[Len(remote)].yaml = head.yaml
      BY <2>2, <2>3
    <3> QED  BY <2>2, <3>1
  <2>5. head.made = ident
    BY <1>2, <2>1 DEF ReworkInv, LastTask
  <2>6. FromHead => FromHead' /\ (FileFromHead => FileFromHead')
    BY <2>1, <2>3, <2>4, <2>5 DEF FromHead, FileFromHead
  <2>7. ShownHead' <=> ShownHead
    BY <2>1 DEF ShownHead
  <2> QED  BY <2>1, <2>3, <2>6, <2>7 DEF LatestInv
<1>14. CASE UNCHANGED vars
  <2>1. LastTask /\ UNCHANGED <<ident, head, rows, remote, pc, want, seen, build, lagged>>
    BY <1>2, <1>14 DEF vars, LastTask, lag, codegen, queue, history
  <2> QED  BY <2>1 DEF LatestInv, FromHead, FileFromHead, ShownHead
<1> QED
  BY <1>3, <1>4, <1>5, <1>6, <1>7, <1>8, <1>9, <1>10, <1>11, <1>12, <1>13, <1>14 DEF Next, Delivery

\* Whatever pushes, builds, requests and deaths overlapped: when nothing is left to do and no
\* call has failed, the last build, which has the last row, is one of the head of the
\* branch with the settings of the job in the app, and in codemagic.yaml unless the contents
\* API has shown its task an older head (ensure_codemagic_yaml against push_existing).
THEOREM LatestIsBuilt == Spec => []LatestBuilt
<1>1. Init => ReworkInv /\ LatestInv
  BY DEF Init, ReworkInv, SettingsTypes, LatestInv, LastTask
<1>2. ReworkInv /\ LatestInv => LatestBuilt
  BY DEF ReworkInv, LatestInv, LastTask, FromHead, FileFromHead, ShownHead, LatestBuilt, Quiet
<1> QED
  BY <1>1, <1>2, RowInvInit, RowInvStep, CountInit, CountStep, ReworkInvStep, LatestStep, PTL DEF Spec

(***************************************************************************)
(* The types, with their bounds.                                           *)
(***************************************************************************)

\* The versions of the settings: what is used was stored before, and a rework is edited
\* with a stored version.
VersionsInv ==
    /\ requests \in 0..MaxRequests /\ ident \in 1..(1 + requests) /\ reworks \in 0..requests
    /\ rwIdent \in 0..ident /\ (rwPc = "push" => rwIdent # 0)
    /\ head.made \in 1..ident /\ head.yaml \in 0..ident
    /\ want \in 0..ident /\ seen \in 0..ident

\* What the contents API may show was in the branch before.
PastInv == past \subseteq 0..ident /\ lagged \in BOOLEAN

HarmInv ==
    /\ waited \in 0..(MaxTicks + 1)
    /\ failures \in 0..MaxFailures /\ crashes \in 0..MaxCrashes /\ lostAnswers \in 0..failures

\* A build has cloned a tree that is or was the head of the branch.
ClonesInv ==
    \A b \in DOMAIN remote :
        remote[b].tree \in 0..head.tree /\ remote[b].made \in 0..ident /\ remote[b].yaml \in 0..ident

LEMMA VersionsStep ==
    ASSUME VersionsInv, PastInv, ReworkInv, [Next]_vars
    PROVE  VersionsInv' /\ ident <= ident' /\ head.tree <= head'.tree
<1> USE DEF VersionsInv
<1>1. SettingsTypes /\ MaxRequests \in Nat /\ (rwPc # "idle" => reworks > 0)
  BY BoundsAssumption DEF ReworkInv, BoundsAssumption
<1>2. CASE RouteRework
  BY <1>1, <1>2 DEF RouteRework, queue, SettingsTypes
<1>3. CASE RouteButton
  BY <1>1, <1>3 DEF RouteButton, codegen, SettingsTypes
<1>4. CASE ReworkEdit
  BY <1>1, <1>4 DEF ReworkEdit, queue, history, SettingsTypes
<1>5. CASE ReworkPush
  <2>1. head'.tree = head.tree + 1 /\ head'.made = rwIdent /\ head'.yaml = 0
    BY <1>5 DEF ReworkPush
  <2>. QED
    BY <1>1, <1>5, <2>1 DEF ReworkPush, queue, history, SettingsTypes
<1>6. CASE ReworkSend \/ ReworkAgain
  BY <1>1, <1>6 DEF ReworkSend, ReworkAgain, queue, history, SettingsTypes
<1>7. CASE YamlPut
  <2>1. head'.tree = head.tree /\ head'.made = head.made /\ head'.yaml \in {head.yaml, want}
    BY <1>1, <1>7 DEF YamlPut, SettingsTypes
  <2>. QED
    BY <1>1, <1>7, <2>1 DEF YamlPut, codegen, history, SettingsTypes
<1>8. CASE /\ UNCHANGED <<ident, head, codegen, requests>>
           /\ want' \in {want, 0, ident} /\ seen' \in {seen, 0, head.yaml} \cup past
  BY <1>1, <1>8 DEF PastInv, codegen, SettingsTypes
<1>9. CASE (Delivery /\ ~YamlPut) \/ Crash \/ Remote \/ UNCHANGED vars
  BY <1>8, <1>9 DEF Delivery, Deliver, Raise, YamlGet, YamlFails, Start, StartFails, InsertRow,
     Poll, PollFails, TimeOut, Ack, Crash, Remote, Forget, vars, queue, history
<1>. QED
  BY <1>2, <1>3, <1>4, <1>5, <1>6, <1>7, <1>9 DEF Next, Codegen

LEMMA PastStep ==
    ASSUME PastInv, VersionsInv, ReworkInv, RowInv, [Next]_vars
    PROVE  PastInv'
<1>1. ident \in Nat /\ ident' \in Nat /\ ident <= ident' /\ head.yaml \in 0..ident
  BY VersionsStep, RowInvStep DEF RowInv, Types, VersionsInv
<1>2. past' \subseteq past \cup {head.yaml}
  BY DEF Next, Codegen, Delivery, RouteRework, RouteButton, ReworkEdit, ReworkPush, ReworkSend,
     ReworkAgain, Remote, Deliver, Raise, YamlGet, YamlPut, YamlFails, Start, StartFails, InsertRow,
     Poll, PollFails, TimeOut, Ack, Crash, vars, lag
<1>3. lagged' = lagged \/ YamlGet
  BY DEF Next, Codegen, Delivery, RouteRework, RouteButton, ReworkEdit, ReworkPush, ReworkSend,
     ReworkAgain, Remote, Deliver, Raise, YamlPut, YamlFails, Start, StartFails, InsertRow,
     Poll, PollFails, TimeOut, Ack, Crash, vars, lag
<1>4. lagged' \in BOOLEAN
  BY <1>3 DEF YamlGet, PastInv
<1>. QED
  BY <1>1, <1>2, <1>4 DEF PastInv

LEMMA HarmStep ==
    ASSUME HarmInv, [Next]_vars
    PROVE  HarmInv'
<1> USE DEF HarmInv
<1>1. MaxTicks \in Nat /\ MaxFailures \in Nat /\ MaxCrashes \in Nat
  BY BoundsAssumption DEF BoundsAssumption
<1>2. Misfortune => failures' = failures + 1 /\ failures' \in 0..MaxFailures
  BY <1>1 DEF Misfortune
<1>3. CASE RouteRework \/ RouteButton
  BY <1>1, <1>2, <1>3 DEF RouteRework, RouteButton, queue
<1>4. CASE Codegen \/ Remote \/ UNCHANGED vars
  BY <1>4 DEF Codegen, ReworkEdit, ReworkPush, ReworkSend, Remote, vars, queue, history
<1>5. CASE ReworkAgain
  BY <1>1, <1>2, <1>5 DEF ReworkAgain, queue
<1>6. CASE Deliver \/ YamlGet \/ YamlPut \/ Start \/ InsertRow
  BY <1>6 DEF Deliver, YamlGet, YamlPut, Start, InsertRow, history
<1>7. CASE Raise \/ YamlFails \/ StartFails
  BY <1>1, <1>2, <1>7 DEF Raise, YamlFails, StartFails, Forget
<1>8. CASE Poll \/ PollFails
  BY <1>1, <1>2, <1>8 DEF Poll, PollFails, history
<1>9. CASE TimeOut \/ Ack \/ Crash
  BY <1>1, <1>9 DEF TimeOut, Ack, Crash, Forget, history
<1>. QED
  BY <1>3, <1>4, <1>5, <1>6, <1>7, <1>8, <1>9 DEF Next, Delivery

LEMMA ClonesStep ==
    ASSUME ClonesInv, VersionsInv, PastInv, ReworkInv, RowInv, [Next]_vars
    PROVE  ClonesInv'
<1>1. /\ ident \in Nat /\ ident' \in Nat /\ ident <= ident'
      /\ head.tree \in Nat /\ head'.tree \in Nat /\ head.tree <= head'.tree
  BY VersionsStep, RowInvStep DEF RowInv, Types
<1>2. ASSUME NEW b \in DOMAIN remote', b \in DOMAIN remote, remote'[b] = remote[b]
      PROVE  /\ remote'[b].tree \in 0..head'.tree
             /\ remote'[b].made \in 0..ident' /\ remote'[b].yaml \in 0..ident'
  BY <1>1, <1>2 DEF ClonesInv
<1>3. CASE remote' = remote
  BY <1>2, <1>3 DEF ClonesInv
<1>4. CASE remote' = Append(remote, NewBuild)
  <2>1. DOMAIN remote' = DOMAIN remote \cup {Len(remote) + 1}
    BY <1>4 DEF RowInv, Types
  <2>2. remote'[Len(remote) + 1] = NewBuild /\ \A b \in DOMAIN remote : remote'[b] = remote[b]
    BY <1>4 DEF RowInv, Types
  <2>. QED
    BY <1>1, <1>2, <2>1, <2>2 DEF ClonesInv, NewBuild
<1>5. CASE Remote
  <2>1. PICK b \in DOMAIN remote, s \in TERMINAL :
           remote' = [remote EXCEPT ![b] =
              [tree |-> head.tree, made |-> head.made, yaml |-> head.yaml, status |-> s]]
    BY <1>5 DEF Remote
  <2>2. /\ remote'[b].tree = head.tree /\ remote'[b].made = head.made /\ remote'[b].yaml = head.yaml
        /\ DOMAIN remote' = DOMAIN remote /\ \A c \in DOMAIN remote : c # b => remote'[c] = remote[c]
    BY <2>1
  <2>3. head'.tree = head.tree /\ ident' = ident /\ head.made \in 0..ident /\ head.yaml \in 0..ident
    BY <1>5 DEF Remote, VersionsInv
  <2>. QED
    BY <1>1, <1>2, <2>2, <2>3 DEF ClonesInv
<1>6. \/ remote' = remote \/ remote' = Append(remote, NewBuild) \/ Remote
  BY DEF Next, RouteRework, RouteButton, Codegen, ReworkEdit, ReworkPush, ReworkSend, ReworkAgain,
     Delivery, Deliver, Raise, YamlGet, YamlPut, YamlFails, Start, StartFails, InsertRow, Poll,
     PollFails, TimeOut, Ack, Crash, vars
<1>. QED
  BY <1>3, <1>4, <1>5, <1>6

\* A sequence is one over any set that has its elements.
LEMMA SeqOver ==
    ASSUME NEW S, NEW T, NEW q \in Seq(S), \A i \in DOMAIN q : q[i] \in T
    PROVE  q \in Seq(T)
<1>1. Len(q) \in Nat /\ DOMAIN q = 1..Len(q) /\ q = [i \in 1..Len(q) |-> q[i]]
  OBVIOUS
<1>2. q \in [1..Len(q) -> T]
  BY <1>1
<1>. QED
  BY <1>1, <1>2, SeqDef

\* For all bounds the variables have their types: rows name builds that CodeMagic has, and
\* a build, the branch and the worker only settings that were stored before.
THEOREM TypeCorrect == Spec => []TypeOK
<1>1. Init => VersionsInv /\ PastInv /\ HarmInv /\ ClonesInv
  <2>1. Init => VersionsInv /\ HarmInv /\ ClonesInv
    BY BoundsAssumption DEF Init, VersionsInv, HarmInv, ClonesInv, BoundsAssumption
  <2>2. Init => past \subseteq 0..ident
    BY DEF Init
  <2>3. Init => lagged \in BOOLEAN
    BY DEF Init
  <2>. QED
    BY <2>1, <2>2, <2>3 DEF PastInv
<1>2. Init => ReworkInv
  BY DEF Init, ReworkInv, SettingsTypes
<1>3. RowInv /\ CountInv /\ ReworkInv /\ VersionsInv /\ PastInv /\ HarmInv /\ ClonesInv => TypeOK
  <2> SUFFICES ASSUME RowInv, CountInv, ReworkInv, VersionsInv, PastInv, HarmInv, ClonesInv PROVE TypeOK
    OBVIOUS
  <2>1. MaxRequests \in Nat
    BY BoundsAssumption DEF BoundsAssumption
  <2>2. rows \in Seq([build : 0..Len(remote), status : Status])
    <3>1. rows \in Seq(Row) /\ \A r \in DOMAIN rows : rows[r] \in Row /\ rows[r].build \in 0..Len(remote)
      BY DEF RowInv, Types, BuildHeld
    <3>2. \A r \in DOMAIN rows : rows[r] \in [build : 0..Len(remote), status : Status]
      BY <3>1 DEF Row
    <3>. QED
      BY <3>1, <3>2, SeqOver
  <2>3. remote \in Seq([tree : 0..head.tree, made : 0..ident, yaml : 0..ident, status : Status])
    <3>1. remote \in Seq(RemoteBuild) /\ \A b \in DOMAIN remote : remote[b] \in RemoteBuild
      BY DEF RowInv, Types
    <3>2. \A b \in DOMAIN remote :
              remote[b] \in [tree : 0..head.tree, made : 0..ident, yaml : 0..ident, status : Status]
      BY <3>1 DEF ClonesInv, RemoteBuild
    <3>. QED
      BY <3>1, <3>2, SeqOver
  <2>4. head \in [tree : Nat, made : 1..ident, yaml : 0..ident]
    BY DEF RowInv, Types, VersionsInv
  <2>5. ident \in 1..(1 + MaxRequests) /\ reworks \in 0..MaxRequests
    BY <2>1 DEF VersionsInv
  <2>. QED
    BY <2>2, <2>3, <2>4, <2>5 DEF RowInv, Types, BuildHeld, CountInv, QueueTypes, ReworkInv, SettingsTypes,
       VersionsInv, PastInv, HarmInv, TypeOK
<1>. QED
  BY <1>1, <1>2, <1>3, RowInvInit, RowInvStep, CountInit, CountStep, ReworkInvStep, VersionsStep, PastStep, HarmStep,
     ClonesStep, PTL DEF Spec
===============================================================================
