---------------------------- MODULE ResumableBuild ----------------------------
(***************************************************************************)
(* What the checkpoint promises to the user of build_frontend, without     *)
(* storage objects, messages or plans: finished tasks survive everything,  *)
(* they are given up only by an attempt that holds the complete app, and   *)
(* only a complete app is delivered.                                       *)
(***************************************************************************)
CONSTANT Tasks

VARIABLES
    finished,   \* the tasks whose work the next attempt will find
    complete,   \* the running attempt has passed the final check of the app
    delivered   \* the tasks whose work is in the delivered sources

vars == <<finished, complete, delivered>>

Init == finished = {} /\ complete = FALSE /\ delivered = {}

\* The work of one more task becomes durable.
FinishTask(t) ==
    /\ ~complete /\ delivered = {}
    /\ t \notin finished /\ finished' = finished \cup {t}
    /\ UNCHANGED <<complete, delivered>>

\* The attempt has the work of every task.
CompleteApp ==
    /\ ~complete /\ finished = Tasks /\ delivered = {}
    /\ complete' = TRUE
    /\ UNCHANGED <<finished, delivered>>

\* The checkpoint is dropped.
Discard ==
    /\ complete /\ finished # {}
    /\ finished' = {}
    /\ UNCHANGED <<complete, delivered>>

\* The attempt that held the complete app is lost.
Lose ==
    /\ complete
    /\ complete' = FALSE
    /\ UNCHANGED <<finished, delivered>>

Deliver ==
    /\ complete /\ delivered = {}
    /\ delivered' = Tasks /\ complete' = FALSE
    /\ UNCHANGED finished

Next == (\E t \in Tasks : FinishTask(t)) \/ CompleteApp \/ Discard \/ Lose \/ Deliver

Spec == Init /\ [][Next]_vars
=============================================================================
