----------------------------- MODULE MCTaskRunner -----------------------------
(***************************************************************************)
(* Instance of TaskRunner for four tasks: all graphs of three tasks, with  *)
(* cycles too, under a fourth one, and the plans that bring out the        *)
(* parallel layers.                                                        *)
(***************************************************************************)
EXTENDS TaskRunner

Graph(d1, d2, d3, d4) == <<d1, d2, d3, d4>>

Graphs == {Graph(d1, d2, d3, d4) : d1 \in SUBSET {2, 3}, d2 \in SUBSET {1, 3},
                                   d3 \in SUBSET {1, 2}, d4 \in {{1}, 1..3}}

MCPlans ==
    {[deps |-> d, screens |-> {}] : d \in Graphs}
    \cup {\* three screens on a scaffold, more than there are threads
          [deps |-> Graph({}, {1}, {1}, {1}), screens |-> 2..4],
          \* two screens and a task that needs both
          [deps |-> Graph({}, {1}, {1}, {2, 3}), screens |-> {2, 3}],
          \* two screens with a task between them in the same layer
          [deps |-> Graph({}, {1}, {1}, {1}), screens |-> {2, 4}],
          \* the file lists the screens first
          [deps |-> Graph({3}, {3}, {4}, {}), screens |-> {1, 2}],
          \* screens beside the scaffold in the first layer, and one above
          [deps |-> Graph({}, {}, {}, {1}), screens |-> {1, 3, 4}],
          \* screens only in the first layer
          [deps |-> Graph({}, {}, {1}, {2}), screens |-> {1, 2, 3}]}
===============================================================================
