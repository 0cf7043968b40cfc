----------------------------- MODULE StoreWorker -----------------------------
(***************************************************************************)
(* What the store tasks of one job share: the queue "codegen" with its one *)
(* worker process (common/queue.py), and the budget of requests, failures  *)
(* and deaths.  A task keeps what it has read in memory; what the other    *)
(* side, the threads of the admin, changes meanwhile it does not see.      *)
(***************************************************************************)
EXTENDS Naturals, FiniteSets

CONSTANTS
    NoMessage,     \* the worker waits for a message
    MaxRetries,    \* PipelineTask.max_retries
    MaxRequests,   \* bound: requests that the operator makes
    MaxFailures,   \* bound: failures of agents, browsers, storage and services
    MaxCrashes     \* bound: deaths of the worker process

ASSUME WorkerAssumption ==
    /\ MaxRetries \in Nat /\ MaxRequests \in Nat
    /\ MaxFailures \in Nat /\ MaxCrashes \in Nat

VARIABLES
    queue,      \* messages that wait: fresh, retried or redelivered
    held,       \* the message of the running task
    pc,         \* its next step
    mem,        \* its memory: a record of its own for every task
    dead,       \* messages that have used up their retries
    requests, failures, crashes

budget == <<requests, failures, crashes>>
worker == <<queue, held, pc, mem, dead, budget>>

Blank == [empty |-> TRUE]

WorkerInit ==
    /\ held = NoMessage /\ pc = "idle" /\ mem = Blank /\ dead = {}
    /\ requests = 0 /\ failures = 0 /\ crashes = 0

Misfortune == failures < MaxFailures /\ failures' = failures + 1

\* A request of the operator that the admin answers itself.
Visit == requests < MaxRequests /\ requests' = requests + 1

\* A request that becomes a message.
Enqueue(task, arg) ==
    /\ Visit
    /\ queue' = queue \cup {[id |-> requests', task |-> task, arg |-> arg, retries |-> 0]}
    /\ UNCHANGED <<held, pc, mem, dead, failures, crashes>>

\* Any message may be next: retries wait for their backoff, and redelivered messages
\* change places.
Deliver(start) ==
    /\ held = NoMessage
    /\ \E m \in queue :
        /\ held' = m /\ queue' = queue \ {m}
        /\ pc' = start[m.task]
    /\ UNCHANGED <<mem, dead, budget>>

Step(from, to) == held # NoMessage /\ pc = from /\ pc' = to /\ UNCHANGED <<queue, held, dead, requests, crashes>>

Forget == held' = NoMessage /\ pc' = "idle" /\ mem' = Blank

\* The task returns and its message is acknowledged.
Return == Forget /\ UNCHANGED <<queue, dead, requests, crashes>>

\* The task raises: PipelineTask retries it, or the message is dead.
Raise ==
    /\ Forget
    /\ IF held.retries < MaxRetries
       THEN queue' = queue \cup {[held EXCEPT !.retries = @ + 1]} /\ UNCHANGED dead
       ELSE dead' = dead \cup {held} /\ UNCHANGED queue
    /\ UNCHANGED <<requests, crashes>>

\* The worker dies; the message was not acknowledged and is delivered again.
Crash ==
    /\ held # NoMessage
    /\ crashes < MaxCrashes /\ crashes' = crashes + 1
    /\ Forget /\ queue' = queue \cup {held}
    /\ UNCHANGED <<dead, requests, failures>>

Outstanding == queue \cup (IF held = NoMessage THEN {} ELSE {held})
Quiet == Outstanding = {}
=============================================================================
