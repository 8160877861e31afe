------------------------------ MODULE TaskQueue ------------------------------
(***************************************************************************)
(* What thread_pool promises its callers, with no threads, mutex or        *)
(* condition variable in sight: tasks start in the order they were         *)
(* accepted, each once; a pool that is being destroyed accepts none and    *)
(* is gone only when every accepted task has been run.                     *)
(***************************************************************************)
EXTENDS Sequences

CONSTANT Tasks   \* the calls of enqueue that are made

VARIABLES
  queue,     \* accepted, not started
  running,   \* started, not finished
  future,    \* of each task: "none", "thrown", "pending" or "ready"
  phase      \* "open", "closing" or "gone"

vars == <<queue, running, future, phase>>

Init ==
  /\ queue = <<>>
  /\ running = {}
  /\ future = [t \in Tasks |-> "none"]
  /\ phase = "open"

Accept(t) ==
  /\ phase = "open" /\ future[t] = "none"
  /\ queue' = Append(queue, t)
  /\ future' = [future EXCEPT ![t] = "pending"]
  /\ UNCHANGED <<running, phase>>

Reject(t) ==
  /\ phase = "closing" /\ future[t] = "none"
  /\ future' = [future EXCEPT ![t] = "thrown"]
  /\ UNCHANGED <<queue, running, phase>>

Start ==
  /\ queue # <<>>
  /\ running' = running \cup {Head(queue)}
  /\ queue' = Tail(queue)
  /\ UNCHANGED <<future, phase>>

Finish(t) ==
  /\ t \in running
  /\ running' = running \ {t}
  /\ future' = [future EXCEPT ![t] = "ready"]
  /\ UNCHANGED <<queue, phase>>

Close ==
  /\ phase = "open"
  /\ phase' = "closing"
  /\ UNCHANGED <<queue, running, future>>

Gone ==
  /\ phase = "closing" /\ queue = <<>> /\ running = {}
  /\ phase' = "gone"
  /\ UNCHANGED <<queue, running, future>>

Next ==
  \/ \E t \in Tasks : Accept(t) \/ Reject(t) \/ Finish(t)
  \/ Start \/ Close \/ Gone

\* Nobody is obliged to call; what was accepted is run, what is closing goes.
Fairness ==
  /\ WF_vars(Start)
  /\ \A t \in Tasks : WF_vars(Finish(t))
  /\ WF_vars(Gone)

Spec == Init /\ [][Next]_vars /\ Fairness
=============================================================================
