------------------------------ MODULE ThreadPool ------------------------------
(***************************************************************************)
(* network/thread_pool.cc: workers that share a queue under a mutex and    *)
(* sleep on a condition variable, callers of enqueue, and the destructor.  *)
(*                                                                         *)
(* The shared state is only touched with mutex_ held, so a critical        *)
(* section is one step.  The notifications come after the mutex is         *)
(* released and are steps of their own, so another thread may get in       *)
(* between.  wait() may return without a notification.                     *)
(***************************************************************************)
EXTENDS Naturals, Sequences, FiniteSets

CONSTANTS
  Workers,  \* the threads the constructor starts
  Callers,  \* threads that call enqueue
  Tasks,    \* the calls they make
  NoTask

ASSUME ThreadPoolAssumption ==
  /\ Workers # {} /\ IsFiniteSet(Workers)
  /\ NoTask \notin Tasks

VARIABLES
  working,  \* working_
  tasks,    \* tasks_
  worker,   \* where each worker is: "test", "wait", "run" or "return"
  task,     \* its local variable
  caller,   \* where each caller is: "idle" or "notify"
  dtor,     \* where the destructor is: "idle", "notify", "join" or "done"
  future    \* of each task: "none", "thrown", "pending" or "ready"

vars == <<working, tasks, worker, task, caller, dtor, future>>

Init ==
  /\ working = TRUE
  /\ tasks = <<>>
  /\ worker = [w \in Workers |-> "test"]
  /\ task = [w \in Workers |-> NoTask]
  /\ caller = [c \in Callers |-> "idle"]
  /\ dtor = "idle"
  /\ future = [t \in Tasks |-> "none"]

-----------------------------------------------------------------------------
(* The loop of a worker *)

\* The predicate is false: wait() releases the mutex and blocks.
Wait(w) ==
  /\ worker[w] = "test"
  /\ working /\ tasks = <<>>
  /\ worker' = [worker EXCEPT ![w] = "wait"]
  /\ UNCHANGED <<working, tasks, task, caller, dtor, future>>

\* Mutant: a worker returns with tasks left.
Return_early(w) ==
  /\ worker[w] = "test"
  /\ ~working
  /\ worker' = [worker EXCEPT ![w] = "return"]
  /\ UNCHANGED <<working, tasks, task, caller, dtor, future>>

Return(w) ==
  /\ worker[w] = "test"
  /\ ~working /\ tasks = <<>>
  /\ worker' = [worker EXCEPT ![w] = "return"]
  /\ UNCHANGED <<working, tasks, task, caller, dtor, future>>

\* Mutants: the task is not popped; the newest task is taken.
Take_no_pop(w) ==
  /\ worker[w] = "test"
  /\ tasks # <<>>
  /\ task' = [task EXCEPT ![w] = Head(tasks)]
  /\ worker' = [worker EXCEPT ![w] = "run"]
  /\ UNCHANGED <<working, tasks, caller, dtor, future>>

Take_newest(w) ==
  /\ worker[w] = "test"
  /\ tasks # <<>>
  /\ task' = [task EXCEPT ![w] = tasks[Len(tasks)]]
  /\ tasks' = SubSeq(tasks, 1, Len(tasks) - 1)
  /\ worker' = [worker EXCEPT ![w] = "run"]
  /\ UNCHANGED <<working, caller, dtor, future>>

\* Mutant: wait() without its predicate, so that front() may find nothing.
Take_no_predicate(w) ==
  /\ worker[w] = "test"
  /\ task' = [task EXCEPT ![w] = IF tasks = <<>> THEN "undefined" ELSE Head(tasks)]
  /\ tasks' = IF tasks = <<>> THEN <<>> ELSE Tail(tasks)
  /\ worker' = [worker EXCEPT ![w] = "run"]
  /\ UNCHANGED <<working, caller, dtor, future>>

Take(w) ==
  /\ worker[w] = "test"
  /\ tasks # <<>>
  /\ task' = [task EXCEPT ![w] = Head(tasks)]
  /\ tasks' = Tail(tasks)
  /\ worker' = [worker EXCEPT ![w] = "run"]
  /\ UNCHANGED <<working, caller, dtor, future>>

\* The packaged_task stores its result, or its exception, in the future.
Run(w) ==
  /\ worker[w] = "run"
  /\ future' = [future EXCEPT ![task[w]] = "ready"]
  /\ task' = [task EXCEPT ![w] = NoTask]
  /\ worker' = [worker EXCEPT ![w] = "test"]
  /\ UNCHANGED <<working, tasks, caller, dtor>>

\* wait() returns although nobody notified.
SpuriousWakeup(w) ==
  /\ worker[w] = "wait"
  /\ worker' = [worker EXCEPT ![w] = "test"]
  /\ UNCHANGED <<working, tasks, task, caller, dtor, future>>

-----------------------------------------------------------------------------
(* enqueue.  The pool's storage is there until the destructor returns. *)

Enqueue(c, t) ==
  /\ caller[c] = "idle" /\ dtor # "done"
  /\ future[t] = "none"
  /\ IF working
     THEN /\ tasks' = Append(tasks, t)
          /\ future' = [future EXCEPT ![t] = "pending"]
          /\ caller' = [caller EXCEPT ![c] = "notify"]
     ELSE /\ future' = [future EXCEPT ![t] = "thrown"]
          /\ UNCHANGED <<tasks, caller>>
  /\ UNCHANGED <<working, worker, task, dtor>>

\* Mutant: the notification is left out.
NotifyOne_none(c) ==
  /\ caller[c] = "notify"
  /\ caller' = [caller EXCEPT ![c] = "idle"]
  /\ UNCHANGED <<working, tasks, worker, task, dtor, future>>

NotifyOne(c) ==
  /\ caller[c] = "notify"
  /\ caller' = [caller EXCEPT ![c] = "idle"]
  /\ \/ \E w \in Workers :
          /\ worker[w] = "wait"
          /\ worker' = [worker EXCEPT ![w] = "test"]
     \/ /\ \A w \in Workers : worker[w] # "wait"
        /\ UNCHANGED worker
  /\ UNCHANGED <<working, tasks, task, dtor, future>>

-----------------------------------------------------------------------------
(* The destructor *)

Stop ==
  /\ dtor = "idle"
  /\ working' = FALSE
  /\ dtor' = "notify"
  /\ UNCHANGED <<tasks, worker, task, caller, future>>

\* Mutant: notify_one instead of notify_all.
NotifyAll_one ==
  /\ dtor = "notify"
  /\ \/ \E w \in Workers : /\ worker[w] = "wait"
                         /\ worker' = [worker EXCEPT ![w] = "test"]
     \/ (\A w \in Workers : worker[w] # "wait") /\ UNCHANGED worker
  /\ dtor' = "join"
  /\ UNCHANGED <<working, tasks, task, caller, future>>

NotifyAll ==
  /\ dtor = "notify"
  /\ worker' = [w \in Workers |-> IF worker[w] = "wait" THEN "test" ELSE worker[w]]
  /\ dtor' = "join"
  /\ UNCHANGED <<working, tasks, task, caller, future>>

\* Every join has returned.  A caller of the pool still inside enqueue by then
\* would be using an object past its lifetime.
Join ==
  /\ dtor = "join"
  /\ \A w \in Workers : worker[w] = "return"
  /\ \A c \in Callers : caller[c] = "idle"
  /\ dtor' = "done"
  /\ UNCHANGED <<working, tasks, worker, task, caller, future>>

Done == dtor = "done" /\ UNCHANGED vars

-----------------------------------------------------------------------------

Next ==
  \/ \E w \in Workers : Wait(w) \/ Return(w) \/ Take(w) \/ Run(w) \/ SpuriousWakeup(w)
  \/ \E c \in Callers : (\E t \in Tasks : Enqueue(c, t)) \/ NotifyOne(c)
  \/ Stop \/ NotifyAll \/ Join
  \/ Done

\* The scheduler runs every thread that can run, the mutex is eventually
\* granted, and tasks end.  Nobody has to call enqueue or the destructor.
Fairness ==
  /\ \A w \in Workers : WF_vars(Wait(w) \/ Return(w) \/ Take(w)) /\ WF_vars(Run(w))
  /\ \A c \in Callers : WF_vars(NotifyOne(c))
  /\ WF_vars(NotifyAll)
  /\ WF_vars(Join)

Spec == Init /\ [][Next]_vars /\ Fairness

-----------------------------------------------------------------------------
(* Properties *)

\* Every piece of state has its C++ type.
TypeOK ==
  /\ working \in BOOLEAN
  /\ tasks \in Seq(Tasks)
  /\ worker \in [Workers -> {"test", "wait", "run", "return"}]
  /\ task \in [Workers -> Tasks \cup {NoTask}]
  /\ caller \in [Callers -> {"idle", "notify"}]
  /\ dtor \in {"idle", "notify", "join", "done"}
  /\ future \in [Tasks -> {"none", "thrown", "pending", "ready"}]

\* No wakeup is lost: while a task is queued, some worker is awake or about to
\* be notified, although the notification is sent after the mutex is released;
\* and once the destructor has notified, no worker goes back to sleep.
NoLostWakeup ==
  /\ tasks # <<>> =>
       \/ \E w \in Workers : worker[w] \in {"test", "run"}
       \/ \E c \in Callers : caller[c] = "notify"
       \/ dtor = "notify"
  /\ dtor \in {"join", "done"} => \A w \in Workers : worker[w] # "wait"

\* A task whose future is pending is in exactly one place: once in the queue,
\* or in the hands of one worker.
OnePlace ==
  \A t \in Tasks :
    Cardinality({i \in DOMAIN tasks : tasks[i] = t})
      + Cardinality({w \in Workers : task[w] = t})
    = IF future[t] = "pending" THEN 1 ELSE 0

\* A future enqueue has returned becomes ready, also while the pool is being
\* destroyed.
EveryTaskRuns == \A t \in Tasks : future[t] = "pending" ~> future[t] = "ready"

\* The destructor returns.
DestructorReturns == dtor = "notify" ~> dtor = "done"

Abstract ==
  INSTANCE TaskQueue WITH
    queue <- tasks,
    running <- {task[w] : w \in Workers} \ {NoTask},
    phase <- CASE dtor = "idle" -> "open"
               [] dtor = "done" -> "gone"
               [] OTHER -> "closing"

\* thread_pool implements TaskQueue, liveness included: tasks start in the order
\* enqueue accepted them, each once, and the destructor drains the queue.
Implements == Abstract!Spec
=============================================================================
