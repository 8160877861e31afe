--------------------------- MODULE ThreadPoolProofs ---------------------------
(***************************************************************************)
(* What ThreadPool promises, for any number of workers, callers and tasks: *)
(* no wakeup is lost, a task is in one place, and the pool implements the  *)
(* safety part of TaskQueue.                                               *)
(***************************************************************************)
EXTENDS ThreadPool, FiniteSetTheorems, TLAPS

Queued(t) == \E i \in DOMAIN tasks : tasks[i] = t
Held(t) == \E w \in Workers : task[w] = t

\* OnePlace without counting: the places of a task are one at most, and there is
\* one just while its future is pending.
Places ==
  /\ \A i, j \in DOMAIN tasks : tasks[i] = tasks[j] => i = j
  /\ \A v, w \in Workers : task[v] = task[w] /\ task[v] # NoTask => v = w
  /\ \A t \in Tasks : ~ (Queued(t) /\ Held(t))
  /\ \A t \in Tasks : future[t] = "pending" <=> Queued(t) \/ Held(t)

\* A worker has a task just while it runs it, returns from an empty queue that
\* nobody adds to any more, and has returned when the destructor has.
Threads ==
  /\ \A w \in Workers : worker[w] = "run" <=> task[w] # NoTask
  /\ working <=> dtor = "idle"
  /\ \A w \in Workers : worker[w] = "return" => ~ working /\ tasks = <<>>
  /\ dtor = "done" => \A w \in Workers : worker[w] = "return"

Inv == TypeOK /\ Threads /\ NoLostWakeup /\ Places

\* The queue after enqueue has pushed a task, by positions.
LEMMA Appended ==
  ASSUME NEW s \in Seq(Tasks), NEW t \in Tasks
  PROVE  /\ Append(s, t) \in Seq(Tasks)
         /\ Append(s, t) # <<>>
         /\ DOMAIN Append(s, t) = 1 .. Len(s) + 1
         /\ DOMAIN s = 1 .. Len(s)
         /\ Len(s) \in Nat
         /\ \A i \in 1 .. Len(s) : Append(s, t)[i] = s[i]
         /\ Append(s, t)[Len(s) + 1] = t
OBVIOUS

\* The queue after a worker has taken the first task, by positions.
LEMMA Shortened ==
  ASSUME NEW s \in Seq(Tasks), s # <<>>
  PROVE  /\ Tail(s) \in Seq(Tasks)
         /\ Head(s) \in Tasks
         /\ Head(s) = s[1]
         /\ Len(s) \in Nat \ {0}
         /\ DOMAIN s = 1 .. Len(s)
         /\ DOMAIN Tail(s) = 1 .. Len(s) - 1
         /\ \A i \in 1 .. Len(s) - 1 : Tail(s)[i] = s[i + 1]
OBVIOUS

\* A pool whose threads have just been created satisfies the invariant.
LEMMA InvInit == Init => Inv
<1> SUFFICES ASSUME Init PROVE Inv
  OBVIOUS
<1> USE ThreadPoolAssumption DEF Init
<1>1. TypeOK
  BY DEF TypeOK
<1>2. Threads
  BY DEF Threads
<1>3. NoLostWakeup
  BY DEF NoLostWakeup
<1>4. Places
  BY DEF Places, Queued, Held
<1> QED BY <1>1, <1>2, <1>3, <1>4 DEF Inv

\* Every step keeps the invariant.
LEMMA InvNext == Inv /\ [Next]_vars => Inv'
<1> SUFFICES ASSUME Inv, [Next]_vars PROVE Inv'
  OBVIOUS
<1> USE ThreadPoolAssumption
<1>0. TypeOK /\ Threads /\ NoLostWakeup /\ Places
  BY DEF Inv
<1>1. ASSUME NEW w \in Workers, Wait(w) PROVE Inv'
  <2>1. TypeOK'
    BY <1>0, <1>1 DEF TypeOK, Wait
  <2>2. Threads'
    BY <1>0, <1>1 DEF TypeOK, Threads, Wait
  <2>3. NoLostWakeup'
    BY <1>0, <1>1 DEF TypeOK, Threads, NoLostWakeup, Wait
  <2>4. Places'
    BY <1>0, <1>1 DEF Places, Queued, Held, Wait
  <2> QED BY <2>1, <2>2, <2>3, <2>4 DEF Inv
<1>2. ASSUME NEW w \in Workers, Return(w) PROVE Inv'
  <2>1. TypeOK'
    BY <1>0, <1>2 DEF TypeOK, Return
  <2>2. Threads'
    BY <1>0, <1>2 DEF TypeOK, Threads, Return
  <2>3. NoLostWakeup'
    BY <1>0, <1>2 DEF TypeOK, NoLostWakeup, Return
  <2>4. Places'
    BY <1>0, <1>2 DEF Places, Queued, Held, Return
  <2> QED BY <2>1, <2>2, <2>3, <2>4 DEF Inv
<1>3. ASSUME NEW w \in Workers, Take(w) PROVE Inv'
  <2>1. /\ tasks \in Seq(Tasks) /\ tasks # <<>> /\ tasks' = Tail(tasks)
        /\ task' = [task EXCEPT ![w] = Head(tasks)]
        /\ worker' = [worker EXCEPT ![w] = "run"] /\ worker[w] = "test"
        /\ task[w] = NoTask
    BY <1>0, <1>3 DEF TypeOK, Threads, Take
  <2>2. TypeOK'
    BY <1>0, <1>3, <2>1, Shortened DEF TypeOK, Take
  <2>3. Threads'
    <3>1. \A v \in Workers : worker[v] # "return"
      BY <1>0, <2>1 DEF Threads
    <3> QED BY <1>0, <1>3, <2>1, <3>1, Shortened DEF TypeOK, Threads, Take
  <2>4. NoLostWakeup'
    <3>1. worker'[w] = "run" /\ \A v \in Workers : worker'[v] = "wait" => worker[v] = "wait"
      BY <1>0, <2>1 DEF TypeOK
    <3> QED BY <1>0, <1>3, <3>1 DEF NoLostWakeup, Take
  <2>5. Places'
    <3>1. /\ \A i \in DOMAIN tasks' : i + 1 \in DOMAIN tasks /\ tasks'[i] = tasks[i + 1] /\ i \in Nat
          /\ 1 \in DOMAIN tasks /\ Head(tasks) = tasks[1] /\ Head(tasks) \in Tasks
          /\ \A i \in DOMAIN tasks : i # 1 => i - 1 \in DOMAIN tasks' /\ tasks'[i - 1] = tasks[i]
      BY <2>1, Shortened
    <3>2. \A t \in Tasks : Queued(t)' <=> Queued(t) /\ t # Head(tasks)
      <4>1. ASSUME NEW t \in Tasks, Queued(t)' PROVE Queued(t) /\ t # Head(tasks)
        <5>1. PICK i \in DOMAIN tasks' : tasks'[i] = t
          BY <4>1 DEF Queued
        <5>2. i + 1 \in DOMAIN tasks /\ tasks[i + 1] = t /\ i + 1 # 1
          BY <3>1, <5>1, <2>1, Shortened
        <5> QED BY <1>0, <3>1, <5>2 DEF Queued, Places
      <4>2. ASSUME NEW t \in Tasks, Queued(t), t # Head(tasks) PROVE Queued(t)'
        BY <3>1, <4>2 DEF Queued
      <4> QED BY <4>1, <4>2
    <3>3. \A t \in Tasks : Held(t)' <=> Held(t) \/ t = Head(tasks)
      BY <1>0, <2>1, <3>1 DEF TypeOK, Held
    <3>4. Queued(Head(tasks)) /\ ~ Held(Head(tasks))
      BY <1>0, <3>1 DEF Places, Queued
    <3>5. \A i, j \in DOMAIN tasks' : tasks'[i] = tasks'[j] => i = j
      <4> SUFFICES ASSUME NEW i \in DOMAIN tasks', NEW j \in DOMAIN tasks', tasks'[i] = tasks'[j]
                   PROVE  i = j
        OBVIOUS
      <4>1. i + 1 = j + 1 /\ i \in Nat /\ j \in Nat
        BY <1>0, <3>1 DEF Places
      <4> QED BY <4>1
    <3>6. \A v, u \in Workers : task'[v] = task'[u] /\ task'[v] # NoTask => v = u
      BY <1>0, <2>1, <3>4 DEF TypeOK, Places, Held
    <3> QED BY <1>0, <1>3, <3>2, <3>3, <3>4, <3>5, <3>6 DEF Places, Take
  <2> QED BY <2>2, <2>3, <2>4, <2>5 DEF Inv
<1>4. ASSUME NEW w \in Workers, Run(w) PROVE Inv'
  <2>1. task[w] \in Tasks /\ task[w] # NoTask
    BY <1>0, <1>4 DEF TypeOK, Threads, Run
  <2>2. TypeOK'
    BY <1>0, <1>4, Zenon DEF TypeOK, Run
  <2>3. Threads'
    BY <1>0, <1>4 DEF TypeOK, Threads, Run
  <2>4. NoLostWakeup'
    <3>1. worker'[w] = "test" /\ \A v \in Workers : worker'[v] = "wait" => worker[v] = "wait"
      BY <1>0, <1>4 DEF TypeOK, Run
    <3> QED BY <1>0, <1>4, <3>1 DEF NoLostWakeup, Run
  <2>5. Places'
    <3>1. \A t \in Tasks : Held(t)' <=> Held(t) /\ t # task[w]
      BY <1>0, <1>4, <2>1 DEF TypeOK, Places, Held, Run
    <3>2. Held(task[w]) /\ ~ Queued(task[w])
      BY <1>0, <2>1 DEF Places, Held
    <3>3. \A t \in Tasks : Queued(t)' <=> Queued(t)
      BY <1>4 DEF Queued, Run
    <3>4. \A t \in Tasks : future'[t] = IF t = task[w] THEN "ready" ELSE future[t]
      BY <1>0, <1>4 DEF TypeOK, Run
    <3>5. \A t \in Tasks : future'[t] = "pending" <=> Queued(t)' \/ Held(t)'
      BY <1>0, <3>1, <3>2, <3>3, <3>4 DEF Places
    <3>6. \A v, u \in Workers : task'[v] = task'[u] /\ task'[v] # NoTask => v = u
      BY <1>0, <1>4 DEF TypeOK, Places, Run
    <3> QED BY <1>0, <1>4, <3>1, <3>3, <3>5, <3>6 DEF Places, Run
  <2> QED BY <2>2, <2>3, <2>4, <2>5 DEF Inv
<1>5. ASSUME NEW w \in Workers, SpuriousWakeup(w) PROVE Inv'
  <2>1. TypeOK'
    BY <1>0, <1>5 DEF TypeOK, SpuriousWakeup
  <2>2. Threads'
    BY <1>0, <1>5 DEF TypeOK, Threads, SpuriousWakeup
  <2>3. NoLostWakeup'
    BY <1>0, <1>5 DEF TypeOK, NoLostWakeup, SpuriousWakeup
  <2>4. Places'
    BY <1>0, <1>5 DEF Places, Queued, Held, SpuriousWakeup
  <2> QED BY <2>1, <2>2, <2>3, <2>4 DEF Inv
<1>6. ASSUME NEW c \in Callers, NEW t \in Tasks, Enqueue(c, t), working PROVE Inv'
  <2>1. /\ tasks \in Seq(Tasks) /\ tasks' = Append(tasks, t)
        /\ future' = [future EXCEPT ![t] = "pending"] /\ future[t] = "none"
        /\ caller' = [caller EXCEPT ![c] = "notify"]
        /\ UNCHANGED <<working, worker, task, dtor>>
    BY <1>0, <1>6 DEF TypeOK, Enqueue
  <2>2. TypeOK'
    BY <1>0, <2>1, Appended DEF TypeOK
  <2>3. Threads'
    BY <1>0, <1>6, <2>1 DEF Threads
  <2>4. NoLostWakeup'
    BY <1>0, <2>1 DEF TypeOK, NoLostWakeup
  <2>5. Places'
    <3>1. ~ Queued(t) /\ ~ Held(t)
      BY <1>0, <2>1 DEF Places
    <3>2. \A u \in Tasks : Queued(u)' <=> Queued(u) \/ u = t
      <4>1. \A i \in DOMAIN tasks : i \in DOMAIN tasks' /\ tasks'[i] = tasks[i]
        BY <2>1, Appended
      <4>2. \A i \in DOMAIN tasks' : i \in DOMAIN tasks \/ tasks'[i] = t
        BY <2>1, Appended
      <4>3. Len(tasks) + 1 \in DOMAIN tasks' /\ tasks'[Len(tasks) + 1] = t
        BY <2>1, Appended
      <4> QED BY <4>1, <4>2, <4>3 DEF Queued
    <3>3. \A u \in Tasks : Held(u)' <=> Held(u)
      BY <2>1 DEF Held
    <3>4. \A i, j \in DOMAIN tasks' : tasks'[i] = tasks'[j] => i = j
      <4>1. \A i \in DOMAIN tasks : tasks[i] # t
        BY <3>1 DEF Queued
      <4> QED BY <1>0, <2>1, <4>1, Appended DEF Places
    <3>5. \A u \in Tasks : future'[u] = IF u = t THEN "pending" ELSE future[u]
      BY <1>0, <2>1 DEF TypeOK
    <3>6. \A u \in Tasks : future'[u] = "pending" <=> Queued(u)' \/ Held(u)'
      BY <1>0, <3>2, <3>3, <3>5 DEF Places
    <3> QED BY <1>0, <2>1, <3>1, <3>2, <3>3, <3>4, <3>6 DEF Places
  <2> QED BY <2>2, <2>3, <2>4, <2>5 DEF Inv
<1>7. ASSUME NEW c \in Callers, NEW t \in Tasks, Enqueue(c, t), ~ working PROVE Inv'
  <2>1. /\ future' = [future EXCEPT ![t] = "thrown"] /\ future[t] = "none"
        /\ UNCHANGED <<tasks, caller, working, worker, task, dtor>>
    BY <1>0, <1>7 DEF Enqueue
  <2>2. TypeOK'
    BY <1>0, <2>1 DEF TypeOK
  <2>3. Threads' /\ NoLostWakeup'
    BY <1>0, <2>1 DEF Threads, NoLostWakeup
  <2>4. Places'
    <3>1. \A u \in Tasks : future'[u] = "pending" <=> future[u] = "pending"
      BY <1>0, <2>1 DEF TypeOK
    <3> QED BY <1>0, <2>1, <3>1 DEF Places, Queued, Held
  <2> QED BY <2>2, <2>3, <2>4 DEF Inv
<1>8. ASSUME NEW c \in Callers, NotifyOne(c) PROVE Inv'
  <2>1. TypeOK'
    BY <1>0, <1>8 DEF TypeOK, NotifyOne
  <2>2. Threads'
    BY <1>0, <1>8 DEF TypeOK, Threads, NotifyOne
  <2>3. NoLostWakeup'
    <3>1. CASE \E w \in Workers : worker[w] = "wait" /\ worker' = [worker EXCEPT ![w] = "test"]
      BY <1>0, <1>8, <3>1 DEF TypeOK, NoLostWakeup, NotifyOne
    <3>2. CASE (\A w \in Workers : worker[w] # "wait") /\ UNCHANGED worker
      <4>1. PICK w \in Workers : TRUE
        OBVIOUS
      <4>2. tasks # <<>> => worker[w] \in {"test", "run"}
        BY <1>0, <3>2 DEF TypeOK, Threads
      <4> QED BY <1>0, <1>8, <3>2, <4>2 DEF NoLostWakeup, NotifyOne
    <3> QED BY <1>8, <3>1, <3>2 DEF NotifyOne
  <2>4. Places'
    BY <1>0, <1>8 DEF Places, Queued, Held, NotifyOne
  <2> QED BY <2>1, <2>2, <2>3, <2>4 DEF Inv
<1>9. CASE Stop
  <2>1. TypeOK' /\ NoLostWakeup'
    BY <1>0, <1>9, Zenon DEF TypeOK, NoLostWakeup, Stop
  <2>2. Threads'
    BY <1>0, <1>9 DEF Threads, Stop
  <2>3. Places'
    BY <1>0, <1>9 DEF Places, Queued, Held, Stop
  <2> QED BY <2>1, <2>2, <2>3 DEF Inv
<1>10. CASE NotifyAll
  <2>1. TypeOK'
    BY <1>0, <1>10 DEF TypeOK, NotifyAll
  <2>2. Threads'
    BY <1>0, <1>10 DEF TypeOK, Threads, NotifyAll
  <2>3. NoLostWakeup'
    <3>1. \A w \in Workers : worker'[w] # "wait"
      BY <1>10 DEF NotifyAll
    <3>2. PICK w \in Workers : TRUE
      OBVIOUS
    <3>3. tasks # <<>> => worker'[w] \in {"test", "run"}
      BY <1>0, <1>10, <3>1 DEF TypeOK, Threads, NotifyAll
    <3> QED BY <1>10, <3>1, <3>3 DEF NoLostWakeup, NotifyAll
  <2>4. Places'
    BY <1>0, <1>10 DEF Places, Queued, Held, NotifyAll
  <2> QED BY <2>1, <2>2, <2>3, <2>4 DEF Inv
<1>11. CASE Join
  <2>1. TypeOK' /\ NoLostWakeup'
    BY <1>0, <1>11 DEF TypeOK, NoLostWakeup, Join
  <2>2. Threads'
    BY <1>0, <1>11 DEF Threads, Join
  <2>3. Places'
    BY <1>0, <1>11 DEF Places, Queued, Held, Join
  <2> QED BY <2>1, <2>2, <2>3 DEF Inv
<1>12. CASE UNCHANGED vars
  <2>1. TypeOK' /\ Threads' /\ NoLostWakeup'
    BY <1>0, <1>12 DEF TypeOK, Threads, NoLostWakeup, vars
  <2>2. Places'
    BY <1>0, <1>12 DEF Places, Queued, Held, vars
  <2> QED BY <2>1, <2>2 DEF Inv
<1> QED
  BY <1>1, <1>2, <1>3, <1>4, <1>5, <1>6, <1>7, <1>8, <1>9, <1>10, <1>11, <1>12 DEF Next, Done

\* The invariant holds in every reachable state.
THEOREM Invariance == Spec => []Inv
BY InvInit, InvNext, PTL DEF Spec

\* Every piece of the pool's state keeps its type; in particular a worker that
\* runs has a task.
THEOREM TypeCorrect == Spec => []TypeOK
<1>1. Inv => TypeOK
  BY DEF Inv
<1> QED BY <1>1, Invariance, PTL

\* No wakeup is lost, although enqueue and the destructor notify after they have
\* released mutex_ and wait() may return for no reason.
THEOREM WakeupsKept == Spec => []NoLostWakeup
<1>1. Inv => NoLostWakeup
  BY DEF Inv
<1> QED BY <1>1, Invariance, PTL

\* A task whose future is pending is once in the queue or with one worker, and
\* any other task nowhere: workers that wake together never run one twice.
THEOREM TaskInOnePlace == Spec => []OnePlace
<1>1. Inv => OnePlace
  <2> SUFFICES ASSUME Inv, NEW t \in Tasks
               PROVE  Cardinality({i \in DOMAIN tasks : tasks[i] = t})
                        + Cardinality({w \in Workers : task[w] = t})
                      = IF future[t] = "pending" THEN 1 ELSE 0
    BY DEF OnePlace
  <2> DEFINE Q == {i \in DOMAIN tasks : tasks[i] = t}
             H == {w \in Workers : task[w] = t}
  <2>1. Places /\ t # NoTask
    BY ThreadPoolAssumption DEF Inv
  <2>2. Queued(t) => Cardinality(Q) = 1
    <3> SUFFICES ASSUME Queued(t) PROVE Cardinality(Q) = 1
      OBVIOUS
    <3>1. PICK i \in DOMAIN tasks : tasks[i] = t
      BY DEF Queued
    <3>2. Q = {i}
      BY <2>1, <3>1 DEF Places
    <3> QED BY <3>2, FS_Singleton
  <2>3. ~ Queued(t) => Cardinality(Q) = 0
    <3> SUFFICES ASSUME ~ Queued(t) PROVE Cardinality(Q) = 0
      OBVIOUS
    <3>1. Q = {}
      BY DEF Queued
    <3> QED BY <3>1, FS_EmptySet
  <2>4. Held(t) => Cardinality(H) = 1
    <3> SUFFICES ASSUME Held(t) PROVE Cardinality(H) = 1
      OBVIOUS
    <3>1. PICK w \in Workers : task[w] = t
      BY DEF Held
    <3>2. H = {w}
      BY <2>1, <3>1 DEF Places
    <3> QED BY <3>2, FS_Singleton, Zenon
  <2>5. ~ Held(t) => Cardinality(H) = 0
    <3> SUFFICES ASSUME ~ Held(t) PROVE Cardinality(H) = 0
      OBVIOUS
    <3>1. H = {}
      BY DEF Held
    <3> QED BY <3>1, FS_EmptySet
  <2>6. /\ ~ (Queued(t) /\ Held(t))
        /\ future[t] = "pending" <=> Queued(t) \/ Held(t)
    BY <2>1 DEF Places
  <2> HIDE DEF Q, H
  <2>7. Cardinality(Q) + Cardinality(H) = IF future[t] = "pending" THEN 1 ELSE 0
    <3>1. CASE Queued(t)
      <4>1. Cardinality(Q) = 1 /\ Cardinality(H) = 0 /\ future[t] = "pending"
        BY <2>2, <2>5, <2>6, <3>1
      <4> QED BY <4>1
    <3>2. CASE Held(t)
      <4>1. Cardinality(Q) = 0 /\ Cardinality(H) = 1 /\ future[t] = "pending"
        BY <2>3, <2>4, <2>6, <3>2
      <4> QED BY <4>1
    <3>3. CASE ~ Queued(t) /\ ~ Held(t)
      <4>1. Cardinality(Q) = 0 /\ Cardinality(H) = 0 /\ future[t] # "pending"
        BY <2>3, <2>5, <2>6, <3>3
      <4> QED BY <4>1
    <3> QED BY <3>1, <3>2, <3>3
  <2> QED BY <2>7 DEF Q, H
<1> QED BY <1>1, Invariance, PTL

-----------------------------------------------------------------------------
(* The pool implements TaskQueue *)

\* The life of the pool as TaskQueue sees it.
phase == CASE dtor = "idle" -> "open"
           [] dtor = "done" -> "gone"
           [] OTHER -> "closing"

\* Steps of the threads that callers do not see.
LEMMA Unseen ==
  ASSUME UNCHANGED <<tasks, task, future>>, phase' = phase
  PROVE  UNCHANGED Abstract!vars
BY DEF Abstract!vars, phase

\* A step of the pool is a step of the queue, or none.
LEMMA StepImplements == Inv /\ [Next]_vars => [Abstract!Next]_(Abstract!vars)
<1> SUFFICES ASSUME Inv, [Next]_vars PROVE [Abstract!Next]_(Abstract!vars)
  OBVIOUS
<1> USE ThreadPoolAssumption
<1>0. TypeOK /\ Threads /\ Places
  BY DEF Inv
<1>1. ASSUME NEW w \in Workers, Wait(w) \/ Return(w) \/ SpuriousWakeup(w)
      PROVE  UNCHANGED Abstract!vars
  <2>1. UNCHANGED <<tasks, task, future>> /\ phase' = phase
    BY <1>1 DEF Wait, Return, SpuriousWakeup, phase
  <2> QED BY <2>1, Unseen
<1>2. ASSUME NEW w \in Workers, Take(w) PROVE Abstract!Start
  <2>1. tasks \in Seq(Tasks) /\ task[w] = NoTask /\ Head(tasks) \in Tasks
    BY <1>0, <1>2, Shortened DEF TypeOK, Threads, Take
  <2>2. \A v \in Workers : task'[v] = IF v = w THEN Head(tasks) ELSE task[v]
    BY <1>0, <1>2 DEF TypeOK, Take
  <2>3. {task'[v] : v \in Workers} \ {NoTask} = ({task[v] : v \in Workers} \ {NoTask}) \cup {Head(tasks)}
    BY <2>1, <2>2
  <2> QED BY <1>2, <2>3, Zenon DEF Take, Abstract!Start
<1>3. ASSUME NEW w \in Workers, NEW t \in Tasks, t = task[w], Run(w) PROVE Abstract!Finish(t)
  <2>1. t # NoTask
    OBVIOUS
  <2>2. \A v \in Workers : task'[v] = IF v = w THEN NoTask ELSE task[v]
    BY <1>0, <1>3 DEF TypeOK, Run
  <2>3. \A v \in Workers : task[v] = t => v = w
    BY <1>0, <1>3, <2>1 DEF Places
  <2>4. {task'[v] : v \in Workers} \ {NoTask} = ({task[v] : v \in Workers} \ {NoTask}) \ {t}
    BY <1>3, <2>1, <2>2, <2>3
  <2>5. t \in {task[v] : v \in Workers} \ {NoTask}
    BY <1>3, <2>1
  <2>6. future' = [future EXCEPT ![t] = "ready"] /\ UNCHANGED <<tasks, dtor>>
    BY <1>3 DEF Run
  <2> QED BY <2>4, <2>5, <2>6 DEF Abstract!Finish
<1>4. ASSUME NEW c \in Callers, NEW t \in Tasks, Enqueue(c, t)
      PROVE  Abstract!Accept(t) \/ Abstract!Reject(t)
  <2>1. CASE working
    BY <1>0, <1>4, <2>1 DEF Threads, Enqueue, Abstract!Accept
  <2>2. CASE ~ working
    <3>1. dtor # "idle" /\ dtor # "done"
      BY <1>0, <1>4, <2>2 DEF Threads, Enqueue
    <3> QED BY <1>4, <2>2, <3>1 DEF Enqueue, Abstract!Reject
  <2> QED BY <2>1, <2>2
<1>5. ASSUME NEW c \in Callers, NotifyOne(c) PROVE UNCHANGED Abstract!vars
  <2>1. UNCHANGED <<tasks, task, future>> /\ phase' = phase
    BY <1>5 DEF NotifyOne, phase
  <2> QED BY <2>1, Unseen
<1>6. CASE Stop
  <2>1. Abstract!Close
    BY <1>6 DEF Stop, Abstract!Close
  <2> QED BY <2>1 DEF Abstract!Next
<1>7. CASE NotifyAll
  <2>1. UNCHANGED <<tasks, task, future>> /\ phase' = phase
    BY <1>7 DEF NotifyAll, phase
  <2> QED BY <2>1, Unseen
<1>8. CASE Join
  <2>1. tasks = <<>> /\ \A w \in Workers : task[w] = NoTask
    BY <1>0, <1>8 DEF TypeOK, Threads, Join
  <2>2. {task[w] : w \in Workers} \ {NoTask} = {}
    BY <2>1
  <2>3. Abstract!Gone
    BY <1>8, <2>1, <2>2 DEF Join, Abstract!Gone
  <2> QED BY <2>3 DEF Abstract!Next
<1>9. CASE UNCHANGED vars
  <2>1. UNCHANGED <<tasks, task, future>> /\ phase' = phase
    BY <1>9 DEF vars, phase
  <2> QED BY <2>1, Unseen
<1>10. ASSUME NEW w \in Workers, Take(w) \/ Run(w) PROVE Abstract!Next
  <2>1. CASE Take(w)
    <3>1. Abstract!Start
      BY <1>2, <2>1
    <3> QED BY <3>1 DEF Abstract!Next
  <2>2. CASE Run(w)
    <3>1. PICK t \in Tasks : t = task[w]
      BY <1>0, <2>2 DEF TypeOK, Threads, Run
    <3>2. Abstract!Finish(t)
      BY <1>3, <2>2, <3>1
    <3> QED BY <3>2 DEF Abstract!Next
  <2> QED BY <1>10, <2>1, <2>2
<1>11. ASSUME NEW c \in Callers, NEW t \in Tasks, Enqueue(c, t) PROVE Abstract!Next
  <2>1. Abstract!Accept(t) \/ Abstract!Reject(t)
    BY <1>4, <1>11
  <2> QED BY <2>1 DEF Abstract!Next
<1> QED
  BY <1>1, <1>5, <1>6, <1>7, <1>8, <1>9, <1>10, <1>11 DEF Next, Done

\* thread_pool implements the safety part of TaskQueue: tasks start in the order
\* enqueue accepted them, each once, none is accepted while the pool is being
\* destroyed, and the destructor returns only when all have finished.
THEOREM PoolImplements == Spec => Abstract!Init /\ [][Abstract!Next]_(Abstract!vars)
<1>1. Init => Abstract!Init
  <2> SUFFICES ASSUME Init PROVE Abstract!Init
    OBVIOUS
  <2>1. {task[w] : w \in Workers} \ {NoTask} = {}
    BY DEF Init
  <2> QED BY <2>1 DEF Init, Abstract!Init
<1> QED BY <1>1, StepImplements, Invariance, PTL DEF Spec

=============================================================================
