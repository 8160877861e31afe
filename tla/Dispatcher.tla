----------------------------- MODULE Dispatcher -----------------------------
(***************************************************************************)
(* network/dispatcher.cc: the thread in loop(), any number of callers of   *)
(* run_at, cancel and exit, and the thread pool, here by what it promises  *)
(* (TaskQueue).  Only handle_timeout and exit take mutex_; run_at, cancel  *)
(* and repeat touch the maps without it, so their steps fall between any   *)
(* two steps of the loop.  An operation on a map is taken as atomic.       *)
(*                                                                         *)
(* A timer is <<time, seq>>.  The closure of timer s is the caller's task  *)
(* (target[s] = 0) or repeat(&repeatable_timers_[r]) (target[s] = r).      *)
(* Computing takes no time: the clock ticks while the loop is in the       *)
(* poller.  Memory of an erased repeatable_task still reads as it was; the *)
(* process may also end there, which needs no action.                      *)
(***************************************************************************)
EXTENDS Integers, Sequences, FiniteSets

CONSTANTS
    DEFAULT_TIMEOUTS, MAX_TIMEOUTS,
    Delays,     \* how far ahead callers set timers
    Interval,   \* the interval of repeatable timers
    MaxSeq,     \* bound: timers made
    MaxTime     \* bound: the clock, until exit is called

ASSUME DispatcherAssumption ==
    /\ DEFAULT_TIMEOUTS \in Nat \ {0} /\ MAX_TIMEOUTS \in Nat /\ Interval \in Nat \ {0}
    /\ Delays \subseteq Nat /\ MaxSeq \in Nat /\ MaxTime \in Nat \ {0}

Seqs == 1 .. MaxSeq

VARIABLES
    working, time_seq, next_timeout,
    timers,       \* the keys of timers_
    target,       \* the closure of each timer made
    rep,          \* the repeatable_task made as number r
    repeatable,   \* the keys of repeatable_timers_, by number
    pipe,         \* bytes in wake_up_
    registered,   \* the poller watches the pipe (kqueue), or not (epoll)
    loop,         \* where the thread in loop() is
    final,        \* it is in its last loop_once
    deadline,     \* until when it polls
    now,          \* get_current_time()
    waker,        \* where a call of exit is
    stage,        \* how far the closure of a repeatable task has come
    queue, running, future, phase,      \* the thread pool
    cancelled,    \* history: timers whose cancel returned true
    lapses        \* history: see below

pool == INSTANCE TaskQueue WITH Tasks <- Seqs

poolVars == <<queue, running, future, phase>>
mapVars == <<timers, target, rep, repeatable, time_seq>>
loopVars == <<loop, final, deadline>>
ioVars == <<working, pipe, registered, now, waker>>
poolOnly == <<ioVars, next_timeout, mapVars, loopVars, stage, cancelled, lapses>>
vars == <<poolOnly, poolVars>>

(***************************************************************************)
(* lapses:                                                                 *)
(*   "begin"     timers_.begin() changed between its enqueue and its erase *)
(*   "late"      repeat ran so late that its next timer was in the past    *)
(*   "dangling"  a repeatable_task was erased with its closure queued or   *)
(*               running                                                   *)
(***************************************************************************)
Before(x, y) == x[1] < y[1] \/ (x[1] = y[1] /\ x[2] < y[2])
begin(s) == CHOOSE x \in s : \A y \in s \ {x} : Before(x, y)

min(a, b) == IF a <= b THEN a ELSE b

\* The value update_next_timeout computes for timers s; that the code cuts it to
\* an int matters only to a timer more than 2^31 ms away.
next_timeout_of(s) ==
    IF s = {} THEN MAX_TIMEOUTS
    ELSE LET d == begin(s)[1] - now IN IF d <= 0 THEN 0 ELSE d

\* Closures of repeatable task r that the pool has and that will still use it.
InPool(r) == {s \in Seqs : target[s] = r /\ future[s] = "pending" /\ stage[s] = "start"}

BeginMoved(s) == loop = "erase" /\ (s = {} \/ timers = {} \/ begin(s) # begin(timers))

Init ==
    /\ working = TRUE /\ time_seq = 0 /\ next_timeout = MAX_TIMEOUTS
    /\ timers = {} /\ target = [s \in Seqs |-> 0]
    /\ rep = [r \in Seqs |-> [at |-> 0, timer_id |-> <<0, 0>>]] /\ repeatable = {}
    /\ pipe = 0 /\ registered \in BOOLEAN
    /\ loop = "test" /\ final = FALSE /\ deadline = 0
    /\ now = 1
    /\ waker = "idle" /\ stage = [s \in Seqs |-> "start"]
    /\ pool!Init
    /\ cancelled = {} /\ lapses = {}

-----------------------------------------------------------------------------
(* The thread in loop() *)

\* timeout in loop_once: at most ms.
poll_timeout_forever(ms) == next_timeout
poll_timeout(ms) == min(ms, next_timeout)

Test ==
    /\ loop = "test" /\ working
    /\ loop' = "poll" /\ deadline' = now + poll_timeout(DEFAULT_TIMEOUTS)
    /\ UNCHANGED <<final, mapVars, next_timeout, pipe, poolVars, lapses>>

\* working_ is false: both maps are cleared, then one more loop_once(0).
Clear ==
    /\ loop = "test" /\ ~working
    /\ timers' = {} /\ repeatable' = {}
    /\ lapses' = lapses \cup {x \in {"dangling"} : \E r \in repeatable : InPool(r) # {}}
    /\ final' = TRUE
    /\ loop' = "poll" /\ deadline' = now + poll_timeout(0)
    /\ UNCHANGED <<target, rep, time_seq, next_timeout, pipe, poolVars>>

\* The poller returns: on the wake-up byte, which the handler reads, or when
\* the time is over.
Readable == registered /\ pipe > 0
bytes_left_always == pipe - 1
bytes_left == IF Readable THEN pipe - 1 ELSE pipe
Poll ==
    /\ loop = "poll" /\ (Readable \/ now >= deadline)
    /\ pipe' = bytes_left
    /\ loop' = "timeout"
    /\ UNCHANGED <<final, deadline, mapVars, next_timeout, poolVars, lapses>>

\* A turn of the while loop of handle_timeout: enqueue the first timer.  One
\* left behind by a lapse holds a function that was moved away.
due(x) == x[1] <= now       \* x < {now, MAX_TIMEOUTS}
Enqueue ==
    /\ loop = "timeout" /\ timers # {} /\ due(begin(timers))
    /\ LET s == begin(timers)[2] IN
         IF future[s] = "none" THEN pool!Accept(s) ELSE UNCHANGED poolVars
    /\ loop' = "erase"
    /\ UNCHANGED <<final, deadline, mapVars, next_timeout, pipe, lapses>>

\* The other half of the turn erases what is first now.
erase_all_due(s) == {x \in s : ~due(x)}
erase_begin(s) == IF s = {} THEN {} ELSE s \ {begin(s)}
Erase ==
    /\ loop = "erase"
    /\ timers' = erase_begin(timers)
    /\ loop' = "timeout"
    /\ UNCHANGED <<final, deadline, target, rep, repeatable, time_seq,
                   next_timeout, pipe, poolVars, lapses>>

\* No timer is due; the next turn of loop().
next_turn_never_last == "test"
next_turn == IF final THEN "done" ELSE "test"
NoneDue ==
    /\ loop = "timeout" /\ (timers # {} => ~due(begin(timers)))
    /\ next_timeout' = next_timeout_of(timers)
    /\ loop' = next_turn
    /\ deadline' = 0
    /\ UNCHANGED <<final, mapVars, pipe, poolVars, lapses>>

Loop ==
    /\ Test \/ Clear \/ Poll \/ Enqueue \/ Erase \/ NoneDue
    /\ UNCHANGED <<working, registered, now, waker, stage, cancelled>>

Tick ==
    /\ now < MaxTime \/ ~working
    /\ loop = "poll" /\ ~Readable /\ now < deadline
    /\ now' = now + 1
    /\ UNCHANGED <<working, next_timeout, mapVars, pipe, registered, loopVars,
                   waker, stage, poolVars, cancelled, lapses>>

-----------------------------------------------------------------------------
(* Callers, on any thread *)

\* Timer x is put into timers_.  next_timeout_ is not locked: the caller's
\* update may be lost to one the loop computed from the timers before.
NewTimer(x) ==
    LET s == timers \cup {x} IN
    /\ timers' = s
    /\ next_timeout' \in {next_timeout_of(s), next_timeout}
    /\ lapses' = lapses \cup {y \in {"begin"} : BeginMoved(s)}
                        \cup {y \in {"late"} : x[1] < now}

RunAt(tp) ==
    /\ working /\ time_seq + 1 <= MaxSeq
    /\ time_seq' = time_seq + 1
    /\ NewTimer(<<tp, time_seq + 1>>)
    /\ UNCHANGED <<ioVars, target, rep, repeatable, loopVars, stage, poolVars, cancelled>>

\* run_at with an interval: one id for the task, one for its first timer.
RunEvery(tp) ==
    LET r == time_seq + 1
        s == time_seq + 2
    IN /\ working /\ s <= MaxSeq
       /\ time_seq' = s
       /\ repeatable' = repeatable \cup {r}
       /\ rep' = [rep EXCEPT ![r] = [at |-> tp, timer_id |-> <<tp, s>>]]
       /\ target' = [target EXCEPT ![s] = r]
       /\ NewTimer(<<tp, s>>)
       /\ UNCHANGED <<ioVars, loopVars, stage, poolVars, cancelled>>

\* cancel of timer s or, if s is the number of a repeatable task, of the task
\* and its timer.  For a task that is gone the process ends.
cancel_task_only(s) == IF s \in repeatable THEN timers ELSE {x \in timers : x[2] # s}
timers_without(s) ==
    IF s \in repeatable THEN timers \ {rep[s].timer_id} ELSE {x \in timers : x[2] # s}
Cancel(s) ==
    /\ s \in repeatable \/ (target[s] = 0 /\ \E x \in timers : x[2] = s)
    /\ timers' = timers_without(s)
    /\ repeatable' = repeatable \ {s}
    /\ cancelled' = cancelled \cup {s}
    /\ lapses' = lapses \cup {x \in {"begin"} : BeginMoved(timers_without(s))}
                        \cup {x \in {"dangling"} : s \in repeatable /\ InPool(s) # {}}
    /\ UNCHANGED <<ioVars, next_timeout, target, rep, time_seq, loopVars, stage, poolVars>>

Exit ==
    /\ waker = "idle" /\ working
    /\ working' = FALSE /\ waker' = "wakeup"
    /\ UNCHANGED <<next_timeout, mapVars, pipe, registered, loopVars, now, stage,
                   poolVars, cancelled, lapses>>

Wakeup ==
    /\ waker = "wakeup"
    /\ pipe' = pipe + 1 /\ waker' = "done"
    /\ UNCHANGED <<working, next_timeout, mapVars, registered, loopVars, now, stage,
                   poolVars, cancelled, lapses>>

-----------------------------------------------------------------------------
(* The thread pool *)

Start == pool!Start /\ UNCHANGED poolOnly

\* repeat: the next timer of the task; then the callback, with Finish.
Repeat(s) ==
    LET r == target[s]
        at == rep[r].at + Interval
        n == time_seq + 1
    IN /\ s \in running /\ r # 0 /\ stage[s] = "start" /\ n <= MaxSeq
       /\ time_seq' = n
       /\ rep' = [rep EXCEPT ![r] = [at |-> at, timer_id |-> <<at, n>>]]
       /\ target' = [target EXCEPT ![n] = r]
       /\ NewTimer(<<at, n>>)
       /\ stage' = [stage EXCEPT ![s] = "callback"]
       /\ UNCHANGED <<ioVars, repeatable, loopVars, poolVars, cancelled>>

Finish(s) ==
    /\ target[s] = 0 \/ stage[s] = "callback"
    /\ pool!Finish(s) /\ UNCHANGED poolOnly

\* The destructor, after loop() has returned.
Destroy ==
    /\ loop = "done" /\ waker # "wakeup"
    /\ pool!Close \/ pool!Gone
    /\ UNCHANGED poolOnly

Next ==
    \/ Loop \/ Tick \/ Exit \/ Wakeup \/ Start \/ Destroy
    \/ \E d \in Delays : RunAt(now + d) \/ RunEvery(now + d)
    \/ \E s \in Seqs : Cancel(s) \/ Repeat(s) \/ Finish(s)

\* Threads that can run do, time passes, and tasks end.
Spec ==
    /\ Init /\ [][Next]_vars
    /\ WF_vars(Loop) /\ WF_vars(Tick) /\ WF_vars(Wakeup) /\ WF_vars(Start)
    /\ \A s \in Seqs : WF_vars(Finish(s) \/ Repeat(s))

-----------------------------------------------------------------------------

TypeOK ==
    /\ working \in BOOLEAN /\ time_seq \in 0 .. MaxSeq
    /\ next_timeout \in Nat
    /\ timers \subseteq Nat \X Seqs
    /\ target \in [Seqs -> 0 .. MaxSeq] /\ repeatable \subseteq Seqs
    /\ rep \in [Seqs -> [at : Nat, timer_id : Nat \X Nat]]
    /\ pipe \in {0, 1} /\ now \in 1 .. MaxTime + DEFAULT_TIMEOUTS
    /\ loop \in {"test", "poll", "timeout", "erase", "done"}
    /\ queue \in Seq(Seqs) /\ running \subseteq Seqs

\* However run_at, cancel and repeat race with the loop, and whatever value
\* next_timeout_ is left with, a timer is enqueued at the latest
\* DEFAULT_TIMEOUTS after it is due, because loop_once never polls longer.
BoundedLateness ==
    working /\ "late" \notin lapses => \A x \in timers : now - x[1] <= DEFAULT_TIMEOUTS

\* A timer that cancel removed does not run afterwards, and a repeatable task
\* has no timer left, unless one of the lapses occurred.
CancelHolds ==
    lapses \subseteq {"late"} =>
      \A c \in cancelled :
        /\ future[c] = "none"
        /\ \A s \in Seqs : target[s] = c =>
             /\ future[s] = "none" => \A x \in timers : x[2] # s
             /\ future[s] = "pending" => stage[s] = "callback"

\* Every timer within the clock's bound is run, cancelled or cleared by exit,
\* unless the begin of timers_ moved under handle_timeout.
EveryTimerRuns ==
    \A s \in Seqs :
      (\E x \in timers : x[2] = s /\ x[1] + DEFAULT_TIMEOUTS <= MaxTime)
        ~> future[s] = "ready" \/ s \in cancelled \/ target[s] \in cancelled
           \/ ~working \/ ~(lapses \subseteq {"late"}) \/ (target[s] # 0 /\ time_seq = MaxSeq)

\* exit ends loop(), with or without the poller watching the pipe.
ExitEnds == ~working ~> loop = "done"

=============================================================================
