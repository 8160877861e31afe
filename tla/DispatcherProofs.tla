-------------------------- MODULE DispatcherProofs --------------------------
(***************************************************************************)
(* What the dispatcher promises, for any timeouts, delays and intervals    *)
(* and any number of timers: its types hold of every behaviour, a timer is *)
(* enqueued at the latest DEFAULT_TIMEOUTS after it is due, and what       *)
(* cancel removed does not run unless one of the lapses occurred.          *)
(***************************************************************************)
EXTENDS Dispatcher, WellFoundedInduction, TLAPS

-----------------------------------------------------------------------------
(* The first timer.                                                         *)

\* A set of numbers has a least one.
LEMMA Smallest ==
  ASSUME NEW S, S \subseteq Nat, S # {}
  PROVE  \E m \in S : \A j \in S : m <= j
<1>1. PICK m \in S : \A j \in S : ~ (<<j, m>> \in OpToRel(<, Nat))
  BY WFMin, NatLessThanWellFounded, Zenon
<1>2. \A j \in S : ~ (j < m)
  BY <1>1, Zenon DEF OpToRel
<1> QED BY <1>2

\* begin is a timer, and none is due before it.
LEMMA BeginFirst ==
  ASSUME NEW S, S \subseteq Nat \X Seqs, S # {}
  PROVE  begin(S) \in S /\ \A y \in S : begin(S)[1] <= y[1]
<1> DEFINE T == {x[1] : x \in S}
<1>1. PICK a \in T : \A j \in T : a <= j
  <2>1. T \subseteq Nat /\ T # {}
    OBVIOUS
  <2> QED BY <2>1, Smallest, Zenon
<1> DEFINE U == {x[2] : x \in {y \in S : y[1] = a}}
<1>2. PICK b \in U : \A j \in U : b <= j
  <2>1. U \subseteq Nat /\ U # {}
    BY DispatcherAssumption DEF Seqs
  <2> QED BY <2>1, Smallest, Zenon
<1>3. PICK z \in S : z[1] = a /\ z[2] = b
  BY <1>2
<1>4. ASSUME NEW y \in S \ {z} PROVE Before(z, y)
  <2>1. y \in Nat \X Seqs /\ z \in Nat \X Seqs
    OBVIOUS
  <2>2. y[1] \in Nat /\ z[1] \in Nat /\ y[2] \in Nat /\ z[2] \in Nat /\ y = <<y[1], y[2]>> /\ z = <<z[1], z[2]>>
    BY <2>1, DispatcherAssumption DEF Seqs
  <2>3. z[1] <= y[1] /\ (y[1] = a => z[2] <= y[2])
    BY <1>1, <1>2, <1>3
  <2>4. ~ (z[1] = y[1] /\ z[2] = y[2])
    BY <2>2
  <2> QED BY <1>3, <2>2, <2>3, <2>4 DEF Before
<1>5. begin(S) \in S /\ \A y \in S \ {begin(S)} : Before(begin(S), y)
  <2>1. \E x \in S : \A y \in S \ {x} : Before(x, y)
    BY <1>4
  <2> QED BY <2>1 DEF begin
<1>6. ASSUME NEW y \in S PROVE begin(S)[1] <= y[1]
  <2>1. begin(S)[1] \in Nat /\ y[1] \in Nat
    BY <1>5
  <2> QED BY <1>5, <2>1 DEF Before
<1> QED BY <1>5, <1>6

-----------------------------------------------------------------------------
(* The queue of the thread pool.                                            *)

\* A task at the end.
LEMMA Appended ==
  ASSUME NEW q \in Seq(Seqs), NEW s \in Seqs, \A k \in DOMAIN q : q[k] # s,
         \A j, k \in DOMAIN q : q[j] = q[k] => j = k,
         NEW n, n = Append(q, s)
  PROVE  /\ n \in Seq(Seqs)
         /\ \A k \in DOMAIN n : n[k] = s \/ \E j \in DOMAIN q : n[k] = q[j]
         /\ \A j, k \in DOMAIN n : n[j] = n[k] => j = k
<1>1. /\ n \in Seq(Seqs) /\ DOMAIN n = 1 .. Len(q) + 1 /\ DOMAIN q = 1 .. Len(q) /\ Len(q) \in Nat
      /\ n[Len(q) + 1] = s /\ \A k \in 1 .. Len(q) : n[k] = q[k]
  OBVIOUS
<1>2. \A k \in DOMAIN n : k = Len(q) + 1 \/ k \in DOMAIN q
  BY <1>1
<1>3. \A j, k \in DOMAIN n : n[j] = n[k] => j = k
  BY <1>1, <1>2
<1> QED BY <1>1, <1>2, <1>3

\* The first task taken away.
LEMMA Shortened ==
  ASSUME NEW q \in Seq(Seqs), q # <<>>, \A j, k \in DOMAIN q : q[j] = q[k] => j = k
  PROVE  /\ Head(q) \in Seqs /\ \E k \in DOMAIN q : Head(q) = q[k]
         /\ Tail(q) \in Seq(Seqs)
         /\ \A k \in DOMAIN Tail(q) : Tail(q)[k] # Head(q) /\ \E j \in DOMAIN q : Tail(q)[k] = q[j]
         /\ \A j, k \in DOMAIN Tail(q) : Tail(q)[j] = Tail(q)[k] => j = k
<1> DEFINE n == Tail(q)
<1>1. /\ Len(q) \in Nat /\ Len(q) # 0 /\ DOMAIN q = 1 .. Len(q) /\ Head(q) = q[1] /\ n \in Seq(Seqs)
      /\ DOMAIN n = 1 .. Len(q) - 1 /\ \A k \in 1 .. Len(q) - 1 : n[k] = q[k + 1]
  OBVIOUS
<1> HIDE DEF n
<1>2. \A k \in DOMAIN n : k + 1 \in DOMAIN q /\ k + 1 # 1
  BY <1>1
<1>3. 1 \in DOMAIN q
  BY <1>1
<1>4. Head(q) \in Seqs
  BY <1>1, <1>3
<1>5. ASSUME NEW j \in DOMAIN n, NEW k \in DOMAIN n, n[j] = n[k] PROVE j = k
  <2>1. j + 1 = k + 1
    BY <1>1, <1>2, <1>5
  <2> QED BY <1>1, <2>1
<1> QED BY <1>1, <1>2, <1>3, <1>4, <1>5 DEF n

-----------------------------------------------------------------------------
(* The invariant.                                                           *)

\* Types, and what bounds the clock: the loop polls until the clock's bound at
\* most, and a last time without waiting.
Typed ==
  /\ TypeOK
  /\ final \in BOOLEAN /\ deadline \in Nat /\ waker \in {"idle", "wakeup", "done"}
  /\ stage \in [Seqs -> {"start", "callback"}]
  /\ waker # "done" => pipe = 0
  /\ working => now <= MaxTime
  /\ final \/ loop = "done" => ~working
  /\ loop = "poll" => now <= deadline /\ deadline <= MaxTime + DEFAULT_TIMEOUTS

\* The pool: a queued or running task is pending, and in one place.
PoolOK ==
  /\ future \in [Seqs -> {"none", "thrown", "pending", "ready"}]
  /\ \A k \in DOMAIN queue : future[queue[k]] = "pending" /\ queue[k] \notin running
  /\ \A j, k \in DOMAIN queue : queue[j] = queue[k] => j = k
  /\ \A s \in running : future[s] = "pending"

\* While exit was not called and no timer was set in the past: what is late is
\* late by no more than one wait in the poller.
Punctual ==
  working /\ "late" \notin lapses =>
    /\ loop = "test" => \A x \in timers : now <= x[1]
    /\ loop = "poll" => /\ deadline <= now + DEFAULT_TIMEOUTS
                       /\ \A x \in timers : deadline - x[1] <= DEFAULT_TIMEOUTS
    /\ \A x \in timers : now - x[1] <= DEFAULT_TIMEOUTS

\* Numbers that time_seq_ has not reached are not in use.
Fresh ==
  /\ \A x \in timers : x[2] <= time_seq
  /\ \A s \in Seqs : s > time_seq => target[s] = 0 /\ future[s] = "none" /\ stage[s] = "start"
  /\ \A s \in Seqs : target[s] <= time_seq
  /\ repeatable \cup cancelled \subseteq 1 .. time_seq

\* Timer s will make the next timer of its task: it is set, or in the pool and
\* not yet repeated.
Active(s) ==
  \/ future[s] = "none" /\ \E x \in timers : x[2] = s
  \/ future[s] = "pending" /\ stage[s] = "start"

\* Every timer has a number of its own, numbers of tasks are not numbers of
\* timers, and a task knows its active timer, of which there is one.
Linked ==
  /\ \A x, y \in timers : x[2] = y[2] => x = y
  /\ \A r \in Seqs : r \in repeatable \/ (\E s \in Seqs : target[s] = r) =>
       future[r] = "none" /\ target[r] = 0 /\ \A x \in timers : x[2] # r
  /\ \A s \in Seqs : Active(s) /\ target[s] # 0 =>
       /\ rep[target[s]].timer_id[2] = s
       /\ \A x \in timers : x[2] = s => x = rep[target[s]].timer_id

\* As long as begin did not move under handle_timeout and no task was erased with
\* its closure in the pool: a timer that was enqueued is the one about to be
\* erased, and what was cancelled is not active.
Settled ==
  lapses \subseteq {"late"} =>
    /\ \A x \in timers : future[x[2]] # "none" => loop = "erase" /\ x = begin(timers)
    /\ \A c \in cancelled : future[c] = "none" /\ \A x \in timers : x[2] # c
    /\ \A s \in Seqs : target[s] \in cancelled => ~Active(s)

Inv == Typed /\ PoolOK /\ Fresh /\ Linked /\ Settled /\ Punctual

-----------------------------------------------------------------------------
(* Types and the clock.                                                     *)

\* What update_next_timeout computes.
LEMMA TimeoutTyped ==
  ASSUME NEW S, S \subseteq Nat \X Seqs, now \in Int
  PROVE  next_timeout_of(S) \in Nat
<1>1. CASE S = {}
  BY <1>1, DispatcherAssumption DEF next_timeout_of
<1>2. CASE S # {}
  <2>1. begin(S)[1] \in Nat
    BY <1>2, BeginFirst
  <2> QED BY <1>2, <2>1 DEF next_timeout_of
<1> QED BY <1>1, <1>2

\* A new timer with the next number.
LEMMA NewTimerTyped ==
  ASSUME Typed, NEW at \in Nat, NEW n \in Seqs, NewTimer(<<at, n>>)
  PROVE  timers' \subseteq Nat \X Seqs /\ next_timeout' \in Nat /\ timers' = timers \cup {<<at, n>>}
<1>1. timers' = timers \cup {<<at, n>>} /\ next_timeout' \in {next_timeout_of(timers \cup {<<at, n>>}), next_timeout}
  BY DEF NewTimer
<1>2. timers \cup {<<at, n>>} \subseteq Nat \X Seqs /\ now \in Int /\ next_timeout \in Nat
  BY DispatcherAssumption DEF Typed, TypeOK
<1>3. next_timeout_of(timers \cup {<<at, n>>}) \in Nat
  BY <1>2, TimeoutTyped
<1> QED BY <1>1, <1>2, <1>3

\* The steps of the loop keep the types.
LEMMA LoopTyped ==
  ASSUME Typed, PoolOK, Loop PROVE Typed'
<1>1. UNCHANGED <<working, registered, now, waker, stage, cancelled>>
  BY DEF Loop
<1>2. now \in Nat /\ now >= 1 /\ now <= MaxTime + DEFAULT_TIMEOUTS /\ timers \subseteq Nat \X Seqs
      /\ next_timeout \in Nat /\ DEFAULT_TIMEOUTS \in Nat /\ MaxTime \in Nat
  BY DispatcherAssumption DEF Typed, TypeOK
<1>3. CASE Test
  <2>1. loop' = "poll" /\ working /\ deadline' = now + min(DEFAULT_TIMEOUTS, next_timeout)
        /\ UNCHANGED <<final, mapVars, next_timeout, pipe, poolVars, lapses>>
    BY <1>3 DEF Test, poll_timeout
  <2>2. min(DEFAULT_TIMEOUTS, next_timeout) \in Nat /\ min(DEFAULT_TIMEOUTS, next_timeout) <= DEFAULT_TIMEOUTS
    BY <1>2 DEF min
  <2>3. now <= MaxTime
    BY <2>1 DEF Typed
  <2>4. deadline' \in Nat /\ now <= deadline' /\ deadline' <= MaxTime + DEFAULT_TIMEOUTS
    BY <1>2, <2>1, <2>2, <2>3
  <2>5. final' \/ loop' = "done" => ~ working'
    BY <1>1, <2>1 DEF Typed
  <2> QED BY <1>1, <2>1, <2>4, <2>5, Zenon DEF Typed, TypeOK, mapVars, poolVars
<1>4. CASE Clear
  <2>1. /\ timers' = {} /\ repeatable' = {} /\ final' = TRUE /\ loop' = "poll" /\ ~ working
        /\ deadline' = now + min(0, next_timeout)
        /\ UNCHANGED <<target, rep, time_seq, next_timeout, pipe, poolVars>>
    BY <1>4 DEF Clear, poll_timeout
  <2>2. min(0, next_timeout) = 0
    BY <1>2 DEF min
  <2>3. deadline' = now
    BY <1>2, <2>1, <2>2
  <2> QED BY <1>1, <1>2, <2>1, <2>3 DEF Typed, TypeOK, poolVars
<1>5. CASE Poll
  <2>1. /\ pipe' = (IF registered /\ pipe > 0 THEN pipe - 1 ELSE pipe) /\ loop' = "timeout" /\ loop = "poll"
        /\ UNCHANGED <<final, deadline, mapVars, next_timeout, poolVars, lapses>>
    BY <1>5 DEF Poll, bytes_left, Readable
  <2>2. pipe' \in {0, 1} /\ (pipe = 0 => pipe' = 0)
    BY <2>1 DEF Typed, TypeOK
  <2>3. final' \/ loop' = "done" => ~ working'
    BY <1>1, <2>1 DEF Typed
  <2> QED BY <1>1, <2>1, <2>2, <2>3 DEF Typed, TypeOK, mapVars, poolVars
<1>6. CASE Enqueue
  <2>1. /\ timers # {} /\ loop' = "erase" /\ loop = "timeout"
        /\ UNCHANGED <<final, deadline, mapVars, next_timeout, pipe, lapses>>
    BY <1>6 DEF Enqueue
  <2>2. begin(timers)[2] \in Seqs
    BY <1>2, <2>1, BeginFirst
  <2>3. queue' \in Seq(Seqs) /\ running' = running
    <3>1. queue' = Append(queue, begin(timers)[2]) \/ queue' = queue
      BY <1>6 DEF Enqueue, pool!Accept, poolVars
    <3>2. running' = running
      BY <1>6 DEF Enqueue, pool!Accept, poolVars
    <3>3. queue \in Seq(Seqs) /\ running \in SUBSET Seqs
      BY DEF Typed, TypeOK
    <3>4. PICK s \in Seqs : s = begin(timers)[2]
      BY <2>2
    <3>5. Append(queue, s) \in Seq(Seqs)
      BY <3>3
    <3> QED BY <3>1, <3>2, <3>3, <3>4, <3>5
  <2>4. final' \/ loop' = "done" => ~ working'
    BY <1>1, <2>1 DEF Typed
  <2> QED BY <1>1, <2>1, <2>3, <2>4, Zenon DEF Typed, TypeOK, mapVars
<1>7. CASE Erase
  <2>1. /\ timers' \subseteq timers /\ loop' = "timeout"
        /\ UNCHANGED <<final, deadline, target, rep, repeatable, time_seq, next_timeout, pipe, poolVars, lapses>>
    BY <1>7 DEF Erase, erase_begin
  <2>2. final' \/ loop' = "done" => ~ working'
    BY <1>1, <2>1 DEF Typed
  <2> QED BY <1>1, <2>1, <2>2 DEF Typed, TypeOK, poolVars
<1>8. CASE NoneDue
  <2>1. /\ next_timeout' = next_timeout_of(timers) /\ loop' = (IF final THEN "done" ELSE "test") /\ deadline' = 0
        /\ UNCHANGED <<final, mapVars, pipe, poolVars, lapses>>
    BY <1>8 DEF NoneDue, next_turn
  <2>2. next_timeout_of(timers) \in Nat
    BY <1>2, TimeoutTyped
  <2>3. final' \/ loop' = "done" => ~ working'
    BY <1>1, <2>1 DEF Typed
  <2>4. loop' \in {"test", "done"}
    BY <2>1
  <2> QED BY <1>1, <2>1, <2>2, <2>3, <2>4 DEF Typed, TypeOK, mapVars, poolVars
<1> QED BY <1>3, <1>4, <1>5, <1>6, <1>7, <1>8 DEF Loop

\* The clock, exit and the thread pool keep the types.
LEMMA RestTyped ==
  ASSUME Typed, PoolOK, Tick \/ Exit \/ Wakeup \/ Start \/ Destroy \/ \E s \in Seqs : Finish(s) PROVE Typed'
<1>1. CASE Tick
  <2>1. /\ now' = now + 1 /\ now < deadline /\ loop = "poll" /\ (now < MaxTime \/ ~ working)
        /\ UNCHANGED <<working, next_timeout, mapVars, pipe, registered, loopVars, waker, stage, poolVars>>
    BY <1>1 DEF Tick
  <2>2. now \in Nat /\ now >= 1 /\ deadline \in Nat /\ DEFAULT_TIMEOUTS \in Nat /\ MaxTime \in Nat
        /\ deadline <= MaxTime + DEFAULT_TIMEOUTS
    BY <2>1, DispatcherAssumption DEF Typed, TypeOK
  <2>3. now' \in 1 .. MaxTime + DEFAULT_TIMEOUTS /\ now' <= deadline /\ (working => now' <= MaxTime)
    BY <2>1, <2>2
  <2> QED BY <2>1, <2>3 DEF Typed, TypeOK, mapVars, loopVars, poolVars
<1>2. CASE Exit
  <2>1. /\ working' = FALSE /\ waker = "idle" /\ waker' = "wakeup"
        /\ UNCHANGED <<next_timeout, mapVars, pipe, registered, loopVars, now, stage, poolVars>>
    BY <1>2 DEF Exit
  <2> QED BY <2>1, Zenon DEF Typed, TypeOK, mapVars, loopVars, poolVars
<1>3. CASE Wakeup
  <2>1. /\ pipe' = pipe + 1 /\ waker = "wakeup" /\ waker' = "done"
        /\ UNCHANGED <<working, next_timeout, mapVars, registered, loopVars, now, stage, poolVars>>
    BY <1>3 DEF Wakeup
  <2>2. pipe' = 1
    BY <2>1 DEF Typed
  <2> QED BY <2>1, <2>2 DEF Typed, TypeOK, mapVars, loopVars, poolVars
<1>4. CASE Start
  <2>1. /\ queue # <<>> /\ queue' = Tail(queue) /\ running' = running \cup {Head(queue)} /\ UNCHANGED poolOnly
    BY <1>4 DEF Start, pool!Start
  <2>2. queue \in Seq(Seqs) /\ running \subseteq Seqs
    BY DEF Typed, TypeOK
  <2>3. queue' \in Seq(Seqs) /\ running' \subseteq Seqs
    BY <2>1, <2>2, Shortened DEF PoolOK
  <2> QED BY <2>1, <2>3, Zenon DEF Typed, TypeOK, poolOnly, ioVars, mapVars, loopVars
<1>5. CASE Destroy
  <2>1. UNCHANGED <<queue, running>> /\ UNCHANGED poolOnly
    BY <1>5 DEF Destroy, pool!Close, pool!Gone
  <2> QED BY <2>1, Zenon DEF Typed, TypeOK, poolOnly, ioVars, mapVars, loopVars
<1>6. CASE \E s \in Seqs : Finish(s)
  <2>1. queue' = queue /\ running' \subseteq running /\ UNCHANGED poolOnly
    BY <1>6 DEF Finish, pool!Finish
  <2> QED BY <2>1 DEF Typed, TypeOK, poolOnly, ioVars, mapVars, loopVars
<1> QED BY <1>1, <1>2, <1>3, <1>4, <1>5, <1>6

\* Setting and cancelling timers keeps the types.
LEMMA CallsTyped ==
  ASSUME Typed,
         \/ \E tp \in Nat : RunAt(tp) \/ RunEvery(tp)
         \/ \E s \in Seqs : Cancel(s) \/ Repeat(s)
  PROVE  Typed'
<1>1. time_seq \in Nat /\ MaxSeq \in Nat
  BY DispatcherAssumption DEF Typed, TypeOK
<1>2. ASSUME NEW tp \in Nat, RunAt(tp) PROVE Typed'
  <2>1. /\ time_seq + 1 <= MaxSeq /\ time_seq' = time_seq + 1 /\ NewTimer(<<tp, time_seq + 1>>)
        /\ UNCHANGED <<ioVars, target, rep, repeatable, loopVars, stage, poolVars>>
    BY <1>2 DEF RunAt
  <2>2. PICK n \in Seqs : n = time_seq + 1
    BY <1>1, <2>1 DEF Seqs
  <2>3. timers' \subseteq Nat \X Seqs /\ next_timeout' \in Nat
    BY <2>1, <2>2, NewTimerTyped
  <2>4. time_seq' \in 0 .. MaxSeq
    BY <1>1, <2>1
  <2> QED BY <2>1, <2>3, <2>4, Zenon DEF Typed, TypeOK, ioVars, loopVars, poolVars
<1>3. ASSUME NEW tp \in Nat, RunEvery(tp) PROVE Typed'
  <2>1. /\ time_seq + 2 <= MaxSeq /\ time_seq' = time_seq + 2 /\ NewTimer(<<tp, time_seq + 2>>)
        /\ repeatable' = repeatable \cup {time_seq + 1}
        /\ rep' = [rep EXCEPT ![time_seq + 1] = [at |-> tp, timer_id |-> <<tp, time_seq + 2>>]]
        /\ target' = [target EXCEPT ![time_seq + 2] = time_seq + 1]
        /\ UNCHANGED <<ioVars, loopVars, stage, poolVars>>
    BY <1>3 DEF RunEvery
  <2>2. PICK n \in Seqs : n = time_seq + 2
    BY <1>1, <2>1 DEF Seqs
  <2>3. timers' \subseteq Nat \X Seqs /\ next_timeout' \in Nat
    BY <2>1, <2>2, NewTimerTyped
  <2>4. time_seq' \in 0 .. MaxSeq /\ time_seq + 1 \in Seqs /\ time_seq + 1 \in 0 .. MaxSeq /\ n \in Nat
    BY <1>1, <2>1, <2>2 DEF Seqs
  <2>5. repeatable' \subseteq Seqs
    BY <2>1, <2>4 DEF Typed, TypeOK
  <2>6. target' \in [Seqs -> 0 .. MaxSeq]
    BY <2>1, <2>4, Zenon DEF Typed, TypeOK
  <2>7. rep' \in [Seqs -> [at : Nat, timer_id : Nat \X Nat]]
    BY <2>1, <2>2, <2>4, Zenon DEF Typed, TypeOK
  <2> QED BY <2>1, <2>3, <2>4, <2>5, <2>6, <2>7, Zenon DEF Typed, TypeOK, ioVars, loopVars, poolVars
<1>4. ASSUME NEW s \in Seqs, Cancel(s) PROVE Typed'
  <2>1. /\ timers' = timers_without(s) /\ repeatable' \subseteq repeatable
        /\ UNCHANGED <<ioVars, next_timeout, target, rep, time_seq, loopVars, stage, poolVars>>
    BY <1>4 DEF Cancel
  <2>2. timers' \subseteq timers
    BY <2>1 DEF timers_without
  <2> QED BY <2>1, <2>2, Zenon DEF Typed, TypeOK, ioVars, loopVars, poolVars
<1>5. ASSUME NEW s \in Seqs, Repeat(s) PROVE Typed'
  <2>1. /\ target[s] # 0 /\ time_seq + 1 <= MaxSeq /\ time_seq' = time_seq + 1
        /\ rep' = [rep EXCEPT ![target[s]] = [at |-> rep[target[s]].at + Interval,
                                              timer_id |-> <<rep[target[s]].at + Interval, time_seq + 1>>]]
        /\ target' = [target EXCEPT ![time_seq + 1] = target[s]]
        /\ NewTimer(<<rep[target[s]].at + Interval, time_seq + 1>>)
        /\ stage' = [stage EXCEPT ![s] = "callback"]
        /\ UNCHANGED <<ioVars, repeatable, loopVars, poolVars>>
    BY <1>5 DEF Repeat
  <2>2. PICK n \in Seqs : n = time_seq + 1
    BY <1>1, <2>1 DEF Seqs
  <2>3. target[s] \in Seqs /\ target[s] \in 0 .. MaxSeq
    BY <1>1, <2>1 DEF Typed, TypeOK, Seqs
  <2>4. PICK at \in Nat : at = rep[target[s]].at + Interval
    <3>1. rep[target[s]].at \in Nat
      BY ONLY <2>3, Typed DEF Typed, TypeOK
    <3> QED BY ONLY <3>1, DispatcherAssumption
  <2>5. timers' \subseteq Nat \X Seqs /\ next_timeout' \in Nat
    BY <2>1, <2>2, <2>4, NewTimerTyped
  <2>6. time_seq' \in 0 .. MaxSeq /\ n \in Nat
    BY <1>1, <2>1, <2>2
  <2>7. target' \in [Seqs -> 0 .. MaxSeq]
    BY <2>1, <2>3, Zenon DEF Typed, TypeOK
  <2>8. rep' \in [Seqs -> [at : Nat, timer_id : Nat \X Nat]]
    BY <2>1, <2>2, <2>4, <2>6, Zenon DEF Typed, TypeOK
  <2>9. stage' \in [Seqs -> {"start", "callback"}]
    BY <2>1 DEF Typed
  <2> QED BY <2>1, <2>5, <2>6, <2>7, <2>8, <2>9, Zenon DEF Typed, TypeOK, ioVars, loopVars, poolVars
<1> QED BY <1>2, <1>3, <1>4, <1>5

-----------------------------------------------------------------------------
(* The thread pool and the lateness of timers.                              *)

\* Every step keeps what is known of the thread pool.
LEMMA PoolKept ==
  ASSUME Typed, PoolOK, [Next]_vars PROVE PoolOK'
<1> DEFINE Same == UNCHANGED <<queue, running, future>>
<1>1. queue \in Seq(Seqs) /\ running \subseteq Seqs /\ timers \subseteq Nat \X Seqs
  BY DEF Typed, TypeOK
<1>2. Same => PoolOK'
  BY DEF PoolOK
<1>3. ASSUME Enqueue PROVE PoolOK'
  <2>1. PICK s \in Seqs : s = begin(timers)[2]
    <3>1. timers # {}
      BY <1>3 DEF Enqueue
    <3> QED BY <1>1, <3>1, BeginFirst
  <2>2. CASE future[s] # "none"
    <3>1. Same
      BY <1>3, <2>1, <2>2 DEF Enqueue, poolVars
    <3> QED BY <1>2, <3>1
  <2>3. CASE future[s] = "none"
    <3>1. queue' = Append(queue, s) /\ future' = [future EXCEPT ![s] = "pending"] /\ running' = running
      BY <1>3, <2>1, <2>3 DEF Enqueue, pool!Accept
    <3>2. \A k \in DOMAIN queue : queue[k] # s
      BY <2>3 DEF PoolOK
    <3>3. /\ \A k \in DOMAIN queue' : queue'[k] = s \/ \E j \in DOMAIN queue : queue'[k] = queue[j]
          /\ \A j, k \in DOMAIN queue' : queue'[j] = queue'[k] => j = k
      <4>1. PICK n : n = Append(queue, s)
        BY Zenon
      <4>2. \A j, k \in DOMAIN queue : queue[j] = queue[k] => j = k
        BY DEF PoolOK
      <4>3. /\ \A k \in DOMAIN n : n[k] = s \/ \E j \in DOMAIN queue : n[k] = queue[j]
            /\ \A j, k \in DOMAIN n : n[j] = n[k] => j = k
        BY <1>1, <3>2, <4>1, <4>2, Appended
      <4> QED BY <3>1, <4>1, <4>3
    <3>4. s \notin running
      BY <2>3 DEF PoolOK
    <3>5. future' \in [Seqs -> {"none", "thrown", "pending", "ready"}] /\ future'[s] = "pending"
          /\ \A t \in Seqs : t # s => future'[t] = future[t]
      BY <3>1 DEF PoolOK
    <3>6. \A j \in DOMAIN queue : queue[j] \in Seqs
      BY <1>1
    <3>7. \A k \in DOMAIN queue' : future'[queue'[k]] = "pending" /\ queue'[k] \notin running'
      BY <3>1, <3>3, <3>4, <3>5, <3>6 DEF PoolOK
    <3>8. \A t \in running' : future'[t] = "pending"
      BY <1>1, <3>1, <3>4, <3>5 DEF PoolOK
    <3> QED BY <3>3, <3>5, <3>7, <3>8 DEF PoolOK
  <2> QED BY <2>2, <2>3
<1>4. ASSUME Start PROVE PoolOK'
  <2>1. queue # <<>> /\ queue' = Tail(queue) /\ running' = running \cup {Head(queue)} /\ future' = future
    BY <1>4 DEF Start, pool!Start
  <2>2. /\ Head(queue) \in Seqs /\ \E k \in DOMAIN queue : Head(queue) = queue[k]
        /\ \A k \in DOMAIN queue' : queue'[k] # Head(queue) /\ \E j \in DOMAIN queue : queue'[k] = queue[j]
        /\ \A j, k \in DOMAIN queue' : queue'[j] = queue'[k] => j = k
    BY <1>1, <2>1, Shortened DEF PoolOK
  <2>3. future[Head(queue)] = "pending"
    BY <2>2 DEF PoolOK
  <2>4. \A k \in DOMAIN queue' : future'[queue'[k]] = "pending" /\ queue'[k] \notin running'
    BY <2>1, <2>2 DEF PoolOK
  <2> QED BY <2>1, <2>2, <2>3, <2>4 DEF PoolOK
<1>5. ASSUME NEW s \in Seqs, Finish(s) PROVE PoolOK'
  <2>1. s \in running /\ running' = running \ {s} /\ future' = [future EXCEPT ![s] = "ready"] /\ queue' = queue
    BY <1>5 DEF Finish, pool!Finish
  <2>2. \A k \in DOMAIN queue : queue[k] \in Seqs /\ queue[k] # s
    BY <1>1, <2>1 DEF PoolOK
  <2>3. future' \in [Seqs -> {"none", "thrown", "pending", "ready"}] /\ \A t \in Seqs : t # s => future'[t] = future[t]
    BY <2>1 DEF PoolOK
  <2> QED BY <1>1, <2>1, <2>2, <2>3 DEF PoolOK
<1>6. ASSUME Test \/ Clear \/ Poll \/ Erase \/ NoneDue PROVE Same
  BY <1>6 DEF Test, Clear, Poll, Erase, NoneDue, poolVars
<1>7. ASSUME Tick \/ Exit \/ Wakeup \/ Destroy PROVE Same
  BY <1>7 DEF Tick, Exit, Wakeup, Destroy, pool!Close, pool!Gone, poolVars
<1>8. ASSUME NEW d \in Delays, RunAt(now + d) \/ RunEvery(now + d) PROVE Same
  BY <1>8 DEF RunAt, RunEvery, poolVars
<1>9. ASSUME NEW s \in Seqs, Cancel(s) \/ Repeat(s) PROVE Same
  BY <1>9 DEF Cancel, Repeat, poolVars
<1>10. ASSUME UNCHANGED vars PROVE Same
  BY <1>10 DEF vars, poolVars
<1> HIDE DEF Same
<1> QED BY <1>2, <1>3, <1>4, <1>5, <1>6, <1>7, <1>8, <1>9, <1>10 DEF Next, Loop

\* A new timer, set in the past only with the lapse "late", is not late.
LEMMA NewTimerPunctual ==
  ASSUME Typed, Punctual, NEW at \in Nat, NEW n \in Seqs, NewTimer(<<at, n>>),
         UNCHANGED <<ioVars, loopVars>>
  PROVE  Punctual'
<1>1. timers' = timers \cup {<<at, n>>} /\ lapses \subseteq lapses' /\ (at < now => "late" \in lapses')
  BY DEF NewTimer
<1>2. UNCHANGED <<working, now, loop, deadline>>
  BY DEF ioVars, loopVars
<1>3. now \in Nat /\ deadline \in Nat /\ DEFAULT_TIMEOUTS \in Nat /\ timers \subseteq Nat \X Seqs
  BY DispatcherAssumption DEF Typed, TypeOK
<1>4. ASSUME working', "late" \notin lapses'
      PROVE  /\ loop' = "test" => \A x \in timers' : now' <= x[1]
             /\ loop' = "poll" => /\ deadline' <= now' + DEFAULT_TIMEOUTS
                                  /\ \A x \in timers' : deadline' - x[1] <= DEFAULT_TIMEOUTS
             /\ \A x \in timers' : now' - x[1] <= DEFAULT_TIMEOUTS
  <2>1. at >= now /\ working /\ "late" \notin lapses
    BY <1>1, <1>2, <1>3, <1>4
  <2>2. now - at <= DEFAULT_TIMEOUTS /\ now <= at
    BY <1>3, <2>1
  <2>3. ASSUME loop = "poll" PROVE deadline - at <= DEFAULT_TIMEOUTS /\ deadline <= now + DEFAULT_TIMEOUTS
    <3>1. deadline <= now + DEFAULT_TIMEOUTS
      BY <2>1, <2>3 DEF Punctual
    <3> QED BY <1>3, <2>1, <3>1
  <2>4. \A x \in timers' : x \in timers \/ x[1] = at
    BY <1>1
  <2>5. loop = "test" => \A x \in timers' : now <= x[1]
    BY <2>1, <2>2, <2>4 DEF Punctual
  <2>6. loop = "poll" => \A x \in timers' : deadline - x[1] <= DEFAULT_TIMEOUTS
    BY <2>1, <2>3, <2>4 DEF Punctual
  <2>7. \A x \in timers' : now - x[1] <= DEFAULT_TIMEOUTS
    BY <2>1, <2>2, <2>4 DEF Punctual
  <2> QED BY <1>2, <2>3, <2>5, <2>6, <2>7
<1> QED BY <1>4 DEF Punctual

\* Every step keeps the bound on lateness.
LEMMA PunctualKept ==
  ASSUME Typed, Punctual, [Next]_vars PROVE Punctual'
<1>1. now \in Nat /\ deadline \in Nat /\ DEFAULT_TIMEOUTS \in Nat /\ timers \subseteq Nat \X Seqs /\ next_timeout \in Nat
      /\ time_seq \in Nat /\ MaxSeq \in Nat
  BY DispatcherAssumption DEF Typed, TypeOK
<1>2. \A x \in timers : x[1] \in Nat
  BY <1>1
<1>3. ASSUME UNCHANGED <<working, now, timers, lapses>>,
             loop' = "timeout" \/ loop' = "erase" \/ UNCHANGED <<loop, deadline>>
      PROVE  Punctual'
  BY <1>3 DEF Punctual
<1>4. ASSUME Loop PROVE Punctual'
  <2>1. UNCHANGED <<working, now>>
    BY <1>4 DEF Loop
  <2>2. CASE Test
    <3>1. loop = "test" /\ loop' = "poll" /\ deadline' = now + min(DEFAULT_TIMEOUTS, next_timeout) /\ UNCHANGED <<timers, lapses>>
      BY <2>2 DEF Test, poll_timeout, mapVars
    <3>2. min(DEFAULT_TIMEOUTS, next_timeout) \in Nat /\ min(DEFAULT_TIMEOUTS, next_timeout) <= DEFAULT_TIMEOUTS
      BY <1>1 DEF min
    <3>3. deadline' \in Nat /\ deadline' <= now + DEFAULT_TIMEOUTS
      BY <1>1, <3>1, <3>2
    <3>4. ASSUME NEW x \in timers, now <= x[1] PROVE deadline' - x[1] <= DEFAULT_TIMEOUTS
      BY <1>1, <1>2, <3>3, <3>4
    <3> QED BY <2>1, <3>1, <3>3, <3>4 DEF Punctual
  <2>3. CASE Clear
    <3>1. ~ working
      BY <2>3 DEF Clear
    <3> QED BY <2>1, <3>1 DEF Punctual
  <2>4. CASE Poll \/ Enqueue
    <3>1. loop' \in {"timeout", "erase"} /\ UNCHANGED <<timers, lapses>>
      BY <2>4 DEF Poll, Enqueue, mapVars
    <3> QED BY <1>3, <2>1, <3>1
  <2>5. CASE Erase
    <3>1. loop' = "timeout" /\ timers' \subseteq timers /\ lapses' = lapses
      BY <2>5 DEF Erase, erase_begin
    <3> QED BY <2>1, <3>1 DEF Punctual
  <2>6. CASE NoneDue
    <3>1. loop' \in {"test", "done"} /\ (timers # {} => ~ (begin(timers)[1] <= now)) /\ UNCHANGED <<timers, lapses>>
      BY <2>6 DEF NoneDue, next_turn, due, mapVars
    <3>2. ASSUME NEW x \in timers PROVE now <= x[1]
      <4>1. begin(timers)[1] <= x[1] /\ begin(timers) \in timers
        BY <1>1, BeginFirst
      <4> QED BY <1>1, <1>2, <3>1, <4>1
    <3> QED BY <2>1, <3>1, <3>2 DEF Punctual
  <2> QED BY <1>4, <2>2, <2>3, <2>4, <2>5, <2>6 DEF Loop
<1>5. ASSUME Tick PROVE Punctual'
  <2>1. now' = now + 1 /\ now < deadline /\ loop = "poll" /\ UNCHANGED <<working, timers, loop, deadline, lapses>>
    BY <1>5 DEF Tick, mapVars, loopVars
  <2>2. ASSUME NEW x \in timers, deadline - x[1] <= DEFAULT_TIMEOUTS PROVE now' - x[1] <= DEFAULT_TIMEOUTS
    BY <1>1, <1>2, <2>1, <2>2
  <2>3. deadline <= now + DEFAULT_TIMEOUTS => deadline <= now' + DEFAULT_TIMEOUTS
    BY <1>1, <2>1
  <2> QED BY <2>1, <2>2, <2>3 DEF Punctual
<1>6. ASSUME Exit PROVE Punctual'
  <2>1. ~ working'
    BY <1>6 DEF Exit
  <2> QED BY <2>1 DEF Punctual
<1>7. ASSUME Wakeup \/ Start \/ Destroy \/ (\E s \in Seqs : Finish(s)) \/ UNCHANGED vars PROVE Punctual'
  <2>1. UNCHANGED <<working, now, timers, lapses, loop, deadline>>
    BY <1>7 DEF Wakeup, Start, Destroy, Finish, vars, poolOnly, ioVars, mapVars, loopVars
  <2> QED BY <1>3, <2>1
<1>8. ASSUME NEW d \in Delays, RunAt(now + d) \/ RunEvery(now + d) PROVE Punctual'
  <2>1. PICK at \in Nat : at = now + d
    BY <1>1, DispatcherAssumption
  <2>2. UNCHANGED <<ioVars, loopVars>>
    BY <1>8 DEF RunAt, RunEvery
  <2>3. CASE RunAt(now + d)
    <3>1. time_seq + 1 <= MaxSeq /\ NewTimer(<<at, time_seq + 1>>)
      BY <2>1, <2>3 DEF RunAt
    <3>2. PICK n \in Seqs : n = time_seq + 1
      BY <1>1, <3>1 DEF Seqs
    <3> QED BY <2>2, <3>1, <3>2, NewTimerPunctual
  <2>4. CASE RunEvery(now + d)
    <3>1. time_seq + 2 <= MaxSeq /\ NewTimer(<<at, time_seq + 2>>)
      BY <2>1, <2>4 DEF RunEvery
    <3>2. PICK n \in Seqs : n = time_seq + 2
      BY <1>1, <3>1 DEF Seqs
    <3> QED BY <2>2, <3>1, <3>2, NewTimerPunctual
  <2> QED BY <1>8, <2>3, <2>4
<1>9. ASSUME NEW s \in Seqs, Cancel(s) PROVE Punctual'
  <2>1. timers' \subseteq timers /\ lapses \subseteq lapses' /\ UNCHANGED <<working, now, loop, deadline>>
    BY <1>9 DEF Cancel, timers_without, ioVars, loopVars
  <2> QED BY <2>1 DEF Punctual
<1>10. ASSUME NEW s \in Seqs, Repeat(s) PROVE Punctual'
  <2>1. /\ target[s] # 0 /\ time_seq + 1 <= MaxSeq /\ NewTimer(<<rep[target[s]].at + Interval, time_seq + 1>>)
        /\ UNCHANGED <<ioVars, loopVars>>
    BY <1>10 DEF Repeat
  <2>2. PICK n \in Seqs : n = time_seq + 1
    BY <1>1, <2>1 DEF Seqs
  <2>3. target[s] \in Seqs
    <3>1. target[s] \in 0 .. MaxSeq
      BY DEF Typed, TypeOK
    <3> QED BY <1>1, <2>1, <3>1 DEF Seqs
  <2>4. PICK at \in Nat : at = rep[target[s]].at + Interval
    <3>1. rep[target[s]].at \in Nat
      BY ONLY <2>3, Typed DEF Typed, TypeOK
    <3> QED BY ONLY <3>1, DispatcherAssumption
  <2> QED BY <2>1, <2>2, <2>4, NewTimerPunctual
<1> QED BY <1>4, <1>5, <1>6, <1>7, <1>8, <1>9, <1>10 DEF Next

-----------------------------------------------------------------------------
(* Numbers, tasks and their timers.                                         *)

\* r is the number of a repeatable task.
Task(r) == r \in repeatable \/ \E s \in Seqs : target[s] = r

\* Steps that set no timer: timers and tasks may go, and a timer may be accepted
\* by the pool, if it was active, or be done.  Nothing becomes active.
LEMMA NoneSet ==
  ASSUME Typed, Fresh, Linked, timers' \subseteq timers, repeatable' \subseteq repeatable,
         UNCHANGED <<target, rep, time_seq, stage>>, cancelled' \subseteq 1 .. time_seq,
         \A t \in Seqs : \/ future'[t] = future[t]
                         \/ /\ t <= time_seq /\ ~ Task(t) /\ future'[t] # "none"
                            /\ future'[t] = "pending" => Active(t)
  PROVE  Fresh' /\ Linked' /\ \A t \in Seqs : Active(t)' => Active(t)
<1>1. \A t \in Seqs : Active(t)' => Active(t)
  BY DEF Active
<1>2. Fresh'
  <2>1. \A s \in Seqs : s > time_seq => ~ (s <= time_seq)
    BY DispatcherAssumption DEF Typed, TypeOK, Seqs
  <2>2. \A s \in Seqs : s > time_seq => target'[s] = 0 /\ future'[s] = "none" /\ stage'[s] = "start"
    BY <2>1 DEF Fresh
  <2> QED BY <2>2, Zenon DEF Fresh
<1>3. Linked'
  <2>1. \A x, y \in timers' : x[2] = y[2] => x = y
    BY DEF Linked
  <2>2. ASSUME NEW r \in Seqs, r \in repeatable' \/ (\E s \in Seqs : target'[s] = r)
        PROVE  future'[r] = "none" /\ target'[r] = 0 /\ \A x \in timers' : x[2] # r
    <3>1. Task(r)
      BY <2>2 DEF Task
    <3> QED BY <3>1 DEF Linked, Task
  <2>3. ASSUME NEW s \in Seqs, Active(s)', target'[s] # 0
        PROVE  /\ rep'[target'[s]].timer_id[2] = s
               /\ \A x \in timers' : x[2] = s => x = rep'[target'[s]].timer_id
    BY <1>1, <2>3 DEF Linked
  <2> QED BY <2>1, <2>2, <2>3 DEF Linked
<1> QED BY <1>1, <1>2, <1>3

\* Such a step, of other threads than those that cancel, keeps what is settled if
\* it erases a timer that was enqueued.
LEMMA NoneSettled ==
  ASSUME Fresh, Linked, Settled, timers' \subseteq timers, lapses \subseteq lapses',
         UNCHANGED <<target, cancelled>>,
         \A t \in Seqs : Active(t)' => Active(t),
         \A c \in cancelled : future'[c] = future[c],
         lapses \subseteq {"late"} =>
           \A x \in timers' : future'[x[2]] # "none" => loop' = "erase" /\ x = begin(timers')
  PROVE  Settled'
BY DEF Settled

\* Steps that touch none of this.
LEMMA MapsSame ==
  ASSUME Fresh, Linked, Settled,
         UNCHANGED <<timers, target, rep, repeatable, time_seq, future, stage, cancelled, lapses>>,
         loop' = loop \/ loop # "erase"
  PROVE  Fresh' /\ Linked' /\ Settled'
<1>1. \A t : Active(t)' <=> Active(t)
  BY DEF Active
<1>2. Fresh'
  BY DEF Fresh
<1>3. Linked'
  BY <1>1 DEF Linked
<1>4. Settled'
  BY <1>1 DEF Settled
<1> QED BY <1>2, <1>3, <1>4

\* The end of a task in the pool.
LEMMA FinishMaps ==
  ASSUME Typed, PoolOK, Fresh, Linked, Settled, NEW s \in Seqs, Finish(s)
  PROVE  Fresh' /\ Linked' /\ Settled'
<1>1. /\ future[s] = "pending" /\ future' = [future EXCEPT ![s] = "ready"]
      /\ UNCHANGED <<timers, target, rep, repeatable, time_seq, stage, cancelled, lapses, loop>>
  BY DEF Finish, pool!Finish, PoolOK, poolOnly, mapVars, loopVars
<1>2. \A t \in Seqs : future'[t] = (IF t = s THEN "ready" ELSE future[t])
  BY <1>1 DEF PoolOK
<1>3. s <= time_seq
  BY <1>1, DispatcherAssumption DEF Fresh, Typed, TypeOK, Seqs
<1>4. ~ Task(s)
  BY <1>1 DEF Linked, Task
<1>5. cancelled' \subseteq 1 .. time_seq
  BY <1>1 DEF Fresh
<1>6. Fresh' /\ Linked' /\ \A t \in Seqs : Active(t)' => Active(t)
  BY <1>1, <1>2, <1>3, <1>4, <1>5, NoneSet
<1>7. ASSUME lapses \subseteq {"late"}, NEW x \in timers', future'[x[2]] # "none"
      PROVE  loop' = "erase" /\ x = begin(timers')
  <2>1. x[2] \in Seqs
    BY <1>1 DEF Typed, TypeOK
  <2>2. future[x[2]] # "none"
    BY <1>1, <1>2, <1>7, <2>1
  <2> QED BY <1>1, <1>7, <2>2 DEF Settled
<1>8. ASSUME lapses \subseteq {"late"}, NEW c \in cancelled PROVE future'[c] = future[c]
  <2>1. c # s
    BY <1>1, <1>8 DEF Settled
  <2>2. c \in Seqs
    BY DispatcherAssumption DEF Fresh, Typed, TypeOK, Seqs
  <2> QED BY <1>2, <2>1, <2>2
<1>9. Settled'
  <2>1. CASE lapses \subseteq {"late"}
    BY <1>1, <1>6, <1>7, <1>8, <2>1, NoneSettled
  <2>2. CASE ~ (lapses \subseteq {"late"})
    BY <1>1, <2>2 DEF Settled
  <2> QED BY <2>1, <2>2
<1> QED BY <1>6, <1>9

\* The steps of the loop.
LEMMA LoopMaps ==
  ASSUME Typed, PoolOK, Fresh, Linked, Settled, Loop
  PROVE  Fresh' /\ Linked' /\ Settled'
<1>1. UNCHANGED <<stage, cancelled>>
  BY DEF Loop
<1>2. timers \subseteq Nat \X Seqs /\ cancelled \subseteq 1 .. time_seq
  BY DEF Typed, TypeOK, Fresh
<1>3. CASE Test \/ Poll \/ NoneDue
  <2>1. loop # "erase" /\ UNCHANGED <<timers, target, rep, repeatable, time_seq, future, lapses>>
    BY <1>3 DEF Test, Poll, NoneDue, mapVars, poolVars
  <2> QED BY <1>1, <2>1, MapsSame
<1>4. CASE Clear
  <2>1. /\ timers' = {} /\ repeatable' = {} /\ lapses \subseteq lapses' /\ UNCHANGED <<target, rep, time_seq, future>>
    BY <1>4 DEF Clear, poolVars
  <2>2. Fresh' /\ Linked' /\ \A t \in Seqs : Active(t)' => Active(t)
    BY <1>1, <1>2, <2>1, NoneSet
  <2> QED BY <1>1, <2>1, <2>2, NoneSettled
<1>5. CASE Erase
  <2>1. /\ timers' = (IF timers = {} THEN {} ELSE timers \ {begin(timers)})
        /\ UNCHANGED <<target, rep, repeatable, time_seq, future, lapses>>
    BY <1>5 DEF Erase, erase_begin, poolVars
  <2>2. Fresh' /\ Linked' /\ \A t \in Seqs : Active(t)' => Active(t)
    BY <1>1, <1>2, <2>1, NoneSet
  <2>3. timers' \subseteq timers /\ begin(timers) \notin timers'
    BY <2>1
  <2>4. lapses \subseteq {"late"} => \A x \in timers' : future'[x[2]] = "none"
    BY <2>1, <2>3 DEF Settled
  <2> QED BY <1>1, <2>1, <2>2, <2>3, <2>4, NoneSettled
<1>6. CASE Enqueue
  <2>1. /\ loop = "timeout" /\ loop' = "erase" /\ timers # {}
        /\ UNCHANGED <<timers, target, rep, repeatable, time_seq, lapses>>
    BY <1>6 DEF Enqueue, mapVars
  <2>2. begin(timers) \in timers
    BY <1>2, <2>1, BeginFirst
  <2>3. PICK s \in Seqs : s = begin(timers)[2]
    BY <1>2, <2>2
  <2>4. \/ future[s] # "none" /\ future' = future
        \/ future[s] = "none" /\ future' = [future EXCEPT ![s] = "pending"]
    BY <1>6, <2>3 DEF Enqueue, pool!Accept, poolVars
  <2>5. \A t \in Seqs : t # s => future'[t] = future[t]
    BY <2>4 DEF PoolOK
  <2>6. future'[s] = future[s] \/ (future[s] = "none" /\ future'[s] = "pending")
    BY <2>4 DEF PoolOK
  <2>7. s <= time_seq /\ ~ Task(s)
    BY <2>2, <2>3 DEF Fresh, Linked, Task
  <2>8. future[s] = "none" => Active(s)
    BY <2>2, <2>3 DEF Active
  <2>9. Fresh' /\ Linked' /\ \A t \in Seqs : Active(t)' => Active(t)
    <3>1. \A t \in Seqs : \/ future'[t] = future[t]
                           \/ /\ t <= time_seq /\ ~ Task(t) /\ future'[t] # "none"
                              /\ future'[t] = "pending" => Active(t)
      BY <2>5, <2>6, <2>7, <2>8
    <3> QED BY <1>1, <1>2, <2>1, <3>1, NoneSet
  <2>10. ASSUME lapses \subseteq {"late"}, NEW x \in timers', future'[x[2]] # "none"
         PROVE  loop' = "erase" /\ x = begin(timers')
    <3>1. x[2] = s
      <4>1. future[x[2]] = "none"
        BY <2>1, <2>10 DEF Settled
      <4>2. x[2] \in Seqs
        BY <1>2, <2>1
      <4> QED BY <2>5, <2>10, <4>1, <4>2
    <3>2. x = begin(timers)
      BY <2>1, <2>2, <2>3, <3>1 DEF Linked
    <3> QED BY <2>1, <3>2
  <2>11. ASSUME lapses \subseteq {"late"}, NEW c \in cancelled PROVE future'[c] = future[c]
    <3>1. c # s
      BY <2>2, <2>3, <2>11 DEF Settled
    <3>2. c \in Seqs
      BY <1>2, DispatcherAssumption DEF Typed, TypeOK, Seqs
    <3> QED BY <2>5, <3>1, <3>2
  <2>12. Settled'
    <3>1. CASE lapses \subseteq {"late"}
      BY <1>1, <2>1, <2>9, <2>10, <2>11, <3>1, NoneSettled
    <3>2. CASE ~ (lapses \subseteq {"late"})
      BY <2>1, <3>2 DEF Settled
    <3> QED BY <3>1, <3>2
  <2> QED BY <2>9, <2>12
<1> QED BY <1>3, <1>4, <1>5, <1>6 DEF Loop

\* cancel: a timer or a task with its timer.
LEMMA CancelMaps ==
  ASSUME Typed, PoolOK, Fresh, Linked, Settled, NEW s \in Seqs, Cancel(s)
  PROVE  Fresh' /\ Linked' /\ Settled'
<1>1. /\ timers' = timers_without(s) /\ repeatable' = repeatable \ {s} /\ cancelled' = cancelled \cup {s}
      /\ UNCHANGED <<target, rep, time_seq, stage, future, loop>>
      /\ s \in repeatable \/ (target[s] = 0 /\ \E x \in timers : x[2] = s)
  BY DEF Cancel, loopVars, poolVars
<1>2. /\ lapses \subseteq lapses' /\ (BeginMoved(timers_without(s)) => "begin" \in lapses')
      /\ (s \in repeatable /\ InPool(s) # {} => "dangling" \in lapses')
  BY DEF Cancel
<1>3. timers' \subseteq timers
  BY <1>1 DEF timers_without
<1>4. timers \subseteq Nat \X Seqs /\ timers' \subseteq Nat \X Seqs /\ cancelled \subseteq 1 .. time_seq
      /\ repeatable \subseteq 1 .. time_seq
  BY <1>3 DEF Typed, TypeOK, Fresh
<1>5. cancelled' \subseteq 1 .. time_seq
  <2>1. s \in 1 .. time_seq
    <3>1. CASE s \in repeatable
      BY <1>4, <3>1
    <3>2. CASE \E x \in timers : x[2] = s
      BY <3>2, DispatcherAssumption DEF Fresh, Typed, TypeOK, Seqs
    <3> QED BY <1>1, <3>1, <3>2
  <2> QED BY <1>1, <1>4, <2>1
<1>6. Fresh' /\ Linked' /\ \A t \in Seqs : Active(t)' => Active(t)
  BY <1>1, <1>3, <1>5, NoneSet
<1>7. ASSUME lapses' \subseteq {"late"}
      PROVE  /\ \A x \in timers' : future'[x[2]] # "none" => loop' = "erase" /\ x = begin(timers')
             /\ \A c \in cancelled' : future'[c] = "none" /\ \A x \in timers' : x[2] # c
             /\ \A t \in Seqs : target'[t] \in cancelled' => ~ Active(t)'
  <2>1. lapses \subseteq {"late"} /\ ~ BeginMoved(timers') /\ (s \in repeatable => InPool(s) = {})
    BY <1>1, <1>2, <1>7
  <2>2. ASSUME NEW x \in timers, future[x[2]] # "none"
        PROVE  loop = "erase" /\ x = begin(timers) /\ x = begin(timers') /\ x \in timers'
    <3>1. loop = "erase" /\ x = begin(timers)
      BY <2>1, <2>2 DEF Settled
    <3>2. timers' # {} /\ begin(timers') = begin(timers)
      BY <2>1, <3>1 DEF BeginMoved
    <3>3. begin(timers') \in timers'
      BY <1>4, <3>2, BeginFirst
    <3> QED BY <3>1, <3>2, <3>3
  <2>3. future[s] = "none" /\ \A x \in timers' : x[2] # s
    <3>1. CASE s \in repeatable
      BY <1>3, <3>1 DEF Linked
    <3>2. CASE s \notin repeatable
      <4>1. \A x \in timers' : x[2] # s
        BY <1>1, <3>2 DEF timers_without
      <4>2. PICK x \in timers : x[2] = s
        BY <1>1, <3>2
      <4> QED BY <2>2, <4>1, <4>2
    <3> QED BY <3>1, <3>2
  <2>4. ASSUME NEW t \in Seqs, target[t] = s, Active(t)' PROVE FALSE
    <3>1. future[s] = "none" /\ \A x \in timers : x[2] # s
      BY <2>4 DEF Linked
    <3>2. s \in repeatable
      BY <1>1, <3>1
    <3>3. CASE future[t] = "pending" /\ stage[t] = "start"
      BY <2>1, <2>4, <3>2, <3>3 DEF InPool
    <3>4. CASE \E x \in timers' : x[2] = t
      <4>1. PICK x \in timers' : x[2] = t
        BY <3>4
      <4>2. s # 0
        BY DispatcherAssumption DEF Seqs
      <4>3. x = rep[s].timer_id
        BY <1>3, <1>6, <2>4, <4>1, <4>2 DEF Linked
      <4> QED BY <1>1, <3>2, <4>1, <4>3 DEF timers_without
    <3> QED BY <1>1, <2>4, <3>3, <3>4 DEF Active
  <2>5. \A x \in timers' : future'[x[2]] # "none" => loop' = "erase" /\ x = begin(timers')
    BY <1>1, <1>3, <2>2
  <2>6. \A c \in cancelled' : future'[c] = "none" /\ \A x \in timers' : x[2] # c
    BY <1>1, <1>3, <2>1, <2>3 DEF Settled
  <2>7. \A t \in Seqs : target'[t] \in cancelled' => ~ Active(t)'
    BY <1>1, <1>6, <2>1, <2>4 DEF Settled
  <2> QED BY <2>5, <2>6, <2>7
<1> QED BY <1>6, <1>7 DEF Settled

\* A step sets timer n, of a caller (r = 0) or of task r, which then has no other
\* active timer.
Sets(at, n, r) ==
  /\ NewTimer(<<at, n>>) /\ n > time_seq /\ r < n /\ time_seq' = n
  /\ target'[n] = r /\ \A t \in Seqs : t # n => target'[t] = target[t]
  /\ \A q \in Seqs : q # r => rep'[q] = rep[q]
  /\ r # 0 => /\ rep'[r].timer_id = <<at, n>>
              /\ future[r] = "none" /\ target[r] = 0 /\ \A x \in timers : x[2] # r
  /\ \A t \in Seqs : t > n => stage'[t] = "start"
  /\ \A t \in Seqs : t # n /\ Active(t)' => Active(t) /\ (r # 0 => target[t] # r)
  /\ \A q \in repeatable' : q \in repeatable \/ (q = r /\ r # 0)
  /\ lapses \subseteq {"late"} => r \notin cancelled
  /\ UNCHANGED <<future, cancelled, loop>>

\* Such a step keeps numbers, tasks and timers in agreement.
LEMMA OneSet ==
  ASSUME Typed, Fresh, Linked, Settled,
         NEW at \in Nat, NEW n \in Seqs, NEW r \in 0 .. MaxSeq, Sets(at, n, r)
  PROVE  Fresh' /\ Linked' /\ Settled'
<1>1. /\ timers' = timers \cup {<<at, n>>} /\ lapses \subseteq lapses'
      /\ BeginMoved(timers \cup {<<at, n>>}) => "begin" \in lapses'
  BY DEF Sets, NewTimer
<1>2. time_seq \in Nat /\ MaxSeq \in Nat /\ n \in Nat /\ n >= 1 /\ r \in Nat /\ \A t \in Seqs : t \in Nat /\ t >= 1
  BY DispatcherAssumption DEF Typed, TypeOK, Seqs
<1>3. n > time_seq /\ r < n /\ time_seq' = n
  BY DEF Sets
<1>4. target'[n] = r /\ \A t \in Seqs : t # n => target'[t] = target[t]
  BY DEF Sets
<1>5. UNCHANGED <<future, cancelled, loop>>
  BY DEF Sets
<1>6. \A t \in Seqs : t # n /\ Active(t)' => Active(t) /\ (r # 0 => target[t] # r)
  BY DEF Sets
<1>7. r # 0 => rep'[r].timer_id = <<at, n>> /\ future[r] = "none" /\ target[r] = 0 /\ \A x \in timers : x[2] # r
  BY DEF Sets
<1>8. \A q \in repeatable' : q \in repeatable \/ (q = r /\ r # 0)
  BY DEF Sets
<1>9. \A x \in timers' : x \in timers \/ x = <<at, n>>
  BY <1>1
<1>10. \A x \in timers : x[2] # n /\ x[2] \in Seqs /\ x[2] < n
  <2>1. \A x \in timers : x[2] \in Seqs /\ x[2] <= time_seq
    BY DEF Typed, TypeOK, Fresh
  <2>2. ASSUME NEW k \in Nat, k <= time_seq PROVE k # n /\ k < n
    BY <1>2, <1>3, <2>2
  <2> QED BY <1>2, <2>1, <2>2, Zenon
<1>11. target[n] = 0 /\ future[n] = "none" /\ stage[n] = "start"
  BY <1>3 DEF Fresh
<1>12. \A t \in Seqs : target[t] < n /\ target[t] \in Nat
  <2>1. \A t \in Seqs : target[t] <= time_seq /\ target[t] \in 0 .. MaxSeq
    BY DEF Fresh, Typed, TypeOK
  <2> QED BY <1>2, <1>3, <2>1
<1>13. \A q \in repeatable \cup cancelled : q \in Nat /\ q >= 1 /\ q < n
  <2>1. \A q \in repeatable \cup cancelled : q \in 1 .. time_seq
    BY DEF Fresh
  <2> QED BY <1>2, <1>3, <2>1
<1>14. Fresh'
  <2>1. \A x \in timers' : x[2] <= n
    <3>1. \A k \in Seqs : k < n => k <= n
      BY <1>2
    <3>2. <<at, n>>[2] = n /\ n <= n
      BY <1>2
    <3> QED BY <1>9, <1>10, <3>1, <3>2
  <2>2. ASSUME NEW t \in Seqs, t > n PROVE target'[t] = 0 /\ future'[t] = "none" /\ stage'[t] = "start"
    <3>1. t > time_seq /\ t # n
      BY <1>2, <1>3, <2>2
    <3>2. stage'[t] = "start"
      BY <2>2 DEF Sets
    <3> QED BY <1>4, <1>5, <3>1, <3>2 DEF Fresh
  <2>3. \A t \in Seqs : target'[t] <= n
    BY <1>2, <1>12, <1>3, <1>4
  <2>4. repeatable' \cup cancelled' \subseteq 1 .. n
    BY <1>2, <1>13, <1>3, <1>5, <1>8
  <2> QED BY <1>3, <2>1, <2>2, <2>3, <2>4 DEF Fresh
<1>15. Linked'
  <2>1. \A x, y \in timers' : x[2] = y[2] => x = y
    <3>1. <<at, n>>[2] = n
      OBVIOUS
    <3> QED BY <1>9, <1>10, <3>1 DEF Linked
  <2>2. ASSUME NEW q \in Seqs, q \in repeatable' \/ (\E s \in Seqs : target'[s] = q)
        PROVE  future'[q] = "none" /\ target'[q] = 0 /\ \A x \in timers' : x[2] # q
    <3>1. q # 0
      BY <1>2
    <3>2. (q = r /\ r # 0) \/ q \in repeatable \/ \E s \in Seqs : target[s] = q
      BY <1>4, <1>8, <2>2, <3>1
    <3>3. q < n
      BY <1>2, <1>12, <1>13, <1>3, <3>2
    <3>4. future[q] = "none" /\ target[q] = 0 /\ \A x \in timers : x[2] # q
      BY <1>7, <3>2 DEF Linked
    <3>5. q # n
      BY <1>2, <3>3
    <3>6. \A x \in timers' : x[2] # q
      BY <1>9, <3>4, <3>5
    <3> QED BY <1>4, <1>5, <3>4, <3>5, <3>6
  <2>3. ASSUME NEW t \in Seqs, Active(t)', target'[t] # 0
        PROVE  /\ rep'[target'[t]].timer_id[2] = t
               /\ \A x \in timers' : x[2] = t => x = rep'[target'[t]].timer_id
    <3>1. CASE t = n
      <4>1. r # 0 /\ target'[t] = r /\ rep'[r].timer_id = <<at, n>>
        BY <1>4, <1>7, <2>3, <3>1
      <4>2. \A x \in timers' : x[2] = n => x = <<at, n>>
        BY <1>9, <1>10
      <4> QED BY <3>1, <4>1, <4>2
    <3>2. CASE t # n
      <4>1. Active(t) /\ target'[t] = target[t] /\ target[t] # 0 /\ target[t] # r
        BY <1>4, <1>6, <2>3, <3>2
      <4>2. target[t] \in Seqs
        <5>1. target[t] \in 0 .. MaxSeq
          BY DEF Typed, TypeOK
        <5> QED BY <1>2, <4>1, <5>1 DEF Seqs
      <4>3. rep'[target'[t]] = rep[target[t]]
        BY <4>1, <4>2 DEF Sets
      <4>4. \A x \in timers' : x[2] = t => x \in timers
        BY <1>9, <3>2
      <4>5. /\ rep[target[t]].timer_id[2] = t
            /\ \A x \in timers : x[2] = t => x = rep[target[t]].timer_id
        BY <4>1 DEF Linked
      <4> QED BY <4>3, <4>4, <4>5
    <3> QED BY <3>1, <3>2
  <2> QED BY <2>1, <2>2, <2>3 DEF Linked
<1>16. ASSUME lapses' \subseteq {"late"}
       PROVE  /\ \A x \in timers' : future'[x[2]] # "none" => loop' = "erase" /\ x = begin(timers')
              /\ \A c \in cancelled' : future'[c] = "none" /\ \A x \in timers' : x[2] # c
              /\ \A t \in Seqs : target'[t] \in cancelled' => ~ Active(t)'
  <2>1. lapses \subseteq {"late"} /\ ~ BeginMoved(timers')
    BY <1>1, <1>16
  <2>2. ASSUME NEW x \in timers', future'[x[2]] # "none" PROVE loop' = "erase" /\ x = begin(timers')
    <3>1. x \in timers
      BY <1>9, <1>11, <1>5, <2>2
    <3>2. loop = "erase" /\ x = begin(timers)
      BY <1>5, <2>1, <2>2, <3>1 DEF Settled
    <3> QED BY <1>5, <2>1, <3>1, <3>2 DEF BeginMoved
  <2>3. ASSUME NEW c \in cancelled' PROVE future'[c] = "none" /\ \A x \in timers' : x[2] # c
    <3>1. c # n
      BY <1>2, <1>13, <1>5
    <3> QED BY <1>9, <1>5, <2>1, <3>1 DEF Settled
  <2>4. ASSUME NEW t \in Seqs, target'[t] \in cancelled', Active(t)' PROVE FALSE
    <3>1. t # n
      <4>1. r \notin cancelled
        BY <2>1 DEF Sets
      <4> QED BY <1>4, <1>5, <2>4, <4>1
    <3> QED BY <1>4, <1>5, <1>6, <2>1, <2>4, <3>1 DEF Settled
  <2> QED BY <2>2, <2>3, <2>4
<1> QED BY <1>14, <1>15, <1>16, Zenon DEF Settled

\* run_at and repeat.
LEMMA SetMaps ==
  ASSUME Typed, PoolOK, Fresh, Linked, Settled,
         \/ \E tp \in Nat : RunAt(tp) \/ RunEvery(tp)
         \/ \E s \in Seqs : Repeat(s)
  PROVE  Fresh' /\ Linked' /\ Settled'
<1>1. time_seq \in Nat /\ MaxSeq \in Nat /\ \A t \in Seqs : t \in Nat /\ t >= 1
  BY DispatcherAssumption DEF Typed, TypeOK, Seqs
<1>2. /\ target \in [Seqs -> 0 .. MaxSeq] /\ \A t \in Seqs : target[t] <= time_seq
      /\ rep \in [Seqs -> [at : Nat, timer_id : Nat \X Nat]]
      /\ stage \in [Seqs -> {"start", "callback"}]
      /\ repeatable \cup cancelled \subseteq 1 .. time_seq
  BY DEF Typed, TypeOK, Fresh
<1>3. ASSUME NEW n \in Seqs, n > time_seq
      PROVE  target[n] = 0 /\ future[n] = "none" /\ stage[n] = "start" /\ n \notin cancelled /\ \A x \in timers : x[2] # n
  <2>1. target[n] = 0 /\ future[n] = "none" /\ stage[n] = "start" /\ ~ (n <= time_seq)
    BY <1>1, <1>3 DEF Fresh
  <2>2. n \notin cancelled
    BY <1>1, <1>2, <2>1
  <2> QED BY <2>1, <2>2 DEF Fresh
<1>4. ASSUME NEW tp \in Nat, RunAt(tp) PROVE Fresh' /\ Linked' /\ Settled'
  <2>1. /\ time_seq + 1 <= MaxSeq /\ time_seq' = time_seq + 1 /\ NewTimer(<<tp, time_seq + 1>>)
        /\ UNCHANGED <<target, rep, repeatable, loop, stage, future, cancelled>>
    BY <1>4 DEF RunAt, loopVars, poolVars
  <2>2. PICK n \in Seqs : n = time_seq + 1
    BY <1>1, <2>1 DEF Seqs
  <2>3. PICK r \in 0 .. MaxSeq : r = 0
    BY <1>1
  <2>4. n > time_seq /\ r < n /\ \A t \in Seqs : t > n => t > time_seq
    BY <1>1, <2>2, <2>3
  <2>5. \A t \in Seqs : t > n => stage'[t] = "start"
    BY <1>3, <2>1, <2>4
  <2>6. \A t \in Seqs : t # n /\ Active(t)' => Active(t)
    <3>1. timers' = timers \cup {<<tp, n>>}
      BY <2>1, <2>2 DEF NewTimer
    <3> QED BY <2>1, <3>1 DEF Active
  <2>7. r \notin cancelled
    BY <1>1, <1>2, <2>3
  <2>8. target'[n] = r
    BY <1>3, <2>1, <2>3, <2>4
  <2>9. Sets(tp, n, r)
    BY <2>1, <2>2, <2>3, <2>4, <2>5, <2>6, <2>7, <2>8 DEF Sets
  <2> QED BY <2>9, OneSet
<1>5. ASSUME NEW tp \in Nat, RunEvery(tp) PROVE Fresh' /\ Linked' /\ Settled'
  <2>1. /\ time_seq + 2 <= MaxSeq /\ time_seq' = time_seq + 2 /\ NewTimer(<<tp, time_seq + 2>>)
        /\ repeatable' = repeatable \cup {time_seq + 1}
        /\ rep' = [rep EXCEPT ![time_seq + 1] = [at |-> tp, timer_id |-> <<tp, time_seq + 2>>]]
        /\ target' = [target EXCEPT ![time_seq + 2] = time_seq + 1]
        /\ UNCHANGED <<loop, stage, future, cancelled>>
    BY <1>5 DEF RunEvery, loopVars, poolVars
  <2>2. PICK n \in Seqs : n = time_seq + 2
    BY <1>1, <2>1 DEF Seqs
  <2>3. PICK r \in Seqs : r = time_seq + 1
    BY <1>1, <2>1 DEF Seqs
  <2>4. n > time_seq /\ r > time_seq /\ r < n /\ r # n /\ r # 0 /\ r \in 0 .. MaxSeq /\ \A t \in Seqs : t > n => t > time_seq
    BY <1>1, <2>1, <2>2, <2>3
  <2>5. \A t \in Seqs : t > n => stage'[t] = "start"
    BY <1>3, <2>1, <2>4
  <2>6. target' = [target EXCEPT ![n] = r] /\ rep' = [rep EXCEPT ![r] = [at |-> tp, timer_id |-> <<tp, n>>]]
    BY <2>1, <2>2, <2>3
  <2>7. /\ target'[n] = r /\ \A t \in Seqs : t # n => target'[t] = target[t]
        /\ rep'[r].timer_id = <<tp, n>> /\ \A q \in Seqs : q # r => rep'[q] = rep[q]
    BY <1>2, <2>6
  <2>8. ASSUME NEW t \in Seqs, t # n, Active(t)' PROVE Active(t) /\ target[t] # r
    <3>1. timers' = timers \cup {<<tp, n>>}
      BY <2>1, <2>2 DEF NewTimer
    <3>2. Active(t)
      BY <2>1, <2>8, <3>1 DEF Active
    <3>3. target[t] # r
      <4>1. target[t] \in 0 .. MaxSeq /\ target[t] <= time_seq
        BY <1>2
      <4> QED BY <1>1, <2>4, <4>1
    <3> QED BY <3>2, <3>3
  <2>9. target[r] = 0 /\ future[r] = "none" /\ r \notin cancelled /\ \A x \in timers : x[2] # r
    BY <1>3, <2>4
  <2>10. \A q \in repeatable' : q \in repeatable \/ (q = r /\ r # 0)
    BY <2>1, <2>3, <2>4
  <2>11. NewTimer(<<tp, n>>) /\ time_seq' = n
    BY <2>1, <2>2
  <2>12. Sets(tp, n, r)
    BY <2>1, <2>4, <2>5, <2>7, <2>8, <2>9, <2>10, <2>11, Zenon DEF Sets
  <2> QED BY <2>4, <2>12, OneSet
<1>6. ASSUME NEW s \in Seqs, Repeat(s) PROVE Fresh' /\ Linked' /\ Settled'
  <2>1. /\ s \in running /\ target[s] # 0 /\ stage[s] = "start" /\ time_seq + 1 <= MaxSeq /\ time_seq' = time_seq + 1
        /\ rep' = [rep EXCEPT ![target[s]] = [at |-> rep[target[s]].at + Interval,
                                              timer_id |-> <<rep[target[s]].at + Interval, time_seq + 1>>]]
        /\ target' = [target EXCEPT ![time_seq + 1] = target[s]]
        /\ NewTimer(<<rep[target[s]].at + Interval, time_seq + 1>>)
        /\ stage' = [stage EXCEPT ![s] = "callback"]
        /\ UNCHANGED <<repeatable, loop, future, cancelled>>
    BY <1>6, Zenon DEF Repeat, loopVars, poolVars
  <2>2. PICK n \in Seqs : n = time_seq + 1
    BY <1>1, <2>1 DEF Seqs
  <2>3. PICK r \in 0 .. MaxSeq : r = target[s]
    BY <1>2
  <2>4. r \in Seqs /\ r <= time_seq /\ r # 0
    <3>1. r # 0 /\ r <= time_seq
      BY <1>2, <2>1, <2>3, Zenon
    <3> QED BY ONLY <2>3, <3>1, DispatcherAssumption DEF Seqs
  <2>5. n > time_seq /\ r < n /\ \A t \in Seqs : t > n => t > time_seq
    BY <1>1, <2>2, <2>4
  <2>6. PICK at \in Nat : at = rep[r].at + Interval
    BY <1>2, <2>4, DispatcherAssumption
  <2>7. /\ NewTimer(<<at, n>>) /\ time_seq' = n /\ target' = [target EXCEPT ![n] = r]
        /\ rep' = [rep EXCEPT ![r] = [at |-> at, timer_id |-> <<at, n>>]]
    BY <2>1, <2>2, <2>3, <2>6, Zenon
  <2>8. /\ target'[n] = r /\ \A t \in Seqs : t # n => target'[t] = target[t]
        /\ rep'[r].timer_id = <<at, n>> /\ \A q \in Seqs : q # r => rep'[q] = rep[q]
    BY <1>2, <2>4, <2>7
  <2>9. Active(s) /\ future[s] = "pending"
    BY <2>1 DEF Active, PoolOK
  <2>10. s # n /\ \A t \in Seqs : t > n => t # s
    <3>1. ~ (s > time_seq)
      BY <1>3, <2>9
    <3> QED BY <2>5, <3>1
  <2>11. /\ \A t \in Seqs : t > n => stage'[t] = "start"
         /\ stage'[s] = "callback" /\ \A t \in Seqs : t # s => stage'[t] = stage[t]
    <3>1. stage'[s] = "callback" /\ \A t \in Seqs : t # s => stage'[t] = stage[t]
      BY <1>2, <2>1, Zenon
    <3> QED BY <1>3, <2>5, <2>10, <3>1
  <2>12. ASSUME NEW t \in Seqs, t # n, Active(t)' PROVE Active(t) /\ target[t] # r
    <3>1. timers' = timers \cup {<<at, n>>}
      BY <2>7 DEF NewTimer
    <3>2. t # s
      BY <2>1, <2>9, <2>11, <2>12, Zenon DEF Active
    <3>3. Active(t)
      BY <2>1, <2>11, <2>12, <3>1, <3>2 DEF Active
    <3>4. target[t] # r
      <4>1. rep[r].timer_id[2] = s
        BY <2>3, <2>4, <2>9, Zenon DEF Linked
      <4>2. target[t] = r => rep[r].timer_id[2] = t
        BY <2>4, <3>3 DEF Linked
      <4> QED BY <3>2, <4>1, <4>2
    <3> QED BY <3>3, <3>4
  <2>13. future[r] = "none" /\ target[r] = 0 /\ \A x \in timers : x[2] # r
    BY <2>3, <2>4 DEF Linked
  <2>14. lapses \subseteq {"late"} => r \notin cancelled
    BY <2>3, <2>9 DEF Settled
  <2>15. Sets(at, n, r)
    BY <2>1, <2>5, <2>7, <2>8, <2>11, <2>12, <2>13, <2>14 DEF Sets
  <2> QED BY <2>15, OneSet
<1> QED BY <1>4, <1>5, <1>6

-----------------------------------------------------------------------------
(* The theorems.                                                            *)

\* Before anything was called.
LEMMA InvInit ==
  ASSUME Init PROVE Inv
<1>1. /\ working = TRUE /\ time_seq = 0 /\ next_timeout = MAX_TIMEOUTS
      /\ timers = {} /\ target = [s \in Seqs |-> 0]
      /\ rep = [r \in Seqs |-> [at |-> 0, timer_id |-> <<0, 0>>]] /\ repeatable = {}
      /\ pipe = 0 /\ loop = "test" /\ final = FALSE /\ deadline = 0 /\ now = 1
      /\ waker = "idle" /\ stage = [s \in Seqs |-> "start"] /\ cancelled = {} /\ lapses = {}
      /\ queue = <<>> /\ running = {} /\ future = [s \in Seqs |-> "none"]
  BY DEF Init, pool!Init
<1>2. /\ MaxSeq \in Nat /\ MaxTime \in Nat /\ MaxTime # 0 /\ DEFAULT_TIMEOUTS \in Nat /\ MAX_TIMEOUTS \in Nat
  BY DispatcherAssumption
<1>3. Typed
  <2>1. now \in 1 .. MaxTime + DEFAULT_TIMEOUTS /\ now <= MaxTime /\ time_seq \in 0 .. MaxSeq
    BY <1>1, <1>2
  <2>2. target \in [Seqs -> 0 .. MaxSeq] /\ rep \in [Seqs -> [at : Nat, timer_id : Nat \X Nat]]
        /\ stage \in [Seqs -> {"start", "callback"}]
    BY <1>1, <1>2
  <2>3. queue \in Seq(Seqs) /\ running \subseteq Seqs
    BY <1>1
  <2> QED BY <1>1, <1>2, <2>1, <2>2, <2>3, Zenon DEF Typed, TypeOK
<1>4. PoolOK
  <2>1. DOMAIN queue = {}
    BY <1>1
  <2> QED BY <1>1, <2>1 DEF PoolOK
<1>5. Fresh /\ Linked
  <2>1. \A s \in Seqs : target[s] = 0 /\ target[s] <= time_seq /\ s # 0 /\ future[s] = "none" /\ stage[s] = "start"
    BY <1>1, <1>2 DEF Seqs
  <2> QED BY <1>1, <2>1 DEF Fresh, Linked
<1>6. Settled /\ Punctual
  BY <1>1 DEF Settled, Punctual
<1> QED BY <1>3, <1>4, <1>5, <1>6 DEF Inv

\* In every behaviour: numbers, tasks, the pool and the clock fit together.
THEOREM Invariance == Spec => []Inv
<1>1. Init => Inv
  BY InvInit
<1>2. Inv /\ [Next]_vars => Inv'
  <2> SUFFICES ASSUME Inv, [Next]_vars PROVE Inv'
    OBVIOUS
  <2>1. Typed /\ PoolOK /\ Fresh /\ Linked /\ Settled /\ Punctual
    BY DEF Inv
  <2>2. PoolOK' /\ Punctual'
    BY <2>1, PoolKept, PunctualKept
  <2> DEFINE Good == Typed' /\ Fresh' /\ Linked' /\ Settled'
  <2>3. ASSUME Loop PROVE Good
    BY <2>1, <2>3, LoopTyped, LoopMaps
  <2>4. ASSUME Tick \/ Exit \/ Wakeup \/ Start \/ Destroy PROVE Good
    <3>1. UNCHANGED <<timers, target, rep, repeatable, time_seq, future, stage, cancelled, lapses, loop>>
      <4>1. CASE Tick
        BY <4>1 DEF Tick, mapVars, loopVars, poolVars
      <4>2. CASE Exit
        BY <4>2 DEF Exit, mapVars, loopVars, poolVars
      <4>3. CASE Wakeup
        BY <4>3 DEF Wakeup, mapVars, loopVars, poolVars
      <4>4. CASE Start
        BY <4>4 DEF Start, pool!Start, poolOnly, mapVars, loopVars
      <4>5. CASE Destroy
        BY <4>5 DEF Destroy, pool!Close, pool!Gone, poolOnly, mapVars, loopVars
      <4> QED BY <2>4, <4>1, <4>2, <4>3, <4>4, <4>5
    <3>2. Fresh' /\ Linked' /\ Settled'
      BY <2>1, <3>1, MapsSame
    <3>3. Typed'
      BY <2>1, <2>4, RestTyped
    <3> QED BY <3>2, <3>3
  <2>5. ASSUME NEW d \in Delays, RunAt(now + d) \/ RunEvery(now + d) PROVE Good
    <3>1. now \in Nat
      BY <2>1, DispatcherAssumption DEF Typed, TypeOK
    <3>2. PICK tp \in Nat : tp = now + d
      BY <3>1, DispatcherAssumption
    <3>3. RunAt(tp) \/ RunEvery(tp)
      BY <2>5, <3>2 DEF RunAt, RunEvery
    <3>4. Fresh' /\ Linked' /\ Settled'
      BY <2>1, <3>3, SetMaps
    <3>5. Typed'
      BY <2>1, <3>3, CallsTyped
    <3> QED BY <3>4, <3>5
  <2>6. ASSUME NEW s \in Seqs, Cancel(s) PROVE Good
    BY <2>1, <2>6, CancelMaps, CallsTyped
  <2>7. ASSUME NEW s \in Seqs, Repeat(s) PROVE Good
    BY <2>1, <2>7, SetMaps, CallsTyped
  <2>8. ASSUME NEW s \in Seqs, Finish(s) PROVE Good
    BY <2>1, <2>8, FinishMaps, RestTyped
  <2>9. ASSUME UNCHANGED vars PROVE Good
    <3>1. UNCHANGED <<timers, target, rep, repeatable, time_seq, future, stage, cancelled, lapses, loop>>
      BY <2>9 DEF vars, poolOnly, poolVars, mapVars, loopVars
    <3>2. Fresh' /\ Linked' /\ Settled'
      BY <2>1, <3>1, MapsSame
    <3>3. Typed'
      BY <2>1, <2>9 DEF Typed, TypeOK, vars, poolOnly, poolVars, ioVars, mapVars, loopVars
    <3> QED BY <3>2, <3>3
  <2> HIDE DEF Good
  <2>10. Good
    BY <2>3, <2>4, <2>5, <2>6, <2>7, <2>8, <2>9 DEF Next
  <2> QED BY <2>2, <2>10 DEF Good, Inv
<1> QED BY <1>1, <1>2, PTL DEF Spec

\* TypeOK, the type invariant, holds of every behaviour.
THEOREM TypeCorrect == Spec => []TypeOK
<1>1. Inv => TypeOK
  BY DEF Inv, Typed
<1> QED BY <1>1, Invariance, PTL

\* BoundedLateness: while exit was not called and no repeat ran too late, no timer
\* is left in timers_ for more than DEFAULT_TIMEOUTS after it was due, whatever
\* value the races leave next_timeout_ with.
THEOREM LatenessBounded == Spec => []BoundedLateness
<1>1. Inv => BoundedLateness
  BY DEF Inv, Punctual, BoundedLateness
<1> QED BY <1>1, Invariance, PTL

\* CancelHolds: what cancel removed is not run afterwards, and a cancelled task has
\* no timer and no closure about to repeat, unless begin moved under
\* handle_timeout or a task was erased with its closure in the pool.
THEOREM CancelsHold == Spec => []CancelHolds
<1>1. Inv => CancelHolds
  <2> SUFFICES ASSUME Inv, lapses \subseteq {"late"}, NEW c \in cancelled
               PROVE  /\ future[c] = "none"
                      /\ \A s \in Seqs : target[s] = c =>
                           /\ future[s] = "none" => \A x \in timers : x[2] # s
                           /\ future[s] = "pending" => stage[s] = "callback"
    BY DEF CancelHolds
  <2>1. future[c] = "none" /\ \A s \in Seqs : target[s] = c => ~ Active(s)
    BY DEF Inv, Settled
  <2>2. \A s \in Seqs : stage[s] \in {"start", "callback"}
    BY DEF Inv, Typed
  <2> QED BY <2>1, <2>2 DEF Active
<1> QED BY <1>1, Invariance, PTL
=============================================================================
