----------------------------- MODULE RaftServer -----------------------------
(***************************************************************************)
(* consensus/raft/raft_server.cc: one server, its peers being whatever may *)
(* arrive on the wire.                                                     *)
(*                                                                         *)
(* The wire.  The encoders of rpc_args.cc write every field of a message   *)
(* to the same place and the decoders read every field from the same       *)
(* place, so that all fields of what a handler receives are one number     *)
(* that nobody sent; log entries are never decoded.  A message is          *)
(* therefore one number g, cut to the width of the field that takes it: 64 *)
(* bits for a term or an index, 32 for candidate_id, 8 for vote_granted    *)
(* and success.                                                            *)
(*                                                                         *)
(* The mutex.  A handler holds mutex_ all the time and is one step.  Some  *)
(* call convert_to, majority or a send function, which lock it             *)
(* again.  A std::mutex blocks there for ever (relock = FALSE, stuck); a   *)
(* recursive one would let the handler go on (relock = TRUE), which shows  *)
(* the protocol behind the lock.  Init takes either.                       *)
(*                                                                         *)
(* Uninitialised: role_ and votes_ (nothing else makes a candidate); what  *)
(* a failed read of the state file leaves in its variables; elements past  *)
(* the end of log_entries_; the index append_entries starts to append at,  *)
(* which either is 0 or ends the process.                                  *)
(***************************************************************************)
EXTENDS Integers, Sequences, FiniteSets

CONSTANTS
    Peers,      \* indices of peers_
    Clients,    \* threads that call replicate
    UCHAR, UINT, ULONG,   \* 2^8, 2^32, 2^64
    Nums,       \* 64-bit numbers a message or uninitialised memory may hold
    Junk,       \* log entries that uninitialised memory may hold
    MaxLog,     \* bound: length of the log
    MaxStarts,  \* bound: starts of the server
    MaxTimers   \* bound: timers the first process creates; the n-th creates an n-th of it

ASSUME RaftAssumption ==
    /\ IsFiniteSet(Peers) /\ IsFiniteSet(Clients)
    /\ {UCHAR, UINT, ULONG} \subseteq Nat \ {0} /\ UINT <= ULONG
    /\ Nums \subseteq 0 .. ULONG - 1
    /\ Junk \subseteq [index : 0 .. ULONG - 1, term : 0 .. ULONG - 1]
    /\ MaxLog \in Nat /\ MaxStarts \in Nat /\ MaxTimers \in Nat

Roles == {"follower", "candidate", "leader"}
Word == 0 .. ULONG - 1
INT_MAX == UINT \div 2 - 1
Nobody == -1
Absent == [term |-> Nobody, voted_for |-> Nobody, size |-> Nobody]

VARIABLES
    role, votes, current_term, voted_for, log_entries, commit_index, last_applied,
    next_index, match_index,
    timers,     \* timers pending in the dispatcher: <<what they call, id>>
    election,   \* election_timer_id_
    narrowed,   \* history: the last handler made a term of one that is no int
    ids,        \* timers created so far
    calls,      \* outstanding calls: <<method, id of the timer that gives up, peer>>
    client,     \* where each client's replicate is
    relock,     \* mutex_ may be locked twice by one thread
    stuck,      \* a thread waits for the mutex_ it holds
    up,         \* the server runs
    disk,       \* raft_server_state.data
    starts,
    applied,    \* history: log indices applied since the start
    overlap     \* history: two clients were in apply_to_statemachine at once

server == <<role, votes, current_term, voted_for, next_index, match_index,
            timers, election, ids, calls, stuck, narrowed>>
process == <<relock, up, disk, starts>>
applying == <<client, last_applied, applied>>
vars == <<server, process, applying, log_entries, commit_index, overlap>>

\* log_entries_[i]: the entry, or any if i is past the end.
At(i) == IF i \in 0 .. Len(log_entries) - 1 THEN {log_entries[i + 1]} ELSE Junk
back == At(Len(log_entries) - 1)

\* A word made an int, and an int made a word.
as_int(w) == IF w % UINT <= INT_MAX THEN w % UINT ELSE (w % UINT) - UINT
as_word(i) == IF i >= 0 THEN i ELSE i + ULONG

majority == (Cardinality(Peers) + 1) \div 2

-----------------------------------------------------------------------------
(* Start, shutdown, crash *)

\* Term, vote and size are written without separators: only the sign of a
\* negative vote ends a number ("0", "-1", "2" is read as 0 and -12; with more
\* digits as another negative number), and what cannot be read stays
\* uninitialised.  A term that is no int is read as INT_MAX, and ends the reading.
SomeInt == {as_int(n) : n \in Nums}
read_state_from_disk ==
    IF disk = Absent THEN [term : SomeInt, voted_for : SomeInt \cup {Nobody}]
    ELSE IF disk.term > INT_MAX THEN [term : {INT_MAX}, voted_for : SomeInt \cup {Nobody}]
    ELSE IF disk.voted_for >= 0 THEN [term : SomeInt, voted_for : SomeInt \cup {Nobody}]
    ELSE [term : {disk.term},
          voted_for : IF disk.size < 10 THEN {10 * disk.voted_for - disk.size}
                      ELSE {v \in Int : v < 0}]

\* next_index_ and match_index_ after add_peer() for each peer.
add_peers == [p \in Peers |-> 0]

Init ==
    /\ role = "follower" /\ votes = 0 /\ current_term = 0 /\ voted_for = Nobody
    /\ log_entries = <<>> /\ commit_index = 0 /\ last_applied = 0
    /\ next_index = add_peers /\ match_index = add_peers
    /\ timers = {} /\ election = 0 /\ ids = 0 /\ calls = {}
    /\ client = [c \in Clients |-> "idle"]
    /\ relock \in BOOLEAN /\ stuck = FALSE /\ narrowed = FALSE /\ up = FALSE /\ disk = Absent /\ starts = 0
    /\ applied = <<>> /\ overlap = FALSE

\* A new process: the constructor, add_peer for each peer, and start().  The size
\* of the log is never read, so that the loop reads any number of entries, none
\* of which is in the file.
Start ==
    /\ ~up /\ starts < MaxStarts
    /\ up' = TRUE /\ starts' = starts + 1
    /\ \E s \in read_state_from_disk :
         current_term' = as_word(s.term) /\ voted_for' = s.voted_for
    /\ \E size \in 0 .. MaxLog : log_entries' \in [1 .. size -> Junk]
    /\ role' \in Roles /\ votes' \in IF role' = "candidate" THEN SomeInt ELSE {0}
    /\ timers' = {<<"election", 1>>} /\ election' = 1 /\ ids' = 1
    /\ UNCHANGED <<commit_index, next_index, match_index, calls, stuck, narrowed, relock,
                   disk, applying, overlap>>

\* The process is gone, and with it all that is not in the file.
Down ==
    /\ up' = FALSE
    /\ role' = "follower" /\ votes' = 0 /\ current_term' = 0 /\ voted_for' = Nobody
    /\ log_entries' = <<>> /\ commit_index' = 0 /\ last_applied' = 0
    /\ next_index' = add_peers /\ match_index' = add_peers
    /\ timers' = {} /\ election' = 0 /\ ids' = 0 /\ calls' = {}
    /\ client' = [c \in Clients |-> "idle"] /\ stuck' = FALSE /\ narrowed' = FALSE
    /\ applied' = <<>> /\ overlap' = FALSE
    /\ UNCHANGED <<relock, starts>>

\* Nothing but shutdown(), the end of the process here, writes the file.
persist_state_to_disk ==
    disk' = [term |-> current_term, voted_for |-> voted_for, size |-> Len(log_entries)]
Shutdown == up /\ ~stuck /\ persist_state_to_disk /\ Down

Crash == up /\ UNCHANGED disk /\ Down

-----------------------------------------------------------------------------
(* Roles, terms and timers.  Handlers compute on a record s of the state.   *)

Now == [role |-> role, votes |-> votes, term |-> current_term, voted |-> voted_for,
        next |-> next_index, match |-> match_index, timers |-> timers,
        election |-> election, ids |-> ids, calls |-> calls, stuck |-> stuck,
        narrowed |-> FALSE]

Becomes(s) ==
    /\ role' = s.role /\ votes' = s.votes /\ current_term' = s.term /\ voted_for' = s.voted
    /\ next_index' = s.next /\ match_index' = s.match
    /\ timers' = s.timers /\ election' = s.election /\ ids' = s.ids
    /\ calls' = s.calls /\ stuck' = s.stuck /\ narrowed' = s.narrowed
    /\ ids' * starts <= MaxTimers

\* A second lock of mutex_ by its holder, and what comes behind it.
lock_always(s, then) == [s EXCEPT !.stuck = TRUE]
lock(s, then) == IF relock THEN then ELSE [s EXCEPT !.stuck = TRUE]

run(s, what) == [s EXCEPT !.ids = @ + 1, !.timers = @ \cup {<<what, s.ids + 1>>}]
cancel(s, gone) == [s EXCEPT !.timers = @ \ gone]

\* The timer of the role that convert_to leaves.
of_role(s) ==
    {t \in s.timers : \/ s.role = "leader" /\ t[1] = "heartbeat"
                      \/ s.role = "candidate" /\ t[2] = s.election}

reschedule_election(s) == [run(s, "election") EXCEPT !.election = s.ids + 1]

\* convert_to(follower, t) and convert_to(leader), with mutex_ held.  The
\* parameter of convert_to is an int, the term it is called with a word, and so
\* is current_term_.
to_follower(s, t) ==
    LET c == cancel(s, of_role(s))
        term == as_word(as_int(t))
    IN lock(c, reschedule_election([c EXCEPT !.role = "follower", !.term = term,
                                             !.voted = Nobody, !.narrowed = term # t]))
to_leader(s) ==
    lock(s, run([s EXCEPT !.role = "leader", !.next = [p \in Peers |-> Len(log_entries) + 1],
                          !.match = [p \in Peers |-> 0]], "heartbeat"))

\* What a message of term g does first.
newer(g) == g > current_term
stepped_down(g) == IF newer(g) THEN to_follower(Now, g) ELSE Now

-----------------------------------------------------------------------------
(* Elections *)

send_request_vote_args(s) ==
    LET n == s.ids + 1 IN
    [run(s, "retry") EXCEPT !.election = n, !.calls = @ \cup ({<<"request_vote", n>>} \X Peers)]

\* The timer of reschedule_election; the role stays what it is.
ElectionTimeout(t) ==
    /\ up /\ ~stuck /\ t \in timers /\ t[1] = "election"
    /\ Becomes(send_request_vote_args(cancel(Now, {t})))
    /\ UNCHANGED <<process, applying, log_entries, commit_index, overlap>>

\* The timer of send_request_vote_args drops its calls, then locks mutex_.
Retry(t) ==
    LET s == [cancel(Now, {t}) EXCEPT !.calls = {c \in @ : c[1] # <<"request_vote", t[2]>>}] IN
    /\ up /\ t \in timers /\ t[1] = "retry"
    /\ Becomes(IF stuck \/ role # "candidate" THEN s ELSE lock(s, send_request_vote_args(s)))
    /\ UNCHANGED <<process, applying, log_entries, commit_index, overlap>>

\* request_vote.
may_vote_again(s, g) == TRUE
may_vote(s, g) == s.voted \in {Nobody, as_int(g)}
RequestVote(g) ==
    LET s == stepped_down(g) IN
    /\ up /\ ~stuck
    /\ \E e \in back :
         LET grant == /\ g >= current_term /\ ~s.stuck /\ may_vote(s, g)
                      /\ e.index = g /\ e.term = g
         IN Becomes(IF grant THEN [s EXCEPT !.voted = as_int(g)] ELSE s)
    /\ UNCHANGED <<process, applying, log_entries, commit_index, overlap>>

\* receive_request_vote_reply: a candidate that steps down here goes on to count
\* the vote.
ReceiveRequestVoteReply(c, g) ==
    LET gone(s) == [s EXCEPT !.calls = @ \ {c}]
        s == gone(stepped_down(g))
        n == [s EXCEPT !.votes = @ + 1]
    IN /\ up /\ ~stuck /\ c \in calls /\ c[1][1] = "request_vote"
       /\ Becomes(IF role # "candidate" THEN gone(Now)
                  ELSE IF s.stuck \/ g # s.term \/ g % UCHAR = 0 THEN s
                  ELSE lock(n, IF n.votes >= majority THEN to_leader(n) ELSE n))
       /\ UNCHANGED <<process, applying, log_entries, commit_index, overlap>>

-----------------------------------------------------------------------------
(* Replication *)

send_append_entries_args(s) ==
    IF s.role # "leader" THEN s
    ELSE LET n == s.ids + 1 IN
         [run(s, "give_up") EXCEPT !.calls = @ \cup ({<<"append_entries", n>>} \X Peers)]

Heartbeat ==
    /\ up /\ ~stuck /\ \E t \in timers : t[1] = "heartbeat"
    /\ Becomes(send_append_entries_args(Now))
    /\ UNCHANGED <<process, applying, log_entries, commit_index, overlap>>

GiveUp(t) ==
    /\ up /\ t \in timers /\ t[1] = "give_up"
    /\ Becomes([cancel(Now, {t}) EXCEPT !.calls = {c \in @ : c[1] # <<"append_entries", t[2]>>}])
    /\ UNCHANGED <<process, applying, log_entries, commit_index, overlap>>

\* append_entries, with no entries decoded.  size() - 1 is 2^64 - 1 for no log.
commit_limit_sent(g) == g
commit_limit(g) ==
    IF log_entries = <<>> \/ g < Len(log_entries) THEN g ELSE Len(log_entries) - 1
behind_always(g) == TRUE
behind(g) == g > commit_index
AppendEntries(g) ==
    /\ up /\ ~stuck
    /\ \E e \in At(g) :
         LET commits == /\ g >= current_term /\ Len(log_entries) >= g /\ e.term = g
                        /\ behind(g)
         IN commit_index' = IF commits THEN commit_limit(g) ELSE commit_index
    /\ UNCHANGED <<server, process, applying, log_entries, overlap>>

\* update_commit_index in state s.
update_commit_index(s) ==
    LET ok == {n \in commit_index + 1 .. Len(log_entries) - 1 :
                 /\ Cardinality({p \in Peers : s.match[p] >= n}) >= majority
                 /\ log_entries[n + 1].term = s.term}
    IN IF ok = {} THEN commit_index ELSE CHOOSE n \in ok : \A k \in ok : k <= n

\* receive_append_entries_reply.  majority() is called once per turn of the loop
\* of update_commit_index.
ReceiveAppendEntriesReply(c, g) ==
    LET p == c[2]
        gone(s) == [s EXCEPT !.calls = @ \ {c}]
        s == gone(stepped_down(g))
        moved == IF g % UCHAR # 0 THEN [s EXCEPT !.next[p] = @ + 1, !.match[p] = @ + 1]
                 ELSE LET d == [s EXCEPT !.next[p] = @ - 1]
                      IN lock(d, send_append_entries_args(d))
        loops == commit_index + 1 < Len(log_entries)
    IN /\ up /\ ~stuck /\ c \in calls /\ c[1][1] = "append_entries"
       /\ IF role # "leader" THEN Becomes(gone(Now)) /\ UNCHANGED commit_index
          ELSE IF s.stuck THEN Becomes(s) /\ UNCHANGED commit_index
          ELSE IF moved.stuck \/ ~loops THEN Becomes(moved) /\ UNCHANGED commit_index
          ELSE /\ Becomes(lock(moved, moved))
               /\ commit_index' = IF relock THEN update_commit_index(moved) ELSE commit_index
       /\ UNCHANGED <<process, applying, log_entries, overlap>>

-----------------------------------------------------------------------------
(* Clients *)

\* replicate, up to its unlock.
Replicate(c) ==
    /\ up /\ ~stuck /\ client[c] = "idle" /\ role = "leader"
    /\ Len(log_entries) < MaxLog
    /\ log_entries' = Append(log_entries, [index |-> Len(log_entries), term |-> current_term])
    /\ client' = [client EXCEPT ![c] = "check"]
    /\ UNCHANGED <<server, process, last_applied, applied, commit_index, overlap>>

\* apply_to_statemachine, which takes no lock.
ApplyCheck(c) ==
    /\ up /\ client[c] = "check"
    /\ client' = [client EXCEPT ![c] = IF commit_index > last_applied THEN "advance" ELSE "idle"]
    /\ overlap' = (overlap \/ \E d \in Clients \ {c} : client[d] \in {"advance", "call", "undo"})
    /\ UNCHANGED <<server, process, last_applied, applied, log_entries, commit_index>>

ApplyAdvance(c) ==
    /\ up /\ client[c] = "advance"
    /\ last_applied' = last_applied + 1
    /\ client' = [client EXCEPT ![c] = "call"]
    /\ UNCHANGED <<server, process, applied, log_entries, commit_index, overlap>>

\* apply_func_ is called with the entry at last_applied_, and may fail.
ApplyCall(c) ==
    /\ up /\ client[c] = "call"
    /\ \/ /\ applied' = Append(applied, last_applied)
          /\ client' = [client EXCEPT ![c] = "idle"]
       \/ client' = [client EXCEPT ![c] = "undo"] /\ UNCHANGED applied
    /\ UNCHANGED <<server, process, last_applied, log_entries, commit_index, overlap>>

undone_not(i) == i
undone(i) == i - 1
ApplyUndo(c) ==
    /\ up /\ client[c] = "undo"
    /\ last_applied' = undone(last_applied)
    /\ client' = [client EXCEPT ![c] = "idle"]
    /\ UNCHANGED <<server, process, applied, log_entries, commit_index, overlap>>

-----------------------------------------------------------------------------
Timer == Heartbeat \/ \E t \in timers : ElectionTimeout(t) \/ Retry(t) \/ GiveUp(t)
Receive == \E g \in Nums :
    \/ RequestVote(g) \/ AppendEntries(g)
    \/ \E c \in calls : ReceiveRequestVoteReply(c, g) \/ ReceiveAppendEntriesReply(c, g)
Client == \E c \in Clients :
    Replicate(c) \/ ApplyCheck(c) \/ ApplyAdvance(c) \/ ApplyCall(c) \/ ApplyUndo(c)

Next == Start \/ Shutdown \/ Crash \/ Timer \/ Receive \/ Client
Spec == Init /\ [][Next]_vars

-----------------------------------------------------------------------------
(* Properties *)

\* The variables have their types; the server gets stuck only on a std::mutex;
\* a heartbeat is pending only in a leader, whatever made it one or unmade it.
TypeOK ==
    /\ role \in Roles /\ votes \in Int /\ current_term \in Word /\ voted_for \in Int
    /\ log_entries \in Seq([index : Nat, term : Word]) /\ Len(log_entries) <= MaxLog
    /\ commit_index \in Nat /\ last_applied \in Nat
    /\ next_index \in [Peers -> Int] /\ match_index \in [Peers -> Nat]
    /\ timers \subseteq {"election", "retry", "heartbeat", "give_up"} \X (1 .. ids)
    /\ calls \subseteq ({"request_vote", "append_entries"} \X (1 .. ids)) \X Peers
    /\ client \in [Clients -> {"idle", "check", "advance", "call", "undo"}]
    /\ up \in BOOLEAN /\ stuck \in BOOLEAN /\ narrowed \in BOOLEAN /\ overlap \in BOOLEAN
    /\ stuck => ~relock
    /\ (\E t \in timers : t[1] = "heartbeat") => role = "leader"

\* A running server does not change its vote within a term ("candidate_id that
\* received vote in current term", raft_server.h:40): not when messages of old and
\* new terms, its own timers and the replies to its calls are interleaved, and
\* not the vote a start has read from the file.  The one step that may is a
\* message of a term that is no int: 2^32 + current_term_ is newer, but
\* convert_to makes it current_term_ again and forgets the vote.
VoteStays ==
    [][up /\ up' /\ ~narrowed' /\ current_term' = current_term /\ voted_for # Nobody
         => voted_for' = voted_for]_vars

\* commit_index_ of a running server only grows, in every role ("increases
\* monotonically", raft_server.h:48), and so does current_term_ (:38) but in the step
\* in which convert_to has cut a term that is no int (raft_server.cc:81).
GrowsMonotonically ==
    [][up /\ up' => /\ ~narrowed' => current_term' >= current_term
                    /\ commit_index' >= commit_index]_vars

\* What is committed is in the log: the std::min of append_entries and the loop
\* bound of update_commit_index see to it, and size() - 1 of an empty log, which
\* wraps around, is never taken: what gets past the test of prev_log_index is not
\* ahead of commit_index_ then, the two being one number on the wire.
CommitInLog == commit_index = 0 \/ commit_index < Len(log_entries)

\* Entries are applied one after the other from 1 on, each once, and committed
\* ones only, last_applied_ being the last of them, with failing calls of
\* apply_func_ tried again, unless two clients were between the check and the end
\* of apply_to_statemachine at once.
AppliedInOrder ==
    ~overlap =>
        /\ \A i \in 1 .. Len(applied) : applied[i] = i /\ i <= commit_index
        /\ (\A c \in Clients : client[c] \notin {"call", "undo"}) => last_applied = Len(applied)
=============================================================================
