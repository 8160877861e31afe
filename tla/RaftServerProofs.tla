--------------------------- MODULE RaftServerProofs ---------------------------
(***************************************************************************)
(* What RaftServer promises about terms, votes and commit_index_, for any  *)
(* number of peers and clients, any length of the log and any numbers on   *)
(* the wire, with a std::mutex and with a recursive one.                   *)
(***************************************************************************)
EXTENDS RaftServer, FiniteSetTheorems, WellFoundedInduction, TLAPS

Fields == {"role", "votes", "term", "voted", "next", "match", "timers", "election",
           "ids", "calls", "stuck", "narrowed"}

\* What every handler makes of term and vote: unless it made the term of a number
\* that is no int, the term does not go back, and within it the vote that is cast
\* stays.
Keeps(s) ==
  /\ DOMAIN s = Fields /\ s.term \in Word
  /\ s.narrowed # TRUE =>
       /\ s.term >= current_term
       /\ s.term = current_term /\ voted_for # Nobody => s.voted = voted_for

\* What is in the file was written by shutdown(); a server that is down has
\* committed nothing.
Inv ==
  /\ current_term \in Word /\ commit_index \in Nat
  /\ disk = Absent \/ disk.term \in Word
  /\ log_entries \in Seq([index : Nat, term : Word])
  /\ ~ up => commit_index = 0
  /\ CommitInLog

\* An int made of a word, and INT_MAX, can be made a word again.
LEMMA Widths ==
  /\ Word \subseteq Nat /\ Nums \subseteq Word /\ 0 \in Word
  /\ INT_MAX \in Int /\ as_word(INT_MAX) \in Word
  /\ \A w \in Word : as_int(w) \in Int /\ as_word(as_int(w)) \in Word
<1>1. UINT \in Nat /\ ULONG \in Nat /\ UINT >= 1 /\ UINT <= ULONG /\ Nums \subseteq Word
  BY RaftAssumption DEF Word
<1>2. INT_MAX \in Int /\ -1 <= INT_MAX /\ INT_MAX < UINT
  <2>1. UINT \div 2 \in Nat /\ UINT \div 2 <= UINT
    BY <1>1
  <2> QED BY <1>1, <2>1 DEF INT_MAX
<1>3. as_word(INT_MAX) \in Word
  BY <1>1, <1>2 DEF as_word, Word
<1>4. ASSUME NEW w \in Word PROVE as_int(w) \in Int /\ as_word(as_int(w)) \in Word
  <2> DEFINE m == w % UINT
  <2>1. m \in 0 .. UINT - 1
    BY <1>1 DEF Word
  <2>2. as_int(w) = IF m <= INT_MAX THEN m ELSE m - UINT
    BY DEF as_int
  <2> HIDE DEF m
  <2> QED BY <1>1, <1>2, <2>1, <2>2 DEF as_word, Word
<1>5. Word \subseteq Nat /\ 0 \in Word
  BY <1>1 DEF Word
<1> QED BY <1>1, <1>2, <1>3, <1>4, <1>5

\* A handler that changes nothing keeps term and vote.
LEMMA NowKeeps == ASSUME Inv PROVE Keeps(Now)
<1>1. current_term \in Word /\ current_term >= current_term
  BY Widths DEF Inv
<1> QED BY <1>1 DEF Keeps, Now, Fields

\* The helpers that handle timers, calls and the mutex keep term and vote.
LEMMA HelpersKeep ==
  ASSUME NEW s, Keeps(s)
  PROVE  /\ \A w : Keeps(run(s, w))
         /\ \A T : Keeps(cancel(s, T))
         /\ \A t : Keeps(t) => Keeps(lock(s, t))
         /\ \A C : Keeps([s EXCEPT !.calls = C])
         /\ \A v : Keeps([s EXCEPT !.votes = v])
         /\ Keeps(send_request_vote_args(s))
         /\ Keeps(send_append_entries_args(s))
         /\ Keeps(to_leader(s))
<1>1. \A w : Keeps(run(s, w))
  BY DEF Keeps, run, Fields
<1>2. \A T : Keeps(cancel(s, T))
  BY DEF Keeps, cancel, Fields
<1>3. \A t : Keeps(t) => Keeps(lock(s, t))
  BY DEF Keeps, lock, Fields
<1>4. \A C : Keeps([s EXCEPT !.calls = C])
  BY DEF Keeps, Fields
<1>5. \A v : Keeps([s EXCEPT !.votes = v])
  BY DEF Keeps, Fields
<1>6. Keeps(send_request_vote_args(s))
  BY DEF Keeps, Fields, send_request_vote_args, run
<1>7. Keeps(send_append_entries_args(s))
  BY DEF Keeps, Fields, send_append_entries_args, run
<1>8. Keeps(to_leader(s))
  BY DEF Keeps, Fields, to_leader, lock, run
<1> QED BY <1>1, <1>2, <1>3, <1>4, <1>5, <1>6, <1>7, <1>8

\* convert_to(follower) forgets the vote, but only for a greater term.
LEMMA SteppedDownKeeps ==
  ASSUME Inv, NEW g \in Nums PROVE Keeps(stepped_down(g))
<1>1. CASE newer(g)
  <2>1. stepped_down(g) = to_follower(Now, g)
    BY <1>1 DEF stepped_down
  <2>2. Keeps(cancel(Now, of_role(Now)))
    BY NowKeeps, HelpersKeep
  <2> DEFINE c == cancel(Now, of_role(Now))
             w == as_word(as_int(g))
             f == [c EXCEPT !.role = "follower", !.term = w, !.voted = Nobody,
                            !.narrowed = w # g]
  <2>3. Keeps(f)
    <3>1. DOMAIN c = Fields
      BY <2>2 DEF Keeps
    <3> HIDE DEF c
    <3>2. g \in Nat /\ g > current_term /\ current_term \in Nat /\ w \in Word
      BY <1>1, Widths DEF newer, Inv
    <3> HIDE DEF w
    <3>3. DOMAIN f = Fields /\ f.term = w /\ f.narrowed = (w # g)
      BY <3>1 DEF Fields
    <3> HIDE DEF f
    <3>4. CASE w = g
      <4>1. f.term \in Word /\ f.term >= current_term /\ f.term # current_term
        BY <3>2, <3>3, <3>4
      <4> QED BY <3>3, <4>1, Zenon DEF Keeps
    <3>5. CASE w # g
      BY <3>2, <3>3, <3>5 DEF Keeps
    <3> QED BY <3>4, <3>5
  <2>4. Keeps(reschedule_election(f))
    <3> HIDE DEF f
    <3> QED BY <2>3 DEF Keeps, Fields, reschedule_election, run
  <2>5. Keeps(lock(c, reschedule_election(f)))
    <3> HIDE DEF c, f
    <3> QED BY <2>2, <2>4, HelpersKeep DEF c
  <2> QED BY <2>1, <2>5 DEF to_follower
<1>2. CASE ~ newer(g)
  BY <1>2, NowKeeps DEF stepped_down
<1> QED BY <1>1, <1>2

\* The numbers update_commit_index tries are bounded by the log, so that the
\* loop that keeps the last one that fits keeps the greatest.
LEMMA GreatestExists ==
  ASSUME NEW m \in Nat, NEW S \in SUBSET (0 .. m), S # {}
  PROVE  \E n \in S : \A k \in S : k <= n
<1> DEFINE T == {m - n : n \in S}
<1>1. T \subseteq Nat /\ T # {}
  <2>1. \A n \in S : m - n \in Nat
    OBVIOUS
  <2>2. T # {}
    BY Zenon
  <2> QED BY <2>1, <2>2
<1>2. PICK x \in T : \A y \in T : ~ (<<y, x>> \in OpToRel(<, Nat))
  BY <1>1, NatLessThanWellFounded, WFMin, Zenon
<1>3. PICK n \in S : x = m - n
  OBVIOUS
<1>4. ASSUME NEW k \in S PROVE k <= n
  <2>1. m - k \in T /\ m - k \in Nat /\ x \in Nat
    BY <1>1, Zenon
  <2>2. ~ (m - k < x)
    BY <1>2, <2>1, Zenon DEF OpToRel
  <2> QED BY <1>3, <2>2
<1> QED BY <1>4

\* update_commit_index moves commit_index_ forward to an entry of the log, or
\* leaves it alone.
LEMMA UpdateInLog ==
  ASSUME Inv, NEW s
  PROVE  LET u == update_commit_index(s) IN
         u = commit_index \/ (u \in Nat /\ u >= commit_index /\ u < Len(log_entries))
<1> DEFINE L == Len(log_entries)
           ok == {n \in commit_index + 1 .. L - 1 :
                    /\ Cardinality({p \in Peers : s.match[p] >= n}) >= majority
                    /\ log_entries[n + 1].term = s.term}
           u == update_commit_index(s)
<1>1. L \in Nat /\ commit_index \in Nat
  BY DEF Inv
<1>2. ok \subseteq commit_index + 1 .. L - 1
  OBVIOUS
<1>3. u = IF ok = {} THEN commit_index ELSE CHOOSE n \in ok : \A k \in ok : k <= n
  BY DEF update_commit_index
<1> HIDE DEF ok, L, u
<1>4. CASE ok # {}
  <2>1. ok \in SUBSET (0 .. L)
    BY <1>1, <1>2
  <2>2. \E n \in ok : \A k \in ok : k <= n
    BY <1>1, <1>4, <2>1, GreatestExists, Zenon
  <2>3. u \in ok
    BY <1>3, <1>4, <2>2
  <2>4. u \in Nat /\ u >= commit_index /\ u < L
    BY <1>1, <1>2, <2>3
  <2> QED BY <2>4 DEF u, L
<1>5. CASE ok = {}
  BY <1>3, <1>5 DEF u
<1> QED BY <1>4, <1>5

-----------------------------------------------------------------------------
(* Steps *)

\* What a step does to term and vote.
Advances ==
  /\ current_term' \in Word
  /\ narrowed' # TRUE =>
       /\ current_term' >= current_term
       /\ current_term' = current_term /\ voted_for # Nobody => voted_for' = voted_for

\* A handler that ends in a state that keeps term and vote advances them.
LEMMA BecomesAdvances == ASSUME NEW s, Keeps(s), Becomes(s) PROVE Advances
BY DEF Keeps, Becomes, Advances

\* So does one that leaves them alone.
LEMMA UnchangedAdvances ==
  ASSUME Inv, UNCHANGED <<current_term, voted_for>> PROVE Advances
<1>1. current_term \in Word /\ current_term >= current_term
  BY Widths DEF Inv
<1> QED BY <1>1 DEF Advances

\* The timers of a running server.
LEMMA TimerAdvances == ASSUME Inv, Timer PROVE Advances
<1>1. CASE Heartbeat
  <2>1. Keeps(send_append_entries_args(Now))
    BY NowKeeps, HelpersKeep
  <2> QED BY <1>1, <2>1, BecomesAdvances DEF Heartbeat
<1>2. ASSUME NEW t \in timers, ElectionTimeout(t) PROVE Advances
  <2>1. Keeps(cancel(Now, {t}))
    BY NowKeeps, HelpersKeep
  <2>2. Keeps(send_request_vote_args(cancel(Now, {t})))
    BY <2>1, HelpersKeep
  <2> QED BY <1>2, <2>2, BecomesAdvances DEF ElectionTimeout
<1>3. ASSUME NEW t \in timers, Retry(t) PROVE Advances
  <2> DEFINE d == cancel(Now, {t})
             s == [d EXCEPT !.calls = {c \in @ : c[1] # <<"request_vote", t[2]>>}]
  <2>1. Keeps(d)
    BY NowKeeps, HelpersKeep
  <2>2. Keeps(s)
    <3> HIDE DEF d
    <3> QED BY <2>1, HelpersKeep
  <2>3. Becomes(IF stuck \/ role # "candidate" THEN s ELSE lock(s, send_request_vote_args(s)))
    BY <1>3 DEF Retry
  <2> HIDE DEF s
  <2>4. Keeps(send_request_vote_args(s))
    BY <2>2, HelpersKeep
  <2>5. Keeps(lock(s, send_request_vote_args(s)))
    BY <2>2, <2>4, HelpersKeep
  <2> QED BY <2>2, <2>3, <2>5, BecomesAdvances
<1>4. ASSUME NEW t \in timers, GiveUp(t) PROVE Advances
  <2> DEFINE d == cancel(Now, {t})
             s == [d EXCEPT !.calls = {c \in @ : c[1] # <<"append_entries", t[2]>>}]
  <2>1. Keeps(d)
    BY NowKeeps, HelpersKeep
  <2>2. Keeps(s)
    <3> HIDE DEF d
    <3> QED BY <2>1, HelpersKeep
  <2>3. Becomes(s)
    BY <1>4 DEF GiveUp
  <2> HIDE DEF s
  <2> QED BY <2>2, <2>3, BecomesAdvances
<1> QED BY <1>1, <1>2, <1>3, <1>4 DEF Timer

\* request_vote grants a vote only to the one that has it or if nobody has.
LEMMA RequestVoteAdvances ==
  ASSUME Inv, NEW g \in Nums, RequestVote(g) PROVE Advances
<1> DEFINE s == stepped_down(g)
<1>1. PICK e \in back :
        LET grant == /\ g >= current_term /\ ~s.stuck /\ may_vote(s, g)
                     /\ e.index = g /\ e.term = g
        IN Becomes(IF grant THEN [s EXCEPT !.voted = as_int(g)] ELSE s)
  BY DEF RequestVote
<1>2. Keeps(s)
  BY SteppedDownKeeps
<1> HIDE DEF s
<1>3. may_vote(s, g) => Keeps([s EXCEPT !.voted = as_int(g)])
  BY <1>2 DEF may_vote, Keeps, Fields
<1> QED BY <1>1, <1>2, <1>3, BecomesAdvances

\* receive_request_vote_reply.
LEMMA VoteReplyAdvances ==
  ASSUME Inv, NEW g \in Nums, NEW c \in calls, ReceiveRequestVoteReply(c, g) PROVE Advances
<1> DEFINE gone(r) == [r EXCEPT !.calls = @ \ {c}]
           s == gone(stepped_down(g))
           n == [s EXCEPT !.votes = @ + 1]
<1>1. Keeps(gone(Now))
  BY NowKeeps, HelpersKeep
<1>2. Keeps(s)
  BY SteppedDownKeeps, HelpersKeep
<1>3. Becomes(IF role # "candidate" THEN gone(Now)
              ELSE IF s.stuck \/ g # s.term \/ g % UCHAR = 0 THEN s
              ELSE lock(n, IF n.votes >= majority THEN to_leader(n) ELSE n))
  BY DEF ReceiveRequestVoteReply
<1>4. Keeps(n)
  <2> HIDE DEF s
  <2> QED BY <1>2, HelpersKeep
<1> HIDE DEF gone, s, n
<1>5. Keeps(to_leader(n))
  BY <1>4, HelpersKeep
<1>6. Keeps(lock(n, IF n.votes >= majority THEN to_leader(n) ELSE n))
  BY <1>4, <1>5, HelpersKeep
<1> QED BY <1>1, <1>2, <1>3, <1>6, BecomesAdvances

\* receive_append_entries_reply: term and vote, and what it does to commit_index_.
LEMMA AppendReplyAdvances ==
  ASSUME Inv, NEW g \in Nums, NEW c \in calls, ReceiveAppendEntriesReply(c, g)
  PROVE  /\ Advances
         /\ \/ commit_index' = commit_index
            \/ /\ commit_index' \in Nat /\ commit_index' >= commit_index
               /\ commit_index' < Len(log_entries)
<1> DEFINE p == c[2]
           gone(r) == [r EXCEPT !.calls = @ \ {c}]
           s == gone(stepped_down(g))
           d == [s EXCEPT !.next[p] = @ - 1]
           up1 == [s EXCEPT !.next[p] = @ + 1, !.match[p] = @ + 1]
           moved == IF g % UCHAR # 0 THEN up1 ELSE lock(d, send_append_entries_args(d))
           loops == commit_index + 1 < Len(log_entries)
<1>1. Keeps(gone(Now))
  BY NowKeeps, HelpersKeep
<1>2. Keeps(s)
  BY SteppedDownKeeps, HelpersKeep
<1>3. IF role # "leader" THEN Becomes(gone(Now)) /\ UNCHANGED commit_index
      ELSE IF s.stuck THEN Becomes(s) /\ UNCHANGED commit_index
      ELSE IF moved.stuck \/ ~loops THEN Becomes(moved) /\ UNCHANGED commit_index
      ELSE /\ Becomes(lock(moved, moved))
           /\ commit_index' = IF relock THEN update_commit_index(moved) ELSE commit_index
  BY DEF ReceiveAppendEntriesReply
<1>4. Keeps(d) /\ Keeps(up1)
  <2> HIDE DEF s
  <2> QED BY <1>2 DEF Keeps, Fields
<1> HIDE DEF gone, s, d, up1, loops
<1>5. Keeps(moved)
  <2>1. Keeps(send_append_entries_args(d))
    BY <1>4, HelpersKeep
  <2>2. Keeps(lock(d, send_append_entries_args(d)))
    BY <1>4, <2>1, HelpersKeep
  <2> QED BY <1>4, <2>2
<1> HIDE DEF moved
<1>6. Keeps(lock(moved, moved))
  BY <1>5, HelpersKeep
<1>7. Advances
  BY <1>1, <1>2, <1>3, <1>5, <1>6, BecomesAdvances
<1>8. commit_index' = commit_index \/ commit_index' = update_commit_index(moved)
  BY <1>3
<1> QED BY <1>7, <1>8, UpdateInLog

\* append_entries commits an entry of the log that is ahead of commit_index_: an
\* empty log has none, and commit_limit is the last entry at most.
LEMMA AppendEntriesCommits ==
  ASSUME Inv, NEW g \in Nums, AppendEntries(g)
  PROVE  \/ commit_index' = commit_index
         \/ /\ commit_index' \in Nat /\ commit_index' >= commit_index
            /\ commit_index' < Len(log_entries)
<1>1. \/ commit_index' = commit_index
      \/ commit_index' = commit_limit(g) /\ Len(log_entries) >= g /\ g > commit_index
  BY DEF AppendEntries, behind
<1>2. g \in Nat /\ Len(log_entries) \in Nat /\ commit_index \in Nat
      /\ (log_entries = <<>> => Len(log_entries) = 0)
  BY Widths DEF Inv
<1>3. commit_limit(g) = IF log_entries = <<>> \/ g < Len(log_entries)
                        THEN g ELSE Len(log_entries) - 1
  BY DEF commit_limit
<1> QED BY <1>1, <1>2, <1>3

\* What every step of Next does.
Progress ==
  /\ Inv'
  /\ up /\ up' => Advances /\ commit_index' >= commit_index

\* A handler that advances term and vote and leaves commit_index_, or moves it
\* forward within the log, makes progress.
LEMMA HandlerProgress ==
  ASSUME Inv, Advances, up, UNCHANGED <<process, log_entries>>,
         \/ commit_index' = commit_index
         \/ /\ commit_index' \in Nat /\ commit_index' >= commit_index
            /\ commit_index' < Len(log_entries)
  PROVE  Progress
<1>1. commit_index' >= commit_index /\ commit_index' \in Nat
  BY DEF Inv
<1>2. CommitInLog'
  BY DEF Inv, CommitInLog
<1> QED BY <1>1, <1>2 DEF Progress, Inv, Advances, process

\* What a start reads is an int that can be made a term, and an int for the vote.
LEMMA ReadWords ==
  ASSUME disk = Absent \/ disk.term \in Word, NEW x \in read_state_from_disk
  PROVE  /\ as_word(x.term) \in Word
         /\ (disk # Absent => disk.voted_for \in Int /\ disk.size \in Nat) => x.voted_for \in Int
<1>1. \A i \in SomeInt : i \in Int /\ as_word(i) \in Word
  BY Widths, Zenon DEF SomeInt
<1>2. SomeInt \cup {Nobody} \subseteq Int
  BY <1>1 DEF Nobody
<1>3. CASE x \in [term : SomeInt, voted_for : SomeInt \cup {Nobody}]
  BY <1>1, <1>2, <1>3, Zenon
<1>4. CASE x \in [term : {INT_MAX}, voted_for : SomeInt \cup {Nobody}]
  BY <1>2, <1>4, Widths, Zenon
<1>5. CASE /\ disk # Absent /\ ~ (disk.term > INT_MAX)
           /\ x \in [term : {disk.term},
                     voted_for : IF disk.size < 10 THEN {10 * disk.voted_for - disk.size}
                                 ELSE {v \in Int : v < 0}]
  <2>1. /\ x.term = disk.term
        /\ x.voted_for \in IF disk.size < 10 THEN {10 * disk.voted_for - disk.size}
                           ELSE {v \in Int : v < 0}
    BY <1>5
  <2>2. as_word(x.term) \in Word
    <3>1. x.term \in Word /\ x.term \in Nat
      BY <1>5, <2>1, Widths
    <3>2. as_word(x.term) = x.term
      BY <3>1 DEF as_word
    <3> QED BY <3>1, <3>2
  <2>3. disk.voted_for \in Int /\ disk.size \in Nat => x.voted_for \in Int
    BY <2>1
  <2> QED BY <1>5, <2>2, <2>3
<1> QED BY <1>3, <1>4, <1>5 DEF read_state_from_disk

\* What is indexed by 1 .. n is a sequence of length n.
LEMMA Listed ==
  ASSUME NEW S, NEW n \in Nat, NEW c \in [1 .. n -> S]
  PROVE  c \in Seq(S) /\ Len(c) = n
<1>1. c \in Seq(S) /\ DOMAIN c = 1 .. n
  BY DEF Seq
<1>2. Len(c) \in Nat /\ 1 .. Len(c) = 1 .. n
  BY <1>1
<1>3. ASSUME NEW k \in Nat, 1 .. k = 1 .. n PROVE k = n
  <2>1. (n >= 1 => n \in 1 .. k) /\ (k >= 1 => k \in 1 .. n)
    BY <1>3
  <2> QED BY <2>1, <1>3
<1> QED BY <1>1, <1>2, <1>3

\* The log a start finds, of as many entries as an uninitialised size says.
LEMMA StartLog ==
  ASSUME Start
  PROVE  log_entries' \in Seq([index : Nat, term : Word]) /\ Len(log_entries') <= MaxLog
<1>1. PICK size \in 0 .. MaxLog : log_entries' \in [1 .. size -> Junk]
  BY DEF Start
<1>2. Junk \subseteq [index : Nat, term : Word]
  <2>1. Junk \subseteq [index : Word, term : Word]
    BY RaftAssumption DEF Word
  <2> QED BY <2>1, Widths, Zenon
<1>3. size \in Nat /\ size <= MaxLog
  BY <1>1, RaftAssumption
<1>4. log_entries' \in [1 .. size -> [index : Nat, term : Word]]
  BY <1>1, <1>2, Zenon
<1>6. log_entries' \in Seq([index : Nat, term : Word]) /\ Len(log_entries') = size
  BY <1>3, <1>4, Listed, Zenon
<1> QED BY <1>3, <1>6

\* A start reads a term from the file or finds any number, and nothing is
\* committed.
LEMMA StartProgress == ASSUME Inv, Start PROVE Progress
<1>1. ~ up /\ commit_index = 0 /\ commit_index' = 0 /\ disk' = disk
  BY DEF Start, Inv
<1>2. current_term' \in Word
  <2>1. PICK x \in read_state_from_disk : current_term' = as_word(x.term)
    BY DEF Start
  <2> QED BY <2>1, ReadWords DEF Inv
<1>4. CommitInLog'
  BY <1>1 DEF CommitInLog
<1>5. Inv'
  BY <1>1, <1>2, <1>4, StartLog DEF Inv
<1> QED BY <1>1, <1>5 DEF Progress

\* A server that goes down leaves nothing but the file.
LEMMA DownProgress == ASSUME Inv, Shutdown \/ Crash PROVE Progress
<1>1. Down
  BY DEF Shutdown, Crash
<1>2. disk' = Absent \/ disk'.term \in Word
  <2>1. CASE Shutdown
    BY <2>1 DEF Inv, Shutdown, persist_state_to_disk
  <2>2. CASE Crash
    BY <2>2 DEF Inv, Crash
  <2> QED BY <2>1, <2>2
<1>3. ~ up' /\ commit_index' = 0 /\ current_term' = 0 /\ log_entries' = <<>>
  BY <1>1 DEF Down
<1>4. log_entries' \in Seq([index : Nat, term : Word]) /\ CommitInLog'
  BY <1>3 DEF CommitInLog
<1>5. Inv'
  BY <1>2, <1>3, <1>4, Widths DEF Inv, Absent
<1> QED BY <1>3, <1>5 DEF Progress

\* replicate appends to the log; the steps of apply_to_statemachine leave term,
\* vote, log and commit_index_ alone.
LEMMA ClientProgress == ASSUME Inv, Client PROVE Progress
<1>1. ASSUME NEW c \in Clients, Replicate(c) PROVE Progress
  <2> DEFINE e == [index |-> Len(log_entries), term |-> current_term]
  <2>1. /\ log_entries' = Append(log_entries, e)
        /\ UNCHANGED <<current_term, voted_for, commit_index, up, disk>>
    BY <1>1 DEF Replicate, server, process
  <2>2. e \in [index : Nat, term : Word] /\ log_entries \in Seq([index : Nat, term : Word])
    BY DEF Inv
  <2> HIDE DEF e
  <2>3. /\ log_entries' \in Seq([index : Nat, term : Word])
        /\ Len(log_entries') = Len(log_entries) + 1 /\ Len(log_entries) \in Nat
    BY <2>1, <2>2
  <2>4. CommitInLog'
    BY <2>1, <2>3 DEF Inv, CommitInLog
  <2>5. Inv'
    BY <2>1, <2>3, <2>4 DEF Inv
  <2>6. Advances /\ commit_index' >= commit_index
    BY <2>1, UnchangedAdvances DEF Inv
  <2> QED BY <2>5, <2>6 DEF Progress
<1>2. ASSUME NEW c \in Clients,
             ApplyCheck(c) \/ ApplyAdvance(c) \/ ApplyCall(c) \/ ApplyUndo(c)
      PROVE  Progress
  <2>1. up /\ UNCHANGED <<server, process, log_entries, commit_index>>
    BY <1>2 DEF ApplyCheck, ApplyAdvance, ApplyCall, ApplyUndo
  <2>2. Advances
    BY <2>1, UnchangedAdvances DEF server
  <2> QED BY <2>1, <2>2, HandlerProgress
<1> QED BY <1>1, <1>2 DEF Client

\* The handlers of messages.
LEMMA ReceiveProgress == ASSUME Inv, Receive PROVE Progress
<1>1. ASSUME NEW g \in Nums, RequestVote(g) PROVE Progress
  <2>1. up /\ UNCHANGED <<process, log_entries, commit_index>>
    BY <1>1 DEF RequestVote
  <2> QED BY <1>1, <2>1, RequestVoteAdvances, HandlerProgress
<1>2. ASSUME NEW g \in Nums, AppendEntries(g) PROVE Progress
  <2>1. up /\ UNCHANGED <<server, process, log_entries>>
    BY <1>2 DEF AppendEntries
  <2>2. Advances
    BY <2>1, UnchangedAdvances DEF server
  <2> QED BY <1>2, <2>1, <2>2, AppendEntriesCommits, HandlerProgress
<1>3. ASSUME NEW g \in Nums, NEW c \in calls, ReceiveRequestVoteReply(c, g) PROVE Progress
  <2>1. up /\ UNCHANGED <<process, log_entries, commit_index>>
    BY <1>3 DEF ReceiveRequestVoteReply
  <2> QED BY <1>3, <2>1, VoteReplyAdvances, HandlerProgress
<1>4. ASSUME NEW g \in Nums, NEW c \in calls, ReceiveAppendEntriesReply(c, g) PROVE Progress
  <2>1. up /\ UNCHANGED <<process, log_entries>>
    BY <1>4 DEF ReceiveAppendEntriesReply
  <2> QED BY <1>4, <2>1, AppendReplyAdvances, HandlerProgress
<1> QED BY <1>1, <1>2, <1>3, <1>4 DEF Receive

\* The handlers of timers.
LEMMA TimerProgress == ASSUME Inv, Timer PROVE Progress
<1>1. up /\ UNCHANGED <<process, log_entries, commit_index>>
  BY Zenon DEF Timer, Heartbeat, ElectionTimeout, Retry, GiveUp
<1> QED BY <1>1, TimerAdvances, HandlerProgress

\* Every step makes progress, or changes nothing.
LEMMA StepProgress == Inv /\ [Next]_vars => Progress \/ UNCHANGED vars
<1> SUFFICES ASSUME Inv, Next PROVE Progress
  OBVIOUS
<1> QED BY TimerProgress, StartProgress, DownProgress, ReceiveProgress, ClientProgress DEF Next

\* The invariant holds in every reachable state.
THEOREM Invariance == Spec => []Inv
<1>1. Init => Inv
  <2> SUFFICES ASSUME Init PROVE Inv
    OBVIOUS
  <2>1. log_entries \in Seq([index : Nat, term : Word])
    BY DEF Init
  <2> QED BY <2>1, Widths DEF Init, Inv, CommitInLog
<1>2. Inv /\ [Next]_vars => Inv'
  <2> SUFFICES ASSUME Inv, [Next]_vars PROVE Inv'
    OBVIOUS
  <2>1. CASE UNCHANGED vars
    BY <2>1 DEF Inv, CommitInLog, vars, server, process
  <2> QED BY <2>1, StepProgress DEF Progress
<1> QED BY <1>1, <1>2, PTL DEF Spec

\* What is committed is in the log, with append_entries messages of any numbers
\* and replies of any peers in any order: size() - 1 of an empty log is never
\* taken for commit_index_.
THEOREM CommittedInLog == Spec => []CommitInLog
<1>1. Inv => CommitInLog
  BY DEF Inv
<1> QED BY <1>1, Invariance, PTL

\* A running server does not change its vote within a term, whatever arrives,
\* except for a term that is no int, which convert_to makes another.
THEOREM VoteKept == Spec => VoteStays
<1>1. Inv /\ [Next]_vars =>
        [up /\ up' /\ ~narrowed' /\ current_term' = current_term /\ voted_for # Nobody
           => voted_for' = voted_for]_vars
  BY StepProgress DEF Progress, Advances
<1> QED BY <1>1, Invariance, PTL DEF Spec, VoteStays

\* commit_index_ of a running server never goes back, and current_term_ only when
\* a message's term is no int.
THEOREM Monotonic == Spec => GrowsMonotonically
<1>1. Inv /\ [Next]_vars =>
        [up /\ up' => /\ ~narrowed' => current_term' >= current_term
                      /\ commit_index' >= commit_index]_vars
  BY StepProgress DEF Progress, Advances
<1> QED BY <1>1, Invariance, PTL DEF Spec, GrowsMonotonically
-----------------------------------------------------------------------------
(* The state machine.  apply_to_statemachine takes no lock: what it does to  *)
(* last_applied_ is in order as long as one client at a time is between its  *)
(* check and its end, which ~overlap says.                                   *)

Inside == {"advance", "call", "undo"}

\* One client inside, which has found something committed that is not applied,
\* and has counted it in last_applied_ from ApplyAdvance until it fails or is
\* done.
OneApplies ==
  /\ \A i \in 1 .. Len(applied) : applied[i] = i /\ i <= commit_index
  /\ \A c, d \in Clients : client[c] \in Inside /\ client[d] \in Inside => c = d
  /\ (\A c \in Clients : client[c] \notin {"call", "undo"}) => last_applied = Len(applied)
  /\ \A c \in Clients :
       /\ client[c] = "advance" => last_applied < commit_index
       /\ client[c] \in {"call", "undo"} =>
            last_applied = Len(applied) + 1 /\ last_applied <= commit_index

\* Without the server there are no clients and nothing is applied.
ApplyInv ==
  /\ client \in [Clients -> {"idle", "check"} \cup Inside]
  /\ last_applied \in Int /\ applied \in Seq(Int) /\ overlap \in BOOLEAN
  /\ ~ up => /\ \A c \in Clients : client[c] = "idle"
             /\ last_applied = 0 /\ applied = <<>>
  /\ ~ overlap => OneApplies

\* While commit_index_ grows and the clients stay where they are, all stays in
\* order.
LEMMA StillApplies ==
  ASSUME OneApplies, UNCHANGED applying, commit_index' >= commit_index,
         commit_index \in Nat, commit_index' \in Nat, last_applied \in Int,
         applied \in Seq(Int)
  PROVE  OneApplies'
<1>1. client' = client /\ last_applied' = last_applied /\ applied' = applied
  BY DEF applying
<1>2. Len(applied) \in Nat
  OBVIOUS
<1> QED BY <1>1, <1>2 DEF OneApplies

\* The handlers and a start leave the clients alone.
LEMMA OthersApply ==
  ASSUME Inv, ApplyInv, Start \/ Timer \/ Receive PROVE ApplyInv'
<1>1. UNCHANGED applying /\ overlap' = overlap /\ up'
  <2>1. CASE Start
    BY <2>1 DEF Start
  <2>2. CASE Timer
    <3>1. CASE Heartbeat
      BY <3>1 DEF Heartbeat, process
    <3>2. ASSUME NEW t \in timers, ElectionTimeout(t) \/ Retry(t) \/ GiveUp(t)
          PROVE  UNCHANGED applying /\ overlap' = overlap /\ up'
      BY <3>2 DEF ElectionTimeout, Retry, GiveUp, process
    <3> QED BY <2>2, <3>1, <3>2 DEF Timer
  <2>3. CASE Receive
    <3>1. PICK g \in Nums :
            \/ RequestVote(g) \/ AppendEntries(g)
            \/ \E c \in calls : ReceiveRequestVoteReply(c, g) \/ ReceiveAppendEntriesReply(c, g)
      BY <2>3 DEF Receive
    <3>2. CASE RequestVote(g) \/ AppendEntries(g)
      BY <3>2 DEF RequestVote, AppendEntries, process
    <3>3. ASSUME NEW c \in calls,
                 ReceiveRequestVoteReply(c, g) \/ ReceiveAppendEntriesReply(c, g)
          PROVE  UNCHANGED applying /\ overlap' = overlap /\ up'
      BY <3>3 DEF ReceiveRequestVoteReply, ReceiveAppendEntriesReply, process
    <3> QED BY <3>1, <3>2, <3>3
  <2> QED BY <2>1, <2>2, <2>3
<1>2. commit_index \in Nat /\ commit_index' \in Nat /\ commit_index' >= commit_index
  <2>1. Progress
    BY TimerProgress, StartProgress, ReceiveProgress
  <2>2. Inv'
    BY <2>1 DEF Progress
  <2>3. CASE up
    BY <1>1, <2>1, <2>2, <2>3 DEF Progress, Inv
  <2>4. CASE ~ up
    <3>1. commit_index = 0
      BY <2>4 DEF Inv
    <3> QED BY <2>2, <3>1 DEF Inv
  <2> QED BY <2>3, <2>4
<1>3. ~ overlap => OneApplies'
  BY <1>1, <1>2, StillApplies DEF ApplyInv
<1> QED BY <1>1, <1>3 DEF ApplyInv, applying

\* A server that goes down takes its clients along.
LEMMA DownApplies == ASSUME Down PROVE ApplyInv'
<1>1. /\ client' = [c \in Clients |-> "idle"] /\ last_applied' = 0 /\ applied' = <<>>
      /\ overlap' = FALSE /\ ~ up'
  BY DEF Down
<1>2. applied' \in Seq(Int) /\ Len(applied') = 0
  BY <1>1
<1>3. OneApplies'
  BY <1>1, <1>2 DEF OneApplies, Inside
<1>4. /\ client' \in [Clients -> {"idle", "check"} \cup Inside]
      /\ \A c \in Clients : client'[c] = "idle"
  BY <1>1
<1>5. last_applied' \in Int
  BY <1>1
<1> QED BY <1>1, <1>2, <1>3, <1>4, <1>5, Zenon DEF ApplyInv

\* The clients: only the one inside touches last_applied_.
LEMMA ClientApplies == ASSUME Inv, ApplyInv, Client PROVE ApplyInv'
<1>0. PICK c \in Clients :
        Replicate(c) \/ ApplyCheck(c) \/ ApplyAdvance(c) \/ ApplyCall(c) \/ ApplyUndo(c)
  BY DEF Client
<1>1. /\ client \in [Clients -> {"idle", "check"} \cup Inside] /\ overlap \in BOOLEAN
      /\ last_applied \in Int /\ applied \in Seq(Int) /\ Len(applied) \in Nat
      /\ commit_index \in Nat
  BY DEF ApplyInv, Inv
<1>2. up /\ up' /\ commit_index' = commit_index
  BY <1>0 DEF Replicate, ApplyCheck, ApplyAdvance, ApplyCall, ApplyUndo, process
<1>3. CASE Replicate(c)
  <2>1. /\ client[c] = "idle" /\ client' = [client EXCEPT ![c] = "check"]
        /\ UNCHANGED <<last_applied, applied, overlap>>
    BY <1>3 DEF Replicate
  <2>2. ~ overlap => OneApplies'
    BY <1>1, <1>2, <2>1 DEF ApplyInv, OneApplies, Inside
  <2> QED BY <1>1, <1>2, <2>1, <2>2 DEF ApplyInv
<1>4. CASE ApplyCheck(c)
  <2> DEFINE v == IF commit_index > last_applied THEN "advance" ELSE "idle"
  <2>1. /\ client[c] = "check" /\ client' = [client EXCEPT ![c] = v]
        /\ overlap' = (overlap \/ \E d \in Clients \ {c} : client[d] \in Inside)
        /\ UNCHANGED <<last_applied, applied>>
    BY <1>4 DEF ApplyCheck, Inside
  <2>2. ASSUME ~ overlap' PROVE OneApplies'
    <3>1. OneApplies /\ \A d \in Clients : client[d] \notin Inside
      BY <2>1, <2>2, Zenon DEF ApplyInv, Inside
    <3>2. last_applied = Len(applied)
      BY <3>1 DEF OneApplies, Inside
    <3>3. v = "advance" => last_applied < commit_index
      BY <1>1
    <3>4. v \in {"advance", "idle"}
      OBVIOUS
    <3> HIDE DEF v
    <3>5. \A d \in Clients : client'[d] = IF d = c THEN v ELSE client[d]
      BY <1>1, <2>1
    <3> QED BY <1>1, <1>2, <2>1, <3>1, <3>2, <3>3, <3>4, <3>5 DEF OneApplies, Inside
  <2>3. overlap' \in BOOLEAN
    BY <2>1
  <2>4. client' \in [Clients -> {"idle", "check"} \cup Inside]
    BY <1>1, <2>1 DEF Inside
  <2> QED BY <1>1, <1>2, <2>1, <2>2, <2>3, <2>4 DEF ApplyInv
<1>5. CASE ApplyAdvance(c)
  <2>1. /\ client[c] = "advance" /\ client' = [client EXCEPT ![c] = "call"]
        /\ last_applied' = last_applied + 1 /\ UNCHANGED <<applied, overlap>>
    BY <1>5 DEF ApplyAdvance
  <2>2. ASSUME ~ overlap PROVE OneApplies'
    <3>1. OneApplies
      BY <2>2 DEF ApplyInv
    <3>2. \A d \in Clients \ {c} : client[d] \notin Inside
      BY <2>1, <3>1 DEF OneApplies, Inside
    <3>3. last_applied = Len(applied) /\ last_applied < commit_index
      BY <2>1, <3>1, <3>2 DEF OneApplies, Inside
    <3>4. \A d \in Clients : client'[d] = IF d = c THEN "call" ELSE client[d]
      BY <1>1, <2>1
    <3> QED BY <1>1, <1>2, <2>1, <3>1, <3>2, <3>3, <3>4 DEF OneApplies, Inside
  <2> QED BY <1>1, <1>2, <2>1, <2>2 DEF ApplyInv, Inside
<1>6. CASE ApplyCall(c)
  <2>1. client[c] = "call" /\ UNCHANGED <<last_applied, overlap>>
    BY <1>6 DEF ApplyCall
  <2>2. ASSUME ~ overlap
        PROVE  /\ OneApplies /\ \A d \in Clients \ {c} : client[d] \notin Inside
               /\ last_applied = Len(applied) + 1 /\ last_applied <= commit_index
    BY <2>1, <2>2 DEF ApplyInv, OneApplies, Inside
  <2>3. CASE applied' = Append(applied, last_applied) /\ client' = [client EXCEPT ![c] = "idle"]
    <3>1. /\ applied' \in Seq(Int) /\ Len(applied') = Len(applied) + 1
          /\ \A i \in 1 .. Len(applied) + 1 :
               applied'[i] = IF i = Len(applied) + 1 THEN last_applied ELSE applied[i]
      BY <1>1, <2>3
    <3>2. \A d \in Clients : client'[d] = IF d = c THEN "idle" ELSE client[d]
      BY <1>1, <2>3
    <3>3. ASSUME ~ overlap PROVE OneApplies'
      <4>1. \A i \in 1 .. Len(applied') : applied'[i] = i /\ i <= commit_index
        <5>1. \A i \in 1 .. Len(applied) : applied[i] = i /\ i <= commit_index
          BY <2>2, <3>3 DEF OneApplies
        <5>2. last_applied = Len(applied) + 1 /\ last_applied <= commit_index
          BY <2>2, <3>3
        <5>3. ASSUME NEW i \in 1 .. Len(applied'), i # Len(applied) + 1
              PROVE  i \in 1 .. Len(applied) /\ applied'[i] = applied[i]
          BY <1>1, <3>1, <5>3
        <5>4. applied'[Len(applied) + 1] = last_applied
          BY <1>1, <3>1
        <5> QED BY <5>1, <5>2, <5>3, <5>4
      <4> QED BY <1>1, <1>2, <2>1, <2>2, <3>1, <3>2, <3>3, <4>1 DEF OneApplies, Inside
    <3>4. client' \in [Clients -> {"idle", "check"} \cup Inside]
      BY <1>1, <2>3
    <3> QED BY <1>1, <1>2, <2>1, <3>1, <3>3, <3>4 DEF ApplyInv
  <2>4. CASE client' = [client EXCEPT ![c] = "undo"] /\ UNCHANGED applied
    <3>1. \A d \in Clients : client'[d] = IF d = c THEN "undo" ELSE client[d]
      BY <1>1, <2>4
    <3>2. ASSUME ~ overlap PROVE OneApplies'
      BY <1>1, <1>2, <2>1, <2>2, <2>4, <3>1, <3>2 DEF OneApplies, Inside
    <3> QED BY <1>1, <1>2, <2>1, <2>4, <3>2 DEF ApplyInv, Inside
  <2> QED BY <1>6, <2>3, <2>4 DEF ApplyCall
<1>7. CASE ApplyUndo(c)
  <2>1. /\ client[c] = "undo" /\ client' = [client EXCEPT ![c] = "idle"]
        /\ last_applied' = last_applied - 1 /\ UNCHANGED <<applied, overlap>>
    BY <1>7 DEF ApplyUndo, undone
  <2>2. ASSUME ~ overlap PROVE OneApplies'
    <3>1. /\ OneApplies /\ \A d \in Clients \ {c} : client[d] \notin Inside
          /\ last_applied = Len(applied) + 1
      BY <2>1, <2>2 DEF ApplyInv, OneApplies, Inside
    <3>2. \A d \in Clients : client'[d] = IF d = c THEN "idle" ELSE client[d]
      BY <1>1, <2>1
    <3> QED BY <1>1, <1>2, <2>1, <3>1, <3>2 DEF OneApplies, Inside
  <2> QED BY <1>1, <1>2, <2>1, <2>2 DEF ApplyInv, Inside
<1> QED BY <1>0, <1>3, <1>4, <1>5, <1>6, <1>7

\* What is known of the clients holds in every reachable state.
THEOREM ApplyInvariance == Spec => []ApplyInv
<1>1. Init => ApplyInv
  <2> SUFFICES ASSUME Init PROVE ApplyInv
    OBVIOUS
  <2>1. /\ client = [c \in Clients |-> "idle"] /\ last_applied = 0 /\ applied = <<>>
        /\ overlap = FALSE
    BY DEF Init
  <2>2. applied \in Seq(Int) /\ Len(applied) = 0
    BY <2>1
  <2>3. OneApplies
    BY <2>1, <2>2 DEF OneApplies, Inside
  <2>4. /\ client \in [Clients -> {"idle", "check"} \cup Inside]
        /\ \A c \in Clients : client[c] = "idle"
    BY <2>1
  <2>5. last_applied \in Int
    BY <2>1
  <2> QED BY <2>1, <2>2, <2>3, <2>4, <2>5, Zenon DEF ApplyInv
<1>2. Inv /\ ApplyInv /\ [Next]_vars => ApplyInv'
  <2> SUFFICES ASSUME Inv, ApplyInv, [Next]_vars PROVE ApplyInv'
    OBVIOUS
  <2>1. CASE UNCHANGED vars
    BY <2>1 DEF ApplyInv, OneApplies, vars, applying, process
  <2>2. CASE Shutdown \/ Crash
    BY <2>2, DownApplies DEF Shutdown, Crash
  <2> QED BY <2>1, <2>2, OthersApply, ClientApplies DEF Next
<1> QED BY <1>1, <1>2, Invariance, PTL DEF Spec

\* As long as one client at a time is in apply_to_statemachine, committed entries
\* are applied one after the other, each once, a failed call of apply_func_
\* being tried again, whatever else the server does meanwhile.
THEOREM AppliesInOrder == Spec => []AppliedInOrder
<1>1. ApplyInv => AppliedInOrder
  BY DEF ApplyInv, OneApplies, AppliedInOrder
<1> QED BY <1>1, ApplyInvariance, PTL

-----------------------------------------------------------------------------
(* Types.  Beside those of the variables: a stuck server has a std::mutex,   *)
(* and a timer that sends heartbeats is pending in leaders only.             *)

TimersOf(n) == {"election", "retry", "heartbeat", "give_up"} \X (1 .. n)
CallsOf(n) == ({"request_vote", "append_entries"} \X (1 .. n)) \X Peers

\* What every handler makes of the state.
Typed(s) ==
  /\ DOMAIN s = Fields
  /\ s.role \in Roles /\ s.votes \in Int /\ s.term \in Word /\ s.voted \in Int
  /\ s.next \in [Peers -> Int] /\ s.match \in [Peers -> Nat] /\ s.ids \in Nat
  /\ s.timers \subseteq TimersOf(s.ids) /\ s.calls \subseteq CallsOf(s.ids)
  /\ s.stuck \in BOOLEAN /\ (s.stuck => ~ relock) /\ s.narrowed \in BOOLEAN
  /\ \A t \in s.timers : t[1] = "heartbeat" => s.role = "leader"

\* What is numbered up to n is numbered up to n + 1.
LEMMA MoreIds ==
  ASSUME NEW n \in Nat
  PROVE  /\ TimersOf(n) \subseteq TimersOf(n + 1) /\ CallsOf(n) \subseteq CallsOf(n + 1)
         /\ \A w \in {"election", "retry", "heartbeat", "give_up"} : <<w, n + 1>> \in TimersOf(n + 1)
         /\ \A m \in {"request_vote", "append_entries"} :
              {<<m, n + 1>>} \X Peers \subseteq CallsOf(n + 1)
<1>1. 1 .. n \subseteq 1 .. n + 1 /\ n + 1 \in 1 .. n + 1 /\ n + 1 \in Nat
  OBVIOUS
<1> QED BY <1>1 DEF TimersOf, CallsOf

\* A new timer; heartbeats are for leaders.
LEMMA RunTyped ==
  ASSUME NEW s, Typed(s), NEW w \in {"election", "retry", "heartbeat", "give_up"},
         w = "heartbeat" => s.role = "leader"
  PROVE  /\ Typed(run(s, w)) /\ run(s, w).ids = s.ids + 1 /\ run(s, w).role = s.role
<1> DEFINE r == run(s, w)
<1>1. DOMAIN s = Fields
  BY DEF Typed
<1>2. /\ DOMAIN r = Fields /\ r.ids = s.ids + 1 /\ r.timers = s.timers \cup {<<w, s.ids + 1>>}
      /\ r.role = s.role /\ r.votes = s.votes /\ r.term = s.term /\ r.voted = s.voted
      /\ r.next = s.next /\ r.match = s.match /\ r.calls = s.calls /\ r.stuck = s.stuck /\ r.narrowed = s.narrowed
  BY <1>1 DEF run, Fields
<1> HIDE DEF r
<1>3. s.ids \in Nat /\ r.ids \in Nat
  BY <1>2 DEF Typed
<1>4. r.timers \subseteq TimersOf(r.ids) /\ r.calls \subseteq CallsOf(r.ids)
  BY <1>2, <1>3, MoreIds, Zenon DEF Typed
<1>5. \A t \in r.timers : t[1] = "heartbeat" => r.role = "leader"
  BY <1>2 DEF Typed
<1>6. Typed(r)
  BY <1>2, <1>3, <1>4, <1>5 DEF Typed
<1> QED BY <1>2, <1>6 DEF r

\* The other helpers.
LEMMA HelpersTyped ==
  ASSUME NEW s, Typed(s)
  PROVE  /\ \A T : Typed(cancel(s, T))
         /\ \A t : Typed(t) => Typed(lock(s, t))
         /\ \A C \in SUBSET s.calls : Typed([s EXCEPT !.calls = C])
         /\ \A v \in Int : Typed([s EXCEPT !.votes = v])
         /\ \A v \in Int : Typed([s EXCEPT !.voted = v])
<1>1. ASSUME NEW T PROVE Typed(cancel(s, T))
  BY DEF Typed, cancel, Fields
<1>2. ASSUME NEW t, Typed(t) PROVE Typed(lock(s, t))
  <2>1. ~ relock => Typed([s EXCEPT !.stuck = TRUE])
    BY DEF Typed, Fields
  <2> QED BY <1>2, <2>1 DEF lock
<1>3. ASSUME NEW C \in SUBSET s.calls PROVE Typed([s EXCEPT !.calls = C])
  BY DEF Typed, Fields
<1>4. ASSUME NEW v \in Int PROVE Typed([s EXCEPT !.votes = v])
  BY DEF Typed, Fields
<1>5. ASSUME NEW v \in Int PROVE Typed([s EXCEPT !.voted = v])
  BY DEF Typed, Fields
<1> QED BY <1>1, <1>2, <1>3, <1>4, <1>5

\* The calls that are sent carry the number of the timer started with them.
LEMMA SendTyped ==
  ASSUME NEW s, Typed(s)
  PROVE  Typed(send_request_vote_args(s)) /\ Typed(send_append_entries_args(s))
<1>1. ASSUME NEW w \in {"retry", "give_up"}, NEW m \in {"request_vote", "append_entries"},
             NEW r, DOMAIN r = Fields, r.calls = s.calls \cup ({<<m, s.ids + 1>>} \X Peers),
             LET q == run(s, w) IN
               /\ r.ids = q.ids /\ r.timers = q.timers
               /\ r.role = q.role /\ r.votes = q.votes /\ r.term = q.term /\ r.voted = q.voted
               /\ r.next = q.next /\ r.match = q.match /\ r.stuck = q.stuck /\ r.narrowed = q.narrowed
      PROVE  Typed(r)
  <2>1. Typed(run(s, w)) /\ run(s, w).ids = s.ids + 1
    BY RunTyped
  <2>2. s.ids \in Nat /\ s.calls \subseteq CallsOf(s.ids)
    BY DEF Typed
  <2>3. r.calls \subseteq CallsOf(r.ids)
    BY <1>1, <2>1, <2>2, MoreIds, Zenon
  <2> QED BY <1>1, <2>1, <2>3 DEF Typed
<1>2. DOMAIN s = Fields
  BY DEF Typed
<1>3. Typed(send_request_vote_args(s))
  <2> DEFINE r == send_request_vote_args(s)
             q == run(s, "retry")
  <2>1. DOMAIN q = Fields /\ q.calls = s.calls
    BY <1>2 DEF run, Fields
  <2>2. r = [q EXCEPT !.election = s.ids + 1,
                      !.calls = @ \cup ({<<"request_vote", s.ids + 1>>} \X Peers)]
    BY DEF send_request_vote_args
  <2> HIDE DEF q, r
  <2>3. /\ DOMAIN r = Fields /\ r.calls = s.calls \cup ({<<"request_vote", s.ids + 1>>} \X Peers)
        /\ r.ids = q.ids /\ r.timers = q.timers
        /\ r.role = q.role /\ r.votes = q.votes /\ r.term = q.term /\ r.voted = q.voted
        /\ r.next = q.next /\ r.match = q.match /\ r.stuck = q.stuck /\ r.narrowed = q.narrowed
    BY <2>1, <2>2 DEF Fields
  <2> QED BY <1>1, <2>3 DEF q, r
<1>4. Typed(send_append_entries_args(s))
  <2> DEFINE r == send_append_entries_args(s)
             q == run(s, "give_up")
  <2>0. CASE s.role # "leader"
    BY <2>0 DEF send_append_entries_args
  <2>1. DOMAIN q = Fields /\ q.calls = s.calls
    BY <1>2 DEF run, Fields
  <2>2. CASE s.role = "leader"
    <3>1. r = [q EXCEPT !.calls = @ \cup ({<<"append_entries", s.ids + 1>>} \X Peers)]
      BY <2>2 DEF send_append_entries_args
    <3> HIDE DEF q, r
    <3>2. /\ DOMAIN r = Fields /\ r.calls = s.calls \cup ({<<"append_entries", s.ids + 1>>} \X Peers)
          /\ r.ids = q.ids /\ r.timers = q.timers
          /\ r.role = q.role /\ r.votes = q.votes /\ r.term = q.term /\ r.voted = q.voted
          /\ r.next = q.next /\ r.match = q.match /\ r.stuck = q.stuck /\ r.narrowed = q.narrowed
      BY <2>1, <3>1 DEF Fields
    <3> QED BY <1>1, <3>2 DEF q, r
  <2> QED BY <2>0, <2>2
<1> QED BY <1>3, <1>4

\* convert_to(leader), with a log of any length.
LEMMA LeaderTyped ==
  ASSUME NEW s, Typed(s), Len(log_entries) \in Nat PROVE Typed(to_leader(s))
<1> DEFINE r == [s EXCEPT !.role = "leader", !.next = [p \in Peers |-> Len(log_entries) + 1],
                          !.match = [p \in Peers |-> 0]]
<1>1. DOMAIN s = Fields
  BY DEF Typed
<1>2. /\ DOMAIN r = Fields /\ r.role = "leader" /\ r.votes = s.votes /\ r.term = s.term
      /\ r.voted = s.voted /\ r.next = [p \in Peers |-> Len(log_entries) + 1]
      /\ r.match = [p \in Peers |-> 0] /\ r.ids = s.ids /\ r.timers = s.timers
      /\ r.calls = s.calls /\ r.stuck = s.stuck /\ r.narrowed = s.narrowed
  BY <1>1 DEF Fields
<1>3. Typed(run(r, "heartbeat"))
  <2> HIDE DEF r
  <2>1. r.next \in [Peers -> Int] /\ r.match \in [Peers -> Nat]
    BY <1>2
  <2>2. Typed(r)
    BY <1>2, <2>1 DEF Typed, Roles
  <2> QED BY <1>2, <2>2, RunTyped
<1>4. to_leader(s) = lock(s, run(r, "heartbeat"))
  BY DEF to_leader
<1> HIDE DEF r
<1> QED BY <1>3, <1>4, HelpersTyped

\* convert_to(follower) cancels the heartbeats of a leader.
LEMMA FollowerTyped ==
  ASSUME NEW s, Typed(s), NEW g \in Nums PROVE Typed(to_follower(s, g))
<1> DEFINE c == cancel(s, of_role(s))
           w == as_word(as_int(g))
           f == [c EXCEPT !.role = "follower", !.term = w, !.voted = Nobody,
                          !.narrowed = w # g]
           q == run(f, "election")
           r == reschedule_election(f)
<1>1. Typed(c)
  BY HelpersTyped
<1>2. \A t \in c.timers : t[1] # "heartbeat"
  <2>1. c.timers = s.timers \ of_role(s)
    BY DEF cancel, Typed, Fields
  <2> QED BY <2>1 DEF of_role, Typed
<1>3. Typed(f)
  <2> HIDE DEF c
  <2>1. DOMAIN c = Fields
    BY <1>1 DEF Typed
  <2>2. /\ DOMAIN f = Fields /\ f.role = "follower" /\ f.votes = c.votes /\ f.term = w
        /\ f.voted = Nobody /\ f.next = c.next /\ f.match = c.match /\ f.ids = c.ids
        /\ f.timers = c.timers /\ f.calls = c.calls /\ f.stuck = c.stuck
        /\ f.narrowed = (w # g)
    BY <2>1 DEF Fields
  <2> HIDE DEF f
  <2>3. w \in Word
    BY Widths
  <2> HIDE DEF w
  <2> QED BY <1>1, <1>2, <2>2, <2>3 DEF Typed, Roles, Nobody
<1>4. Typed(q)
  <2> HIDE DEF f
  <2> QED BY <1>3, RunTyped
<1>5. Typed(r)
  <2>1. r = [q EXCEPT !.election = f.ids + 1]
    BY DEF reschedule_election
  <2> HIDE DEF r, q
  <2>2. DOMAIN q = Fields
    BY <1>4 DEF Typed
  <2> QED BY <1>4, <2>1, <2>2 DEF Typed, Fields
<1>6. to_follower(s, g) = lock(c, r)
  BY DEF to_follower
<1> HIDE DEF c, r
<1> QED BY <1>1, <1>5, <1>6, HelpersTyped

-----------------------------------------------------------------------------

\* The clients that have counted an entry in last_applied_ and not yet applied
\* it: last_applied_ is not negative, since it counts these and the applied ones,
\* overlap or not.
Counted == {c \in Clients : client[c] \in {"call", "undo"}}

NowTyped == Typed(Now) /\ narrowed \in BOOLEAN

TypeInv ==
  /\ NowTyped
  /\ up \in BOOLEAN /\ (~ up => calls = {})
  /\ disk = Absent \/ disk \in [term : Word, voted_for : Int, size : Nat]
  /\ log_entries \in Seq([index : Nat, term : Word]) /\ Len(log_entries) <= MaxLog
  /\ last_applied = Len(applied) + Cardinality(Counted)

\* A message that makes the server step down leaves it typed.
LEMMA SteppedDownTyped ==
  ASSUME Typed(Now), NEW g \in Nums PROVE Typed(stepped_down(g))
BY FollowerTyped DEF stepped_down

\* A handler ends in a state that is typed.
LEMMA BecomesTyped ==
  ASSUME NEW s, Typed(s), Becomes(s), relock' = relock PROVE NowTyped'
<1>1. /\ role' = s.role /\ votes' = s.votes /\ current_term' = s.term /\ voted_for' = s.voted
      /\ next_index' = s.next /\ match_index' = s.match /\ timers' = s.timers
      /\ ids' = s.ids /\ calls' = s.calls /\ stuck' = s.stuck /\ narrowed' = s.narrowed
  BY DEF Becomes
<1> QED BY <1>1, Zenon DEF NowTyped, Typed, Now, Fields

\* The timers.
LEMMA TimerTyped == ASSUME Typed(Now), Timer PROVE NowTyped'
<1>1. CASE Heartbeat
  BY <1>1, SendTyped, BecomesTyped DEF Heartbeat, process
<1>2. ASSUME NEW t \in timers, ElectionTimeout(t) PROVE NowTyped'
  <2>1. Typed(send_request_vote_args(cancel(Now, {t})))
    BY HelpersTyped, SendTyped
  <2> QED BY <1>2, <2>1, BecomesTyped DEF ElectionTimeout, process
<1>3. ASSUME NEW t \in timers, Retry(t) \/ GiveUp(t) PROVE NowTyped'
  <2> DEFINE d == cancel(Now, {t})
             s(k) == [d EXCEPT !.calls = {c \in @ : c[1] # <<k, t[2]>>}]
  <2>1. Typed(d)
    BY HelpersTyped
  <2>2. \A k : Typed(s(k))
    <3> HIDE DEF d
    <3> QED BY <2>1, HelpersTyped
  <2>3. relock' = relock
    BY <1>3 DEF Retry, GiveUp, process
  <2>4. \/ Becomes(s("append_entries")) \/ Becomes(s("request_vote"))
        \/ Becomes(lock(s("request_vote"), send_request_vote_args(s("request_vote"))))
    BY <1>3 DEF Retry, GiveUp
  <2> HIDE DEF s
  <2>5. Typed(lock(s("request_vote"), send_request_vote_args(s("request_vote"))))
    BY <2>2, HelpersTyped, SendTyped
  <2> QED BY <2>2, <2>3, <2>4, <2>5, BecomesTyped
<1> QED BY <1>1, <1>2, <1>3 DEF Timer

\* The messages.
LEMMA ReceiveTyped ==
  ASSUME Typed(Now), narrowed \in BOOLEAN, Len(log_entries) \in Nat, Receive PROVE NowTyped'
<1>0. PICK g \in Nums :
        \/ RequestVote(g) \/ AppendEntries(g)
        \/ \E c \in calls : ReceiveRequestVoteReply(c, g) \/ ReceiveAppendEntriesReply(c, g)
  BY DEF Receive
<1>1. Typed(stepped_down(g)) /\ as_int(g) \in Int
  BY SteppedDownTyped, Widths
<1>2. CASE RequestVote(g)
  <2> DEFINE s == stepped_down(g)
  <2>1. Becomes(s) \/ Becomes([s EXCEPT !.voted = as_int(g)])
    BY <1>2 DEF RequestVote
  <2> HIDE DEF s
  <2>2. Typed(s) /\ Typed([s EXCEPT !.voted = as_int(g)])
    BY <1>1, HelpersTyped DEF s
  <2> QED BY <1>2, <2>1, <2>2, BecomesTyped DEF RequestVote, process
<1>3. CASE AppendEntries(g)
  BY <1>3, Zenon DEF AppendEntries, NowTyped, Typed, Now, server, process
<1>4. ASSUME NEW c \in calls, ReceiveRequestVoteReply(c, g) PROVE NowTyped'
  <2> DEFINE gone(r) == [r EXCEPT !.calls = @ \ {c}]
             s == gone(stepped_down(g))
             n == [s EXCEPT !.votes = @ + 1]
  <2>1. Typed(gone(Now)) /\ Typed(s)
    BY <1>1, HelpersTyped, Zenon
  <2>2. Becomes(IF role # "candidate" THEN gone(Now)
                ELSE IF s.stuck \/ g # s.term \/ g % UCHAR = 0 THEN s
                ELSE lock(n, IF n.votes >= majority THEN to_leader(n) ELSE n))
        /\ relock' = relock
    BY <1>4 DEF ReceiveRequestVoteReply, process
  <2> HIDE DEF gone, s
  <2>3. Typed(n)
    <3>1. s.votes + 1 \in Int
      BY <2>1 DEF Typed
    <3> QED BY <2>1, <3>1, HelpersTyped
  <2> HIDE DEF n
  <2>4. Typed(lock(n, IF n.votes >= majority THEN to_leader(n) ELSE n))
    BY <2>3, LeaderTyped, HelpersTyped
  <2> QED BY <2>1, <2>2, <2>4, BecomesTyped
<1>5. ASSUME NEW c \in calls, ReceiveAppendEntriesReply(c, g) PROVE NowTyped'
  <2> DEFINE p == c[2]
             gone(r) == [r EXCEPT !.calls = @ \ {c}]
             s == gone(stepped_down(g))
             d == [s EXCEPT !.next[p] = @ - 1]
             u == [s EXCEPT !.next[p] = @ + 1, !.match[p] = @ + 1]
             moved == IF g % UCHAR # 0 THEN u ELSE lock(d, send_append_entries_args(d))
  <2>1. Typed(gone(Now)) /\ Typed(s)
    BY <1>1, HelpersTyped, Zenon
  <2>2. \/ Becomes(gone(Now)) \/ Becomes(s) \/ Becomes(moved) \/ Becomes(lock(moved, moved))
    BY <1>5 DEF ReceiveAppendEntriesReply
  <2>3. relock' = relock
    BY <1>5 DEF ReceiveAppendEntriesReply, process
  <2>4. p \in Peers
    <3>1. calls \subseteq CallsOf(ids)
      BY DEF Typed, Now
    <3> QED BY <3>1 DEF CallsOf
  <2> HIDE DEF gone, s, p
  <2>5. DOMAIN s = Fields
    BY <2>1, Zenon DEF Typed
  <2>6. Typed(d) /\ Typed(u)
    <3>1. /\ DOMAIN d = Fields /\ d.next = [s.next EXCEPT ![p] = @ - 1]
          /\ d.role = s.role /\ d.votes = s.votes /\ d.term = s.term /\ d.voted = s.voted
          /\ d.match = s.match /\ d.ids = s.ids /\ d.timers = s.timers /\ d.calls = s.calls
          /\ d.stuck = s.stuck /\ d.narrowed = s.narrowed
      BY <2>5 DEF Fields
    <3>2. /\ DOMAIN u = Fields /\ u.next = [s.next EXCEPT ![p] = @ + 1]
          /\ u.match = [s.match EXCEPT ![p] = @ + 1]
          /\ u.role = s.role /\ u.votes = s.votes /\ u.term = s.term /\ u.voted = s.voted
          /\ u.ids = s.ids /\ u.timers = s.timers /\ u.calls = s.calls /\ u.stuck = s.stuck /\ u.narrowed = s.narrowed
      BY <2>5 DEF Fields
    <3> HIDE DEF d, u
    <3>3. /\ d.next \in [Peers -> Int] /\ u.next \in [Peers -> Int]
          /\ u.match \in [Peers -> Nat]
      <4>1. s.next \in [Peers -> Int] /\ s.match \in [Peers -> Nat]
        BY <2>1 DEF Typed
      <4> QED BY <2>4, <3>1, <3>2, <4>1
    <3>4. Typed(d)
      BY <2>1, <3>1, <3>3, Zenon DEF Typed
    <3>5. Typed(u)
      BY <2>1, <3>2, <3>3, Zenon DEF Typed
    <3> QED BY <3>4, <3>5
  <2> HIDE DEF d, u
  <2>7. Typed(moved)
    BY <2>6, HelpersTyped, SendTyped
  <2> HIDE DEF moved
  <2>8. Typed(lock(moved, moved))
    BY <2>7, HelpersTyped
  <2> QED BY <2>1, <2>2, <2>3, <2>7, <2>8, BecomesTyped
<1> QED BY <1>0, <1>2, <1>3, <1>4, <1>5

-----------------------------------------------------------------------------

\* A start: what it reads from the file is a term and a vote.
LEMMA StartTyped == ASSUME TypeInv, Start PROVE TypeInv'
<1>1. /\ up' = TRUE /\ ~ up /\ calls = {} /\ calls' = {} /\ disk' = disk
      /\ timers' = {<<"election", 1>>} /\ ids' = 1 /\ relock' = relock /\ stuck' = stuck /\ narrowed' = narrowed
      /\ next_index' = next_index /\ match_index' = match_index
      /\ UNCHANGED <<client, last_applied, applied>>
  BY DEF Start, TypeInv, applying
<1>2. role' \in Roles /\ votes' \in Int
  <2>1. role' \in Roles /\ votes' \in IF role' = "candidate" THEN SomeInt ELSE {0}
    BY DEF Start
  <2>2. SomeInt \subseteq Int
    BY Widths, Zenon DEF SomeInt
  <2> QED BY <2>1, <2>2
<1>3. current_term' \in Word /\ voted_for' \in Int
  <2>1. PICK x \in read_state_from_disk : current_term' = as_word(x.term) /\ voted_for' = x.voted_for
    BY DEF Start
  <2>2. disk = Absent \/ (disk.term \in Word /\ disk.voted_for \in Int /\ disk.size \in Nat)
    BY DEF TypeInv
  <2> QED BY <2>1, <2>2, ReadWords
<1>5. NowTyped'
  <2>1. timers' \subseteq TimersOf(1) /\ calls' \subseteq CallsOf(1)
    BY <1>1 DEF TimersOf
  <2>2. \A t \in timers' : t[1] # "heartbeat"
    BY <1>1
  <2>3. /\ next_index \in [Peers -> Int] /\ match_index \in [Peers -> Nat]
        /\ stuck \in BOOLEAN /\ (stuck => ~ relock) /\ narrowed \in BOOLEAN
    BY DEF TypeInv, NowTyped, Typed, Now
  <2> QED BY <1>1, <1>2, <1>3, <2>1, <2>2, <2>3, Zenon DEF NowTyped, Typed, Now, Fields
<1>6. last_applied' = Len(applied') + Cardinality(Counted')
  BY <1>1 DEF TypeInv, Counted
<1> QED BY <1>1, <1>5, <1>6, StartLog DEF TypeInv

\* A server that is down, before its first start or after a shutdown or a crash.
Nothing ==
  /\ role = "follower" /\ votes = 0 /\ current_term = 0 /\ voted_for = Nobody
  /\ log_entries = <<>> /\ last_applied = 0 /\ applied = <<>>
  /\ next_index = add_peers /\ match_index = add_peers
  /\ timers = {} /\ ids = 0 /\ calls = {}
  /\ client = [c \in Clients |-> "idle"] /\ stuck = FALSE /\ narrowed = FALSE /\ up = FALSE

\* It satisfies TypeInv, if the file does.
LEMMA NothingTyped ==
  Nothing /\ (disk = Absent \/ disk \in [term : Word, voted_for : Int, size : Nat]) => TypeInv
<1> SUFFICES ASSUME Nothing, disk = Absent \/ disk \in [term : Word, voted_for : Int, size : Nat]
             PROVE  TypeInv
  OBVIOUS
<1> USE DEF Nothing
<1>1. next_index \in [Peers -> Int] /\ match_index \in [Peers -> Nat]
  BY DEF add_peers
<1>2. votes \in Int /\ voted_for \in Int /\ current_term \in Word
  BY Widths DEF Nobody
<1>3. NowTyped
  BY <1>1, <1>2, Zenon DEF NowTyped, Typed, Now, Fields, Roles
<1>4. log_entries \in Seq([index : Nat, term : Word]) /\ Len(log_entries) <= MaxLog
  BY RaftAssumption
<1>5. Counted = {}
  BY DEF Counted
<1>6. last_applied = Len(applied) + Cardinality(Counted)
  BY <1>5, FS_EmptySet
<1> QED BY <1>3, <1>4, <1>6, Zenon DEF TypeInv

\* A server that goes down leaves nothing but the file.
LEMMA DownTyped == ASSUME TypeInv, Shutdown \/ Crash PROVE TypeInv'
<1>1. Nothing'
  BY DEF Shutdown, Crash, Down, Nothing, add_peers
<1>2. (disk = Absent \/ disk \in [term : Word, voted_for : Int, size : Nat])'
  <2>1. CASE Shutdown
    <3>1. current_term \in Word /\ voted_for \in Int
      BY DEF TypeInv, NowTyped, Typed, Now
    <3>2. Len(log_entries) \in Nat
      BY DEF TypeInv
    <3> QED BY <2>1, <3>1, <3>2 DEF Shutdown, persist_state_to_disk
  <2>2. CASE Crash
    BY <2>2 DEF Crash, TypeInv
  <2> QED BY <2>1, <2>2
<1> QED BY <1>1, <1>2, NothingTyped, PTL

\* The clients: each counts itself once in last_applied_ and takes itself out
\* once, by the entry it applied or by undoing the count.
LEMMA ClientTyped == ASSUME Inv, ApplyInv, TypeInv, Client PROVE TypeInv'
<1>0. PICK c \in Clients :
        Replicate(c) \/ ApplyCheck(c) \/ ApplyAdvance(c) \/ ApplyCall(c) \/ ApplyUndo(c)
  BY DEF Client
<1>1. UNCHANGED <<server, process>>
  BY <1>0 DEF Replicate, ApplyCheck, ApplyAdvance, ApplyCall, ApplyUndo
<1>2. NowTyped' /\ up' \in BOOLEAN /\ (~ up' => calls' = {})
      /\ (disk' = Absent \/ disk' \in [term : Word, voted_for : Int, size : Nat])
  BY <1>1, Zenon DEF TypeInv, NowTyped, Typed, Now, server, process
<1>3. log_entries' \in Seq([index : Nat, term : Word]) /\ Len(log_entries') <= MaxLog
  <2>1. CASE Replicate(c)
    <3> DEFINE e == [index |-> Len(log_entries), term |-> current_term]
    <3>1. log_entries' = Append(log_entries, e) /\ Len(log_entries) < MaxLog
      BY <2>1 DEF Replicate
    <3>2. log_entries \in Seq([index : Nat, term : Word]) /\ Len(log_entries) \in Nat
      BY DEF TypeInv
    <3>3. e \in [index : Nat, term : Word]
      BY <3>2, Zenon DEF TypeInv, NowTyped, Typed, Now
    <3> HIDE DEF e
    <3> QED BY <3>1, <3>2, <3>3, RaftAssumption
  <2>2. CASE ~ Replicate(c)
    BY <1>0, <2>2 DEF ApplyCheck, ApplyAdvance, ApplyCall, ApplyUndo, TypeInv
  <2> QED BY <2>1, <2>2
<1>4. /\ client \in [Clients -> {"idle", "check"} \cup Inside]
      /\ last_applied \in Int /\ applied \in Seq(Int) /\ Len(applied) \in Nat
      /\ last_applied = Len(applied) + Cardinality(Counted)
  BY DEF ApplyInv, TypeInv
<1>5. IsFiniteSet(Counted) /\ Cardinality(Counted) \in Nat
  <2>1. Counted \in SUBSET Clients
    BY DEF Counted
  <2> QED BY <2>1, RaftAssumption, FS_Subset, FS_CardinalityType
<1>6. ASSUME NEW v, client' = [client EXCEPT ![c] = v]
      PROVE  /\ v \in {"call", "undo"} => Counted' = Counted \cup {c}
             /\ v \notin {"call", "undo"} => Counted' = Counted \ {c}
             /\ c \in Counted <=> client[c] \in {"call", "undo"}
  BY <1>4, <1>6 DEF Counted
<1>7. /\ Cardinality(Counted \cup {c}) = IF c \in Counted THEN Cardinality(Counted)
                                          ELSE Cardinality(Counted) + 1
      /\ Cardinality(Counted \ {c}) = IF c \in Counted THEN Cardinality(Counted) - 1
                                       ELSE Cardinality(Counted)
  BY <1>5, FS_AddElement, FS_RemoveElement, Zenon
<1>8. last_applied' = Len(applied') + Cardinality(Counted')
  <2>1. CASE Replicate(c) \/ ApplyCheck(c)
    <3>1. \E v \in {"idle", "check", "advance"} : client' = [client EXCEPT ![c] = v]
      BY <2>1 DEF Replicate, ApplyCheck
    <3>2. client[c] \in {"idle", "check"} /\ UNCHANGED <<last_applied, applied>>
      BY <2>1 DEF Replicate, ApplyCheck
    <3> QED BY <1>4, <1>6, <1>7, <3>1, <3>2, Zenon
  <2>2. CASE ApplyAdvance(c)
    <3>1. /\ client' = [client EXCEPT ![c] = "call"] /\ client[c] = "advance"
          /\ last_applied' = last_applied + 1 /\ applied' = applied
      BY <2>2 DEF ApplyAdvance
    <3>2. Cardinality(Counted') = Cardinality(Counted) + 1
      BY <1>6, <1>7, <3>1, Zenon
    <3> QED BY <1>4, <1>5, <3>1, <3>2
  <2>3. CASE ApplyCall(c)
    <3>1. client[c] = "call" /\ last_applied' = last_applied
      BY <2>3 DEF ApplyCall
    <3>2. CASE applied' = Append(applied, last_applied) /\ client' = [client EXCEPT ![c] = "idle"]
      <4>1. Len(applied') = Len(applied) + 1
        BY <1>4, <3>2
      <4>2. Cardinality(Counted') = Cardinality(Counted) - 1
        <5>1. "idle" \notin {"call", "undo"}
          OBVIOUS
        <5>2. Counted' = Counted \ {c} /\ c \in Counted
          BY <1>6, <3>1, <3>2, <5>1, Zenon
        <5> QED BY <1>7, <5>2
      <4> QED BY <1>4, <1>5, <3>1, <4>1, <4>2
    <3>3. CASE client' = [client EXCEPT ![c] = "undo"] /\ UNCHANGED applied
      <4>1. Cardinality(Counted') = Cardinality(Counted)
        BY <1>6, <1>7, <3>1, <3>3, Zenon
      <4> QED BY <1>4, <3>1, <3>3, <4>1
    <3> QED BY <2>3, <3>2, <3>3 DEF ApplyCall
  <2>4. CASE ApplyUndo(c)
    <3>1. /\ client' = [client EXCEPT ![c] = "idle"] /\ client[c] = "undo"
          /\ last_applied' = last_applied - 1 /\ applied' = applied
      BY <2>4 DEF ApplyUndo, undone
    <3>2. Cardinality(Counted') = Cardinality(Counted) - 1
      <4>1. "idle" \notin {"call", "undo"}
        OBVIOUS
      <4>2. Counted' = Counted \ {c} /\ c \in Counted
        BY <1>6, <3>1, <4>1, Zenon
      <4> QED BY <1>7, <4>2
    <3> QED BY <1>4, <1>5, <3>1, <3>2
  <2> QED BY <1>0, <2>1, <2>2, <2>3, <2>4
<1> QED BY <1>2, <1>3, <1>8 DEF TypeInv

\* Every step keeps the types.
THEOREM TypeInvariance == Spec => []TypeInv
<1>1. Init => TypeInv
  <2> SUFFICES ASSUME Init PROVE TypeInv
    OBVIOUS
  <2>1. Nothing /\ disk = Absent
    BY DEF Init, Nothing
  <2> QED BY <2>1, NothingTyped
<1>2. Inv /\ ApplyInv /\ TypeInv /\ [Next]_vars => TypeInv'
  <2> SUFFICES ASSUME Inv, ApplyInv, TypeInv, [Next]_vars PROVE TypeInv'
    OBVIOUS
  <2>1. CASE UNCHANGED vars
    BY <2>1, Zenon DEF TypeInv, NowTyped, Typed, Now, Counted, vars, server, process, applying
  <2>2. CASE Timer \/ Receive
    <3>1. up /\ up' = up /\ disk' = disk /\ UNCHANGED <<applying, log_entries>>
      <4>1. CASE Timer
        BY <4>1, Zenon DEF Timer, Heartbeat, ElectionTimeout, Retry, GiveUp, process
      <4>2. CASE Receive
        <5>1. PICK g \in Nums :
                \/ RequestVote(g) \/ AppendEntries(g)
                \/ \E c \in calls : ReceiveRequestVoteReply(c, g) \/ ReceiveAppendEntriesReply(c, g)
          BY <4>2 DEF Receive
        <5>2. CASE RequestVote(g) \/ AppendEntries(g)
          BY <5>2 DEF RequestVote, AppendEntries, process
        <5>3. ASSUME NEW c \in calls,
                     ReceiveRequestVoteReply(c, g) \/ ReceiveAppendEntriesReply(c, g)
              PROVE  up /\ up' = up /\ disk' = disk /\ UNCHANGED <<applying, log_entries>>
          BY <5>3 DEF ReceiveRequestVoteReply, ReceiveAppendEntriesReply, process
        <5> QED BY <5>1, <5>2, <5>3
      <4> QED BY <2>2, <4>1, <4>2
    <3>2. NowTyped'
      <4>1. Typed(Now) /\ narrowed \in BOOLEAN /\ Len(log_entries) \in Nat
        BY DEF TypeInv, NowTyped
      <4> QED BY <2>2, <4>1, TimerTyped, ReceiveTyped
    <3>3. client' = client /\ last_applied' = last_applied /\ applied' = applied
      BY <3>1 DEF applying
    <3> QED BY <3>1, <3>2, <3>3 DEF TypeInv, Counted
  <2> QED BY <2>1, <2>2, StartTyped, DownTyped, ClientTyped DEF Next
<1> QED BY <1>1, <1>2, Invariance, ApplyInvariance, PTL DEF Spec

\* The variables keep their types, last_applied_ never goes below zero although
\* failed calls take it back without a lock, the server gets stuck on a
\* std::mutex only, and heartbeats are pending in leaders only.
THEOREM TypeCorrect == Spec => []TypeOK
<1>1. Inv /\ ApplyInv /\ TypeInv => TypeOK
  <2> SUFFICES ASSUME Inv, ApplyInv, TypeInv PROVE TypeOK
    OBVIOUS
  <2>1. /\ role \in Roles /\ votes \in Int /\ current_term \in Word /\ voted_for \in Int
        /\ next_index \in [Peers -> Int] /\ match_index \in [Peers -> Nat]
        /\ timers \subseteq TimersOf(ids) /\ calls \subseteq CallsOf(ids)
        /\ stuck \in BOOLEAN /\ (stuck => ~ relock) /\ narrowed \in BOOLEAN
        /\ ((\E t \in timers : t[1] = "heartbeat") => role = "leader")
    BY Zenon DEF TypeInv, NowTyped, Typed, Now
  <2>2. last_applied \in Nat
    <3>1. Counted \in SUBSET Clients
      BY DEF Counted
    <3>2. Cardinality(Counted) \in Nat
      BY <3>1, RaftAssumption, FS_Subset, FS_CardinalityType
    <3>3. Len(applied) \in Nat /\ last_applied = Len(applied) + Cardinality(Counted)
      BY DEF ApplyInv, TypeInv
    <3> QED BY <3>2, <3>3
  <2>3. /\ log_entries \in Seq([index : Nat, term : Word]) /\ Len(log_entries) <= MaxLog
        /\ commit_index \in Nat /\ up \in BOOLEAN /\ overlap \in BOOLEAN
    BY DEF TypeInv, Inv, ApplyInv
  <2>4. client \in [Clients -> {"idle", "check", "advance", "call", "undo"}]
    <3>1. {"idle", "check"} \cup Inside = {"idle", "check", "advance", "call", "undo"}
      BY DEF Inside
    <3> QED BY <3>1 DEF ApplyInv
  <2> QED BY <2>1, <2>2, <2>3, <2>4, Zenon DEF TypeOK, TimersOf, CallsOf
<1> QED BY <1>1, Invariance, ApplyInvariance, TypeInvariance, PTL
=============================================================================
