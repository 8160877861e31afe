---------------------------- MODULE LockManager ----------------------------
(***************************************************************************)
(* transaction/lock_manager.cc over transaction/lock_table.cc.  Every      *)
(* transaction is a thread.  A section under one mutex is one step; what   *)
(* happens before, between and after the sections is a step of its own.    *)
(*                                                                         *)
(* Two kinds of memory are used without being initialised: the pointers of *)
(* table_, and item, current_lock_mode and shared_lock_cnt of a lock_entry *)
(* (its constructor is empty and add sets none of them).  Both are chosen  *)
(* arbitrarily here.  An access through a junk or freed pointer ends the   *)
(* process or goes on with what the memory still holds; one through a null *)
(* pointer ends it.  A behaviour may stop at any state, so that the end of *)
(* the process needs no action.                                            *)
(***************************************************************************)
EXTENDS Integers, Sequences, FiniteSets

CONSTANTS
    Txns,        \* transactions, a thread each
    Items,       \* data items that get locked
    Buckets,     \* positions of table_
    hash,        \* lock_table::hash, a function from Items to Buckets
    Addrs,       \* addresses that new lock_entry() can return
    Junk,        \* what the uninitialised members of a new entry may hold
    MaxLocks,    \* bound: calls of lock
    NULL         \* the null pointer

Modes == {"none", "shared", "exclusive"}

Request == [txn : Txns, mode : Modes \ {"none"}, granted : BOOLEAN]

Entry == [wait_list : Seq(Request), current_lock_mode : Modes,
          shared_lock_cnt : Int, item : Items \cup {NULL}]

ASSUME TableAssumption ==
    IsFiniteSet(Txns) /\ hash \in [Items -> Buckets] /\ NULL \notin Addrs

\* The list of a new entry is constructed, the other members are not.
ASSUME JunkAssumption ==
    Junk \subseteq [wait_list : {<<>>}, current_lock_mode : Modes,
                  shared_lock_cnt : Int, item : Items \cup {NULL}]

VARIABLES
    heap,    \* the lock_entry last at each address
    live,    \* addresses not deleted
    table,   \* the chain of entries of each bucket
    tail,    \* what ends the chain: "null", or a "junk" pointer of new[]
    pc,      \* where each transaction is
    ptr,     \* its variable entry
    arg,     \* the item and mode of its call
    calls,   \* calls of lock still to be made
    own,     \* locks that calls of lock gave, as the callers see it
    lapses   \* history: which of the defects below have occurred

vars == <<heap, live, table, tail, pc, ptr, arg, calls, own, lapses>>

(***************************************************************************)
(* lapses, each of which voids the lock manager's promises:                *)
(*   "entry"    a new entry's item or count is not what it should be       *)
(*   "record"   an unlock found no record to remove                        *)
(*   "freed"    an entry was deleted with records or in use by a thread    *)
(*   "upgrade"  a transaction locked an item that it owned already         *)
(*   "nested"   a transaction asked for a lock while it owned another      *)
(***************************************************************************)
Lapses == {"entry", "record", "freed", "upgrade", "nested"}

NoCall == [item |-> NULL, mode |-> "none"]

\* search: the first entry of the chain whose item is the one looked for.
search(i) ==
    LET c == table[hash[i]]
        hits == {k \in DOMAIN c : heap[c[k]].item = i}
    IN IF hits = {} THEN NULL ELSE c[CHOOSE k \in hits : \A j \in hits : k <= j]

\* The elements of s that are not x, in their order.
without(s, x) ==
    LET f[n \in 0 .. Len(s)] ==
          IF n = 0 THEN <<>> ELSE IF s[n] = x THEN f[n - 1] ELSE Append(f[n - 1], s[n])
    IN f[Len(s)]

\* The chain c without entry a.
unlink_not(c, a) == c
unlink(c, a) == without(c, a)

\* wait_list.remove(x)
removeRecord(s, x) == without(s, x)

\* The first record of transaction t, 0 if there is none.
place(s, t) ==
    LET ks == {k \in DOMAIN s : s[k].txn = t}
    IN IF ks = {} THEN 0 ELSE CHOOSE k \in ks : \A j \in ks : k <= j

\* The predicate of the wait, without its assignments.
grantable_unordered(s, t, mode) ==
    LET k == place(s, t) IN
    /\ k > 0
    /\ mode = "exclusive" => k = 1
    /\ mode = "shared" => \A j \in 1 .. k - 1 : s[j].mode = "shared"
grantable_any_mode(s, t, mode) ==
    LET k == place(s, t) IN
    /\ k > 0
    /\ mode = "exclusive" => k = 1
    /\ mode = "shared" => \A j \in 1 .. k - 1 : s[j].granted
grantable(s, t, mode) ==
    LET k == place(s, t) IN
    /\ k > 0
    /\ mode = "exclusive" => k = 1
    /\ mode = "shared" => \A j \in 1 .. k - 1 : s[j].mode = "shared" /\ s[j].granted

Waiting(a) == {t \in Txns : pc[t] = "wait" /\ ptr[t] = a}

notify_all_nobody(p, a) == p
notify_all(p, a) == [t \in Txns |-> IF t \in Waiting(a) THEN "test" ELSE p[t]]

\* Points of lock and unlock after which the entry is still used.
Inside == {"push", "test", "wait", "release", "notify", "size"}

\* What is wrong with the call lock(t, _, i) before it starts.
Misuse(t, i) ==
    {x \in {"upgrade", "nested"} :
       \E k \in Items : own[t][k] # "none" /\ x = (IF k = i THEN "upgrade" ELSE "nested")}

Init ==
    /\ heap = [a \in Addrs |-> [wait_list |-> <<>>, current_lock_mode |-> "none",
                               shared_lock_cnt |-> 0, item |-> NULL]]
    /\ live = {}
    /\ table = [b \in Buckets |-> <<>>]
    /\ tail \in [Buckets -> {"null", "junk"}]
    /\ pc = [t \in Txns |-> "idle"]
    /\ ptr = [t \in Txns |-> NULL]
    /\ arg = [t \in Txns |-> NoCall]
    /\ calls = MaxLocks
    /\ own = [t \in Txns |-> [i \in Items |-> "none"]]
    /\ lapses = {}

\* lock_table::add: the entry found, or a new one at the head of its chain,
\* where head->prev = entry needs something to write to.
add(t, i) ==
    LET b == hash[i] IN
    \/ /\ search(i) # NULL
       /\ ptr' = [ptr EXCEPT ![t] = search(i)]
       /\ lapses' = lapses \cup Misuse(t, i)
       /\ UNCHANGED <<heap, live, table>>
    \/ /\ search(i) = NULL
       /\ table[b] # <<>> \/ tail[b] = "junk"
       /\ \E a \in Addrs \ live, e \in Junk :
            /\ heap' = [heap EXCEPT ![a] = e]
            /\ live' = live \cup {a}
            /\ table' = [table EXCEPT ![b] = <<a>> \o @]
            /\ ptr' = [ptr EXCEPT ![t] = a]
            /\ lapses' = lapses \cup Misuse(t, i)
                                \cup (IF e.item = i /\ e.shared_lock_cnt = 0 THEN {} ELSE {"entry"})

Lock(t, i, m) ==
    /\ pc[t] = "idle" /\ calls > 0
    /\ add(t, i)
    /\ arg' = [arg EXCEPT ![t] = [item |-> i, mode |-> m]]
    /\ calls' = calls - 1
    /\ pc' = [pc EXCEPT ![t] = "push"]
    /\ UNCHANGED <<tail, own>>

\* The first critical section of lock.
Push(t) ==
    /\ pc[t] = "push"
    /\ heap' = [heap EXCEPT ![ptr[t]].wait_list =
                  Append(@, [txn |-> t, mode |-> arg[t].mode, granted |-> FALSE])]
    /\ pc' = [pc EXCEPT ![t] = "test"]
    /\ UNCHANGED <<live, table, tail, ptr, arg, calls, own, lapses>>

\* The predicate holds: the record is granted and lock returns.  A shared
\* lock wakes the others before the mutex is released.
Grant(t) ==
    LET a == ptr[t]
        m == arg[t].mode
        s == heap[a].wait_list
        r == [txn |-> t, mode |-> m, granted |-> TRUE]
        p == [pc EXCEPT ![t] = "idle"]
    IN /\ pc[t] = "test" /\ grantable(s, t, m)
       /\ heap' = [heap EXCEPT ![a].wait_list[place(s, t)] = r,
                     ![a].current_lock_mode = IF m = "exclusive" THEN m ELSE @,
                     ![a].shared_lock_cnt = IF m = "shared" THEN @ + 1 ELSE @]
       /\ pc' = IF m = "shared" THEN notify_all(p, a) ELSE p
       /\ own' = [own EXCEPT ![t][arg[t].item] = m]
       /\ arg' = [arg EXCEPT ![t] = NoCall]
       /\ ptr' = [ptr EXCEPT ![t] = NULL]
       /\ UNCHANGED <<live, table, tail, calls, lapses>>

Sleep(t) ==
    /\ pc[t] = "test" /\ place(heap[ptr[t]].wait_list, t) > 0
    /\ ~grantable(heap[ptr[t]].wait_list, t, arg[t].mode)
    /\ pc' = [pc EXCEPT ![t] = "wait"]
    /\ UNCHANGED <<heap, live, table, tail, ptr, arg, calls, own, lapses>>

SpuriousWakeup(t) ==
    /\ pc[t] = "wait"
    /\ pc' = [pc EXCEPT ![t] = "test"]
    /\ UNCHANGED <<heap, live, table, tail, ptr, arg, calls, own, lapses>>

\* unlock of an item the transaction owns; the search takes no mutex.
Unlock(t, i) ==
    /\ pc[t] = "idle" /\ own[t][i] # "none"
    /\ ptr' = [ptr EXCEPT ![t] = search(i)]
    /\ arg' = [arg EXCEPT ![t] = [item |-> i, mode |-> "none"]]
    /\ own' = [own EXCEPT ![t][i] = "none"]
    /\ pc' = [pc EXCEPT ![t] = "release"]
    /\ UNCHANGED <<heap, live, table, tail, calls, lapses>>

\* What the critical section of unlock does to the entry, and when it sets
\* need_notify.
unshared(e) ==
    [e EXCEPT !.shared_lock_cnt = IF e.current_lock_mode = "shared" THEN @ - 1 ELSE @]
need_notify_shared(e) == e.current_lock_mode = "shared" /\ unshared(e).shared_lock_cnt = 0
need_notify(e) ==
    \/ e.current_lock_mode = "shared" /\ unshared(e).shared_lock_cnt = 0
    \/ e.current_lock_mode = "exclusive"
release(e, t) ==
    [unshared(e) EXCEPT
       !.wait_list = removeRecord(@, [txn |-> t, mode |-> e.current_lock_mode, granted |-> TRUE]),
       !.current_lock_mode = IF need_notify(e) THEN "none" ELSE @]

Release(t) ==
    LET e == heap[ptr[t]] IN
    /\ pc[t] = "release" /\ ptr[t] # NULL
    /\ heap' = [heap EXCEPT ![ptr[t]] = release(e, t)]
    /\ pc' = [pc EXCEPT ![t] = IF need_notify(e) THEN "notify" ELSE "size"]
    /\ lapses' = IF release(e, t).wait_list = e.wait_list
                 THEN lapses \cup {"record"} ELSE lapses
    /\ UNCHANGED <<live, table, tail, ptr, arg, calls, own>>

Notify(t) ==
    /\ pc[t] = "notify"
    /\ pc' = notify_all([pc EXCEPT ![t] = "size"], ptr[t])
    /\ UNCHANGED <<heap, live, table, tail, ptr, arg, calls, own, lapses>>

\* wait_list.size() == 0, read without the mutex.
Size(t) ==
    /\ pc[t] = "size"
    /\ LET empty == heap[ptr[t]].wait_list = <<>> IN
       /\ pc' = [pc EXCEPT ![t] = IF empty THEN "remove" ELSE "idle"]
       /\ arg' = [arg EXCEPT ![t] = IF empty THEN @ ELSE NoCall]
    /\ ptr' = [ptr EXCEPT ![t] = NULL]
    /\ UNCHANGED <<heap, live, table, tail, calls, own, lapses>>

\* lock_table::remove, whichever entry now answers to the item.
Remove(t) ==
    LET i == arg[t].item
        a == search(i)
    IN /\ pc[t] = "remove"
       /\ pc' = [pc EXCEPT ![t] = "idle"]
       /\ arg' = [arg EXCEPT ![t] = NoCall]
       /\ live' = live \ {a}
       /\ table' = [table EXCEPT ![hash[i]] = unlink(@, a)]
       /\ lapses' = IF a # NULL /\ (\/ heap[a].wait_list # <<>>
                                    \/ \E u \in Txns : pc[u] \in Inside /\ ptr[u] = a)
                    THEN lapses \cup {"freed"} ELSE lapses
       /\ UNCHANGED <<heap, tail, ptr, calls, own>>

Step(t) ==
    \/ Push(t) \/ Grant(t) \/ Sleep(t) \/ Release(t) \/ Notify(t) \/ Size(t) \/ Remove(t)
    \/ \E i \in Items : Unlock(t, i)

Next ==
    \E t \in Txns :
      \/ Step(t)
      \/ SpuriousWakeup(t)
      \/ \E i \in Items, m \in Modes \ {"none"} : Lock(t, i, m)

\* A thread that can run runs, a mutex is granted in the end, and an owner
\* unlocks in the end; nobody has to call lock.
Spec == Init /\ [][Next]_vars /\ \A t \in Txns : WF_vars(Step(t))

-----------------------------------------------------------------------------

TypeOK ==
    /\ heap \in [Addrs -> Entry]
    /\ live \subseteq Addrs
    /\ table \in [Buckets -> Seq(live)]
    /\ pc \in [Txns -> Inside \cup {"idle", "remove"}]
    /\ ptr \in [Txns -> Addrs \cup {NULL}]
    /\ arg \in [Txns -> [item : Items \cup {NULL}, mode : Modes]]
    /\ own \in [Txns -> [Items -> Modes]]
    /\ lapses \subseteq Lapses

\* As long as entries are initialised by luck, records are found, no entry is
\* deleted in use and nobody upgrades, two transactions never own conflicting
\* locks, whatever the interleaving of lock and unlock.
NoConflict ==
    lapses \subseteq {"nested"} =>
      \A t, u \in Txns, i \in Items :
        t # u /\ own[t][i] = "exclusive" => own[u][i] = "none"

\* A record becomes granted only when every record before it is granted, in
\* every behaviour: the order of wait_list is never overtaken.
GrantsInOrder ==
    [][\A a \in Addrs : \A k \in DOMAIN heap[a].wait_list :
         LET s == heap[a].wait_list
             n == heap'[a].wait_list
         IN Len(n) = Len(s) /\ ~s[k].granted /\ n[k].granted
              => \A j \in 1 .. k - 1 : s[j].granted]_vars

\* A transaction asleep in lock whose predicate holds will be woken: somebody
\* is about to notify the entry.
NoLostWakeup ==
    lapses \subseteq {"nested"} =>
      \A t \in Txns :
        pc[t] = "wait" /\ grantable(heap[ptr[t]].wait_list, t, arg[t].mode)
          => \E u \in Txns : pc[u] = "notify" /\ ptr[u] = ptr[t]

\* "freedom from starvation": with no lapse, every request is granted in the
\* end, provided that owners unlock.
NoStarvation ==
    \A t \in Txns : pc[t] = "push" ~> pc[t] = "idle" \/ lapses # {}

=============================================================================
