-------------------------- MODULE LockSafetyProofs --------------------------
(***************************************************************************)
(* Mutual exclusion and wakeups of the lock manager.  As long as no lapse  *)
(* but "nested" has occurred, the table has one entry for each item in     *)
(* use, its list tells who owns the item and who waits for it, and whoever *)
(* sleeps without need is about to be notified.                            *)
(***************************************************************************)
EXTENDS LockManagerProofs, FiniteSetTheorems

\* The defects that void the promises have not occurred.
Sound == lapses \subseteq {"nested"}

\* One entry for each item.
Single == \A i \in Items : \A a, b \in Addrs : Serves(a, i) /\ Serves(b, i) => a = b

\* Threads inside lock and unlock have the entry of their item.
AtEntry == \A t \in Txns : pc[t] \in Inside => Serves(ptr[t], arg[t].item)

\* Who asks for an item, or gives it back, does not own it.
Asking ==
  \A t \in Txns : pc[t] \in {"push", "test", "wait", "release"} => own[t][arg[t].item] = "none"

\* Owners have a granted record.
Backed ==
  \A t \in Txns, i \in Items : own[t][i] # "none" =>
    \E a \in Addrs : Serves(a, i)
      /\ [txn |-> t, mode |-> own[t][i], granted |-> TRUE] \in Elems(heap[a].wait_list)

\* Record r in the list of entry a, which serves item i: who is granted owns
\* the item or is about to be taken out, the others are testing or asleep.
TellsOf(r, a, i) ==
  IF r.granted
  THEN own[r.txn][i] = r.mode \/ (pc[r.txn] = "release" /\ ptr[r.txn] = a)
  ELSE pc[r.txn] \in {"test", "wait"} /\ ptr[r.txn] = a /\ arg[r.txn].mode = r.mode

\* The list of entry a, and its count.
ListOK(a, i) ==
  /\ InOrder(heap[a].wait_list)
  /\ \A r \in Elems(heap[a].wait_list) : TellsOf(r, a, i)
  /\ heap[a].shared_lock_cnt = Cardinality(Sharers(heap[a].wait_list))

Listed == \A i \in Items, a \in Addrs : Serves(a, i) => ListOK(a, i)

\* Whoever sleeps although it could go on will be notified.
Woken ==
  \A t \in Txns :
    pc[t] = "wait" /\ grantable(heap[ptr[t]].wait_list, t, arg[t].mode)
      => \E u \in Txns : pc[u] = "notify" /\ ptr[u] = ptr[t]

Good == ShapeInv /\ Single /\ AtEntry /\ Asking /\ Backed /\ Listed /\ Woken

\* The inductive invariant.
SoundInv == ShapeInv /\ (Sound => Good)

-----------------------------------------------------------------------------
(* What a step of thread t leaves alone.                                    *)

\* The other threads stay where they are, or are woken.
Others(t) ==
  \A u \in Txns \ {t} :
    /\ pc'[u] = pc[u] \/ (pc[u] = "wait" /\ pc'[u] = "test")
    /\ ptr'[u] = ptr[u] /\ arg'[u] = arg[u] /\ own'[u] = own[u]

\* The entries serve the items they served.
SameEntries == table' = table /\ \A a \in Addrs : heap'[a].item = heap[a].item

\* An entry that serves an item is in use, and the item is one.
LEMMA ServesTyped ==
  ASSUME ShapeInv, NEW i \in Items, NEW a, Serves(a, i)
  PROVE  a \in live /\ a \in Addrs /\ heap[a] \in Entry /\ heap[a].wait_list \in Seq(Request)
         /\ heap[a].item = i
<1>1. hash[i] \in Buckets
  BY TableAssumption
<1>2. table[hash[i]] \in Seq(live) /\ live \subseteq Addrs
  BY <1>1 DEF ShapeInv, Chained
<1>3. a \in live
  BY <1>2, ElemsNone DEF Serves
<1> QED BY <1>2, <1>3 DEF Serves, ShapeInv, Entry

\* Such a step keeps which entry serves which item.
LEMMA SameServes ==
  ASSUME SameEntries, NEW a \in Addrs, NEW i PROVE Serves(a, i)' <=> Serves(a, i)
BY DEF SameEntries, Serves

\* Single is about the entries only.
LEMMA SingleKept ==
  ASSUME SameEntries, Single PROVE Single'
<1> SUFFICES ASSUME NEW i \in Items, NEW a \in Addrs, NEW b \in Addrs, Serves(a, i)', Serves(b, i)'
             PROVE  a = b
  BY DEF Single
<1>1. Serves(a, i) /\ Serves(b, i)
  BY SameServes
<1> QED BY <1>1 DEF Single

\* The threads but t have the entry of their item as before.
LEMMA AtEntryKept ==
  ASSUME ShapeInv, SameEntries, AtEntry, NEW t \in Txns, Others(t),
         pc'[t] \in Inside => /\ ptr'[t] \in Addrs
                             /\ Serves(ptr'[t], arg'[t].item)
  PROVE  AtEntry'
<1> SUFFICES ASSUME NEW u \in Txns, pc'[u] \in Inside
             PROVE  Serves(ptr[u], arg[u].item)'
  BY DEF AtEntry
<1>1. CASE u = t
  BY <1>1 DEF SameEntries, Serves
<1>2. CASE u # t
  <2>1. pc[u] \in Inside /\ ptr'[u] = ptr[u] /\ arg'[u] = arg[u]
    BY <1>2 DEF Others, Inside
  <2>2. Serves(ptr[u], arg[u].item) /\ arg[u].item \in Items
    BY <2>1 DEF AtEntry, ShapeInv, Threaded, Inside
  <2>3. ptr[u] \in Addrs
    BY <2>2, ServesTyped
  <2> QED BY <2>1, <2>2, <2>3 DEF SameEntries, Serves
<1> QED BY <1>1, <1>2

\* The threads but t ask for what they asked for.
LEMMA AskingKept ==
  ASSUME Asking, NEW t \in Txns, Others(t),
         pc'[t] \in {"push", "test", "wait", "release"} => own'[t][arg'[t].item] = "none"
  PROVE  Asking'
<1> SUFFICES ASSUME NEW u \in Txns, pc'[u] \in {"push", "test", "wait", "release"}
             PROVE  own'[u][arg'[u].item] = "none"
  BY DEF Asking
<1>1. CASE u # t
  BY <1>1 DEF Asking, Others
<1> QED BY <1>1

\* Granted records stay in their lists, and nobody becomes an owner.
LEMMA BackedKept ==
  ASSUME SameEntries, Backed,
         \A u \in Txns, i \in Items : own'[u][i] # "none" => own'[u][i] = own[u][i],
         \A a \in Addrs : \A r \in Elems(heap[a].wait_list) : r.granted => r \in Elems(heap'[a].wait_list)
  PROVE  Backed'
<1> SUFFICES ASSUME NEW u \in Txns, NEW i \in Items, own'[u][i] # "none"
             PROVE  \E a \in Addrs : Serves(a, i)'
                      /\ [txn |-> u, mode |-> own'[u][i], granted |-> TRUE] \in Elems(heap'[a].wait_list)
  BY Zenon DEF Backed
<1>1. own'[u][i] = own[u][i]
  OBVIOUS
<1>2. PICK a \in Addrs : Serves(a, i)
         /\ [txn |-> u, mode |-> own[u][i], granted |-> TRUE] \in Elems(heap[a].wait_list)
  BY <1>1 DEF Backed
<1>3. [txn |-> u, mode |-> own[u][i], granted |-> TRUE].granted
  OBVIOUS
<1>4. [txn |-> u, mode |-> own'[u][i], granted |-> TRUE] \in Elems(heap'[a].wait_list)
  BY <1>1, <1>2, <1>3
<1> QED BY <1>2, <1>4, SameServes

\* The records of the other threads tell what they told.
LEMMA OthersTell ==
  ASSUME NEW t \in Txns, Others(t), NEW r \in Request, r.txn # t, NEW a, NEW i, TellsOf(r, a, i)
  PROVE  TellsOf(r, a, i)'
<1>1. r.txn \in Txns \ {t}
  BY DEF Request
<1> QED BY <1>1 DEF TellsOf, Others

\* A thread that is in neither wait nor release has only the records of what it
\* owns.
LEMMA OwnTells ==
  ASSUME NEW t \in Txns, pc[t] \notin {"test", "wait", "release"}, NEW r \in Request, r.txn = t,
         NEW a, NEW i, TellsOf(r, a, i), own'[t][i] = own[t][i]
  PROVE  TellsOf(r, a, i)'
BY DEF TellsOf

\* A list that does not change stays right.
LEMMA ListKept ==
  ASSUME NEW t \in Txns, Others(t), NEW a, NEW i, ListOK(a, i),
         heap[a].wait_list \in Seq(Request),
         heap'[a].wait_list = heap[a].wait_list, heap'[a].shared_lock_cnt = heap[a].shared_lock_cnt,
         \A r \in Elems(heap[a].wait_list) : r.txn = t => TellsOf(r, a, i)'
  PROVE  ListOK(a, i)'
<1>1. Elems(heap[a].wait_list) \subseteq Request
  BY ElemsNone
<1>2. ASSUME NEW r \in Elems(heap[a].wait_list) PROVE TellsOf(r, a, i)'
  BY <1>1, OthersTell DEF ListOK
<1> QED BY <1>2 DEF ListOK

\* Who sleeps sleeps at the same list as before, and t was not about to notify.
LEMMA WokenKept ==
  ASSUME Woken, NEW t \in Txns, Others(t), pc[t] # "notify",
         \A u \in Txns \ {t} : pc[u] = "wait" => heap'[ptr[u]].wait_list = heap[ptr[u]].wait_list,
         pc'[t] = "wait" => ~ grantable(heap'[ptr'[t]].wait_list, t, arg'[t].mode)
  PROVE  Woken'
<1> SUFFICES ASSUME NEW u \in Txns, pc'[u] = "wait", grantable(heap'[ptr'[u]].wait_list, u, arg'[u].mode)
             PROVE  \E v \in Txns : pc'[v] = "notify" /\ ptr'[v] = ptr'[u]
  BY DEF Woken
<1>1. u # t
  OBVIOUS
<1>2. pc[u] = "wait" /\ ptr'[u] = ptr[u] /\ arg'[u] = arg[u]
  BY <1>1 DEF Others
<1>3. PICK v \in Txns : pc[v] = "notify" /\ ptr[v] = ptr[u]
  BY <1>1, <1>2 DEF Woken
<1>4. v # t /\ pc'[v] = "notify" /\ ptr'[v] = ptr[v]
  BY <1>3 DEF Others
<1> QED BY <1>2, <1>3, <1>4

-----------------------------------------------------------------------------
(* The actions, one lemma each.                                             *)

\* A thread goes to sleep only if its predicate is false, and wakes at any time.
LEMMA SleepGood ==
  ASSUME Good, ShapeInv', NEW t \in Txns, Sleep(t) \/ SpuriousWakeup(t) PROVE Good'
<1>1. /\ pc[t] \in {"test", "wait"} /\ UNCHANGED <<heap, live, table, ptr, arg, own>>
      /\ pc' = [pc EXCEPT ![t] = "wait"] \/ pc' = [pc EXCEPT ![t] = "test"]
  BY DEF Sleep, SpuriousWakeup
<1>2. pc \in [Txns -> Inside \cup {"idle", "remove"}]
  BY DEF Good, ShapeInv, Threaded
<1>3. Others(t) /\ SameEntries /\ pc'[t] \in {"test", "wait"}
  BY <1>1, <1>2 DEF Others, SameEntries
<1>4. Single' /\ Backed'
  BY <1>1, <1>3, SingleKept, BackedKept DEF Good
<1>5. AtEntry'
  <2>1. pc[t] \in Inside /\ Serves(ptr[t], arg[t].item) /\ ptr[t] \in Addrs
    BY <1>1 DEF Good, AtEntry, Inside, ShapeInv, Threaded
  <2> QED BY <1>1, <1>3, <2>1, AtEntryKept DEF Good
<1>6. Asking'
  <2>1. own[t][arg[t].item] = "none"
    BY <1>1 DEF Good, Asking
  <2> QED BY <1>1, <1>3, <2>1, AskingKept DEF Good
<1>7. Listed'
  <2> SUFFICES ASSUME NEW i \in Items, NEW a \in Addrs, Serves(a, i)' PROVE ListOK(a, i)'
    BY DEF Listed
  <2>1. Serves(a, i) /\ ListOK(a, i)
    BY <1>3, SameServes DEF Good, Listed
  <2>2. heap[a].wait_list \in Seq(Request)
    BY <2>1, ServesTyped DEF Good
  <2>3. ASSUME NEW r \in Elems(heap[a].wait_list), r.txn = t PROVE TellsOf(r, a, i)'
    <3>1. TellsOf(r, a, i)
      BY <2>1 DEF ListOK
    <3> QED BY <1>1, <1>3, <2>3, <3>1 DEF TellsOf
  <2> QED BY <1>1, <1>3, <2>1, <2>2, <2>3, ListKept
<1>8. Woken'
  <2>1. ASSUME pc'[t] = "wait" PROVE ~ grantable(heap'[ptr'[t]].wait_list, t, arg'[t].mode)
    BY <1>2, <2>1 DEF Sleep, SpuriousWakeup
  <2> QED BY <1>1, <1>3, <2>1, WokenKept DEF Good
<1> QED BY <1>4, <1>5, <1>6, <1>7, <1>8 DEF Good

\* An unlock finds the entry that holds the record of its thread.
LEMMA UnlockGood ==
  ASSUME Good, ShapeInv', NEW t \in Txns, NEW i \in Items, Unlock(t, i) PROVE Good'
<1> DEFINE a == search(i)
<1>1. /\ pc[t] = "idle" /\ own[t][i] # "none" /\ UNCHANGED <<heap, live, table>>
      /\ ptr' = [ptr EXCEPT ![t] = a]
      /\ arg' = [arg EXCEPT ![t] = [item |-> i, mode |-> "none"]]
      /\ own' = [own EXCEPT ![t][i] = "none"]
      /\ pc' = [pc EXCEPT ![t] = "release"]
  BY DEF Unlock
<1>2. Threaded /\ ShapeInv
  BY DEF Good, ShapeInv
<1>3. /\ pc'[t] = "release" /\ ptr'[t] = a /\ arg'[t].item = i
      /\ own'[t][i] = "none" /\ \A j \in Items : j # i => own'[t][j] = own[t][j]
  BY <1>1, <1>2 DEF Threaded
<1>4. Others(t) /\ SameEntries
  BY <1>1, <1>2 DEF Others, SameEntries, Threaded
<1>5. Serves(a, i) /\ a \in Addrs
  <2>1. \E b \in Addrs : Serves(b, i)
    BY <1>1, Zenon DEF Good, Backed
  <2> QED BY <1>2, <2>1, SearchFinds DEF ShapeInv, Chained
<1> HIDE DEF a
<1>6. Single'
  BY <1>4, SingleKept DEF Good
<1>7. AtEntry'
  BY <1>2, <1>3, <1>4, <1>5, AtEntryKept DEF Good
<1>8. Asking'
  BY <1>3, <1>4, AskingKept DEF Good
<1>9. Backed'
  <2>1. ASSUME NEW u \in Txns, NEW j \in Items, own'[u][j] # "none" PROVE own'[u][j] = own[u][j]
    BY <1>3, <1>4, <2>1 DEF Others
  <2> QED BY <1>1, <1>4, <2>1, BackedKept DEF Good
<1>10. Listed'
  <2> SUFFICES ASSUME NEW j \in Items, NEW b \in Addrs, Serves(b, j)' PROVE ListOK(b, j)'
    BY DEF Listed
  <2>1. Serves(b, j) /\ ListOK(b, j)
    BY <1>4, SameServes DEF Good, Listed
  <2>2. heap[b].wait_list \in Seq(Request)
    BY <1>2, <2>1, ServesTyped
  <2>3. ASSUME NEW r \in Elems(heap[b].wait_list), r.txn = t PROVE TellsOf(r, b, j)'
    <3>1. TellsOf(r, b, j) /\ r \in Request
      BY <2>1, <2>2, ElemsNone DEF ListOK
    <3>2. CASE j = i
      <4>1. b = a
        BY <1>5, <2>1, <3>2 DEF Good, Single
      <4>2. r.granted
        BY <1>1, <2>3, <3>1 DEF TellsOf
      <4> QED BY <1>3, <2>3, <4>1, <4>2 DEF TellsOf
    <3>3. CASE j # i
      BY <1>1, <1>3, <2>3, <3>1, <3>3, OwnTells
    <3> QED BY <3>2, <3>3
  <2> QED BY <1>1, <1>4, <2>1, <2>2, <2>3, ListKept
<1>11. Woken'
  BY <1>1, <1>3, <1>4, WokenKept DEF Good
<1> QED BY <1>6, <1>7, <1>8, <1>9, <1>10, <1>11 DEF Good

\* After a notification nobody sleeps at the entry.
LEMMA NotifyGood ==
  ASSUME Good, ShapeInv', NEW t \in Txns, Notify(t) PROVE Good'
<1> DEFINE p == [pc EXCEPT ![t] = "size"]
<1>1. pc[t] = "notify" /\ UNCHANGED <<heap, live, table, ptr, arg, own>> /\ pc' = notify_all(p, ptr[t])
  BY DEF Notify
<1>2. Threaded /\ ShapeInv
  BY DEF Good, ShapeInv
<1>3. ASSUME NEW u \in Txns
      PROVE  pc'[u] = IF u = t THEN "size" ELSE IF pc[u] = "wait" /\ ptr[u] = ptr[t] THEN "test" ELSE pc[u]
  <2>1. p \in [Txns -> Inside \cup {"idle", "remove"}] /\ p[u] = IF u = t THEN "size" ELSE pc[u]
    BY <1>2 DEF Threaded, Inside
  <2> HIDE DEF p
  <2>2. pc'[u] = IF pc[u] = "wait" /\ ptr[u] = ptr[t] THEN "test" ELSE p[u]
    BY <1>1, <2>1, Wakes
  <2> QED BY <1>1, <2>1, <2>2
<1>4. Others(t) /\ SameEntries
  BY <1>1, <1>3, Zenon DEF Others, SameEntries
<1>5. Single' /\ Backed'
  BY <1>1, <1>4, SingleKept, BackedKept DEF Good
<1>6. AtEntry'
  <2>1. Serves(ptr[t], arg[t].item) /\ ptr[t] \in Addrs
    BY <1>1, <1>2 DEF Good, AtEntry, Inside, Threaded
  <2> QED BY <1>1, <1>2, <1>4, <2>1, AtEntryKept DEF Good
<1>7. Asking'
  <2>1. pc'[t] = "size"
    BY <1>3
  <2> QED BY <1>4, <2>1, AskingKept DEF Good
<1>8. Listed'
  <2> SUFFICES ASSUME NEW i \in Items, NEW a \in Addrs, Serves(a, i)' PROVE ListOK(a, i)'
    BY DEF Listed
  <2>1. Serves(a, i) /\ ListOK(a, i)
    BY <1>4, SameServes DEF Good, Listed
  <2>2. heap[a].wait_list \in Seq(Request)
    BY <1>2, <2>1, ServesTyped
  <2>3. ASSUME NEW r \in Elems(heap[a].wait_list), r.txn = t PROVE TellsOf(r, a, i)'
    <3>1. TellsOf(r, a, i) /\ r \in Request
      BY <2>1, <2>2, ElemsNone DEF ListOK
    <3> QED BY <1>1, <2>3, <3>1, OwnTells
  <2> QED BY <1>1, <1>4, <2>1, <2>2, <2>3, ListKept
<1>9. Woken'
  <2> SUFFICES ASSUME NEW u \in Txns, pc'[u] = "wait", grantable(heap[ptr[u]].wait_list, u, arg[u].mode)
               PROVE  \E v \in Txns : pc'[v] = "notify" /\ ptr[v] = ptr[u]
    BY <1>1, Zenon DEF Woken
  <2>1. u # t /\ pc[u] = "wait" /\ ptr[u] # ptr[t]
    BY <1>3
  <2>2. PICK v \in Txns : pc[v] = "notify" /\ ptr[v] = ptr[u]
    BY <2>1 DEF Good, Woken
  <2> QED BY <1>3, <2>1, <2>2
<1> QED BY <1>5, <1>6, <1>7, <1>8, <1>9 DEF Good

\* The look at the size ends the use of the entry.
LEMMA SizeGood ==
  ASSUME Good, ShapeInv', NEW t \in Txns, Size(t) PROVE Good'
<1>1. /\ pc[t] = "size" /\ UNCHANGED <<heap, live, table, own>> /\ ptr' = [ptr EXCEPT ![t] = NULL]
      /\ pc' = [pc EXCEPT ![t] = "remove"] \/ pc' = [pc EXCEPT ![t] = "idle"]
      /\ \E g : arg' = [arg EXCEPT ![t] = g]
  BY Zenon DEF Size
<1>2. Threaded /\ ShapeInv
  BY DEF Good, ShapeInv
<1>3. pc'[t] \in {"remove", "idle"}
  BY <1>1, <1>2 DEF Threaded
<1>4. Others(t) /\ SameEntries
  BY <1>1, <1>2 DEF Others, SameEntries, Threaded
<1>5. Single' /\ Backed'
  BY <1>1, <1>4, SingleKept, BackedKept DEF Good
<1>6. AtEntry' /\ Asking'
  BY <1>2, <1>3, <1>4, AtEntryKept, AskingKept DEF Good, Inside
<1>7. Listed'
  <2> SUFFICES ASSUME NEW i \in Items, NEW a \in Addrs, Serves(a, i)' PROVE ListOK(a, i)'
    BY DEF Listed
  <2>1. Serves(a, i) /\ ListOK(a, i)
    BY <1>4, SameServes DEF Good, Listed
  <2>2. heap[a].wait_list \in Seq(Request)
    BY <1>2, <2>1, ServesTyped
  <2>3. ASSUME NEW r \in Elems(heap[a].wait_list), r.txn = t PROVE TellsOf(r, a, i)'
    <3>1. TellsOf(r, a, i) /\ r \in Request
      BY <2>1, <2>2, ElemsNone DEF ListOK
    <3> QED BY <1>1, <2>3, <3>1, OwnTells
  <2> QED BY <1>1, <1>4, <2>1, <2>2, <2>3, ListKept
<1>8. Woken'
  BY <1>1, <1>3, <1>4, WokenKept DEF Good
<1> QED BY <1>5, <1>6, <1>7, <1>8 DEF Good

\* A call of lock that finds the entry: without the lapse "upgrade" the caller
\* does not own the item.
LEMMA LockFoundGood ==
  ASSUME Good, ShapeInv', Sound', NEW t \in Txns, NEW i \in Items, NEW m \in Modes \ {"none"},
         Lock(t, i, m), search(i) # NULL
  PROVE  Good'
<1> DEFINE a == search(i)
<1>1. /\ pc[t] = "idle" /\ UNCHANGED <<heap, live, table, own>>
      /\ ptr' = [ptr EXCEPT ![t] = a]
      /\ arg' = [arg EXCEPT ![t] = [item |-> i, mode |-> m]]
      /\ pc' = [pc EXCEPT ![t] = "push"]
      /\ lapses' = lapses \cup Misuse(t, i)
  BY DEF Lock, add
<1>2. Threaded /\ ShapeInv
  BY DEF Good, ShapeInv
<1>3. pc'[t] = "push" /\ ptr'[t] = a /\ arg'[t].item = i
  BY <1>1, <1>2 DEF Threaded
<1>4. Others(t) /\ SameEntries
  BY <1>1, <1>2 DEF Others, SameEntries, Threaded
<1>5. Serves(a, i) /\ a \in Addrs
  BY <1>2, SearchFinds DEF ShapeInv, Chained
<1>6. own[t][i] = "none"
  <2>1. "upgrade" \notin Misuse(t, i)
    BY <1>1 DEF Sound
  <2> QED BY <2>1 DEF Misuse
<1> HIDE DEF a
<1>7. Single' /\ Backed'
  BY <1>1, <1>4, SingleKept, BackedKept DEF Good
<1>8. AtEntry'
  BY <1>2, <1>3, <1>4, <1>5, AtEntryKept DEF Good
<1>9. Asking'
  BY <1>1, <1>3, <1>4, <1>6, AskingKept DEF Good
<1>10. Listed'
  <2> SUFFICES ASSUME NEW j \in Items, NEW b \in Addrs, Serves(b, j)' PROVE ListOK(b, j)'
    BY DEF Listed
  <2>1. Serves(b, j) /\ ListOK(b, j)
    BY <1>4, SameServes DEF Good, Listed
  <2>2. heap[b].wait_list \in Seq(Request)
    BY <1>2, <2>1, ServesTyped
  <2>3. ASSUME NEW r \in Elems(heap[b].wait_list), r.txn = t PROVE TellsOf(r, b, j)'
    <3>1. TellsOf(r, b, j) /\ r \in Request
      BY <2>1, <2>2, ElemsNone DEF ListOK
    <3> QED BY <1>1, <2>3, <3>1, OwnTells
  <2> QED BY <1>1, <1>4, <2>1, <2>2, <2>3, ListKept
<1>11. Woken'
  BY <1>1, <1>3, <1>4, WokenKept DEF Good
<1> QED BY <1>7, <1>8, <1>9, <1>10, <1>11 DEF Good

\* A call of lock that finds no entry: without the lapse "entry" the new one is
\* as if it had been initialised.
LEMMA LockNewGood ==
  ASSUME Good, ShapeInv', Sound', NEW t \in Txns, NEW i \in Items, NEW m \in Modes \ {"none"},
         Lock(t, i, m), search(i) = NULL
  PROVE  Good'
<1>1. PICK a \in Addrs \ live, e \in Junk :
         /\ heap' = [heap EXCEPT ![a] = e]
         /\ table' = [table EXCEPT ![hash[i]] = <<a>> \o @]
         /\ ptr' = [ptr EXCEPT ![t] = a]
         /\ lapses' = lapses \cup Misuse(t, i)
                             \cup (IF e.item = i /\ e.shared_lock_cnt = 0 THEN {} ELSE {"entry"})
  BY Zenon DEF Lock, add
<1>2. /\ pc[t] = "idle" /\ own' = own
      /\ arg' = [arg EXCEPT ![t] = [item |-> i, mode |-> m]]
      /\ pc' = [pc EXCEPT ![t] = "push"]
  BY DEF Lock
<1>3. Threaded /\ ShapeInv /\ Chained /\ hash \in [Items -> Buckets]
  BY TableAssumption DEF Good, ShapeInv
<1>4. pc'[t] = "push" /\ ptr'[t] = a /\ arg'[t].item = i
  BY <1>1, <1>2, <1>3 DEF Threaded
<1>5. Others(t)
  BY <1>1, <1>2, <1>3 DEF Others, Threaded
<1>6. e.item = i /\ e.shared_lock_cnt = 0 /\ e.wait_list = <<>>
  <2>1. "entry" \notin lapses'
    BY DEF Sound
  <2> QED BY <1>1, <2>1, JunkAssumption
<1>7. own[t][i] = "none"
  <2>1. "upgrade" \notin Misuse(t, i)
    BY <1>1 DEF Sound
  <2> QED BY <2>1 DEF Misuse
<1>8. heap'[a] = e /\ \A b \in Addrs : b # a => heap'[b] = heap[b]
  BY <1>1, <1>3 DEF ShapeInv
<1>9. ASSUME NEW j \in Items, NEW b \in Addrs
      PROVE  Serves(b, j)' <=> (b = a /\ j = i) \/ (b # a /\ Serves(b, j))
  <2>1. hash[j] \in Buckets /\ hash[i] \in Buckets
    BY <1>3
  <2>2. table[hash[j]] \in Seq(live) /\ table[hash[i]] \in Seq(live) /\ live \subseteq Addrs
    BY <1>3, <2>1 DEF Chained
  <2>3. a \notin Elems(table[hash[j]])
    BY <2>2, ElemsNone
  <2>4. Elems(table'[hash[j]]) = IF hash[j] = hash[i] THEN Elems(table[hash[j]]) \cup {a} ELSE Elems(table[hash[j]])
    <3>1. table[hash[i]] \in Seq(Addrs)
      BY <2>2, ElemsNone, SeqOf
    <3>2. Elems(<<a>> \o table[hash[i]]) = Elems(table[hash[i]]) \cup {a}
      BY <3>1, ElemsPrepend
    <3> QED BY <1>1, <1>3, <2>1, <3>2, Zenon DEF Chained
  <2>5. CASE b = a
    BY <1>6, <1>8, <2>3, <2>4, <2>5 DEF Serves
  <2>6. CASE b # a
    BY <1>8, <2>4, <2>6 DEF Serves
  <2> QED BY <2>5, <2>6
<1>10. \A b : \A j \in Items : Serves(b, j) => b # a /\ b \in Addrs /\ j # i
  BY <1>3, ServesTyped, SearchFinds DEF Chained
<1>11. Single'
  BY <1>9, <1>10 DEF Good, Single
<1>12. AtEntry'
  <2> SUFFICES ASSUME NEW u \in Txns, pc'[u] \in Inside
               PROVE  Serves(ptr[u], arg[u].item)'
    BY DEF AtEntry
  <2>1. CASE u = t
    <3>1. Serves(a, i)'
      BY <1>9
    <3> QED BY <1>4, <2>1, <3>1 DEF Serves
  <2>2. CASE u # t
    <3>1. pc[u] \in Inside /\ ptr'[u] = ptr[u] /\ arg'[u] = arg[u]
      BY <1>5, <2>2 DEF Others, Inside
    <3>2. Serves(ptr[u], arg[u].item) /\ arg[u].item \in Items
      BY <1>3, <3>1 DEF Good, AtEntry, Threaded, Inside
    <3>3. ptr[u] # a /\ ptr[u] \in Addrs
      BY <1>10, <3>2
    <3>4. PICK b, j : b = ptr[u] /\ j = arg[u].item
      OBVIOUS
    <3>5. Serves(b, j)'
      BY <1>9, <3>2, <3>3, <3>4
    <3> QED BY <3>1, <3>4, <3>5 DEF Serves
  <2> QED BY <2>1, <2>2
<1>13. Asking'
  BY <1>2, <1>4, <1>5, <1>7, AskingKept DEF Good
<1>14. Backed'
  <2> SUFFICES ASSUME NEW u \in Txns, NEW j \in Items, own[u][j] # "none"
               PROVE  \E b \in Addrs : Serves(b, j)'
                        /\ [txn |-> u, mode |-> own[u][j], granted |-> TRUE] \in Elems(heap'[b].wait_list)
    BY <1>2 DEF Backed
  <2>1. PICK b \in Addrs : Serves(b, j)
           /\ [txn |-> u, mode |-> own[u][j], granted |-> TRUE] \in Elems(heap[b].wait_list)
    BY DEF Good, Backed
  <2>2. b # a
    BY <1>10, <2>1
  <2> QED BY <1>8, <1>9, <2>1, <2>2
<1>15. Listed'
  <2> SUFFICES ASSUME NEW j \in Items, NEW b \in Addrs, Serves(b, j)' PROVE ListOK(b, j)'
    BY DEF Listed
  <2>1. CASE b = a
    <3>1. heap'[b].wait_list = <<>> /\ heap'[b].shared_lock_cnt = 0
      BY <1>6, <1>8, <2>1
    <3>2. Sharers(<<>>) = {} /\ Cardinality({}) = 0 /\ Elems(<<>>) = {}
      BY ElemsNone, FS_EmptySet DEF Sharers
    <3>3. InOrder(<<>>)
      BY DEF InOrder
    <3> QED BY <3>1, <3>2, <3>3, Zenon DEF ListOK
  <2>2. CASE b # a
    <3>1. Serves(b, j) /\ ListOK(b, j)
      BY <1>9, <2>2 DEF Good, Listed
    <3>2. heap[b].wait_list \in Seq(Request)
      BY <1>3, <3>1, ServesTyped
    <3>3. ASSUME NEW r \in Elems(heap[b].wait_list), r.txn = t PROVE TellsOf(r, b, j)'
      <4>1. TellsOf(r, b, j) /\ r \in Request
        BY <3>1, <3>2, ElemsNone DEF ListOK
      <4> QED BY <1>2, <3>3, <4>1, OwnTells
    <3> QED BY <1>5, <1>8, <2>2, <3>1, <3>2, <3>3, ListKept
  <2> QED BY <2>1, <2>2
<1>16. Woken'
  <2>1. ASSUME NEW u \in Txns, pc[u] = "wait" PROVE heap'[ptr[u]].wait_list = heap[ptr[u]].wait_list
    <3>1. Serves(ptr[u], arg[u].item) /\ arg[u].item \in Items
      BY <1>3, <2>1 DEF Good, AtEntry, Threaded, Inside
    <3> QED BY <1>8, <1>10, <3>1
  <2> QED BY <1>2, <1>4, <1>5, <2>1, WokenKept DEF Good
<1> QED BY <1>11, <1>12, <1>13, <1>14, <1>15, <1>16 DEF Good

\* A removal: without the lapse "freed" the entry has no record and no user.
LEMMA RemoveGood ==
  ASSUME Good, ShapeInv', Sound', NEW t \in Txns, Remove(t) PROVE Good'
<1> DEFINE i == arg[t].item
           a == search(i)
<1>1. /\ pc[t] = "remove" /\ UNCHANGED <<heap, ptr, own>>
      /\ pc' = [pc EXCEPT ![t] = "idle"] /\ arg' = [arg EXCEPT ![t] = NoCall]
      /\ table' = [table EXCEPT ![hash[i]] = without(@, a)]
      /\ lapses' = IF a # NULL /\ (\/ heap[a].wait_list # <<>>
                                    \/ \E u \in Txns : pc[u] \in Inside /\ ptr[u] = a)
                   THEN lapses \cup {"freed"} ELSE lapses
  BY DEF Remove, unlink
<1>2. Threaded /\ ShapeInv /\ Chained /\ hash \in [Items -> Buckets] /\ NULL \notin Addrs
  BY TableAssumption DEF Good, ShapeInv
<1>3. i \in Items
  BY <1>1, <1>2 DEF Threaded
<1>4. pc'[t] = "idle" /\ Others(t)
  BY <1>1, <1>2 DEF Others, Threaded
<1>5. a \in Addrs => heap[a].wait_list = <<>> /\ \A u \in Txns : ~ (pc[u] \in Inside /\ ptr[u] = a)
  BY <1>1, <1>2, Zenon DEF Sound
<1>6. a = NULL \/ a \in Elems(table[hash[i]])
  BY <1>2, <1>3, SearchFinds DEF Chained, Serves
<1> HIDE DEF a, i
<1>7. ASSUME NEW j \in Items, NEW b \in Addrs
      PROVE  Serves(b, j)' <=> b # a /\ Serves(b, j)
  <2>1. hash[j] \in Buckets /\ hash[i] \in Buckets
    BY <1>2, <1>3
  <2>2. table[hash[j]] \in Seq(live) /\ table[hash[i]] \in Seq(live) /\ live \subseteq Addrs
    BY <1>2, <2>1 DEF Chained
  <2>3. Elems(without(table[hash[i]], a)) = Elems(table[hash[i]]) \ {a}
    BY <2>2, ElemsWithout
  <2>4. CASE hash[j] = hash[i]
    <3>1. table'[hash[j]] = without(table[hash[i]], a)
      BY <1>1, <1>2, <2>1, <2>4 DEF Chained
    <3> QED BY <1>1, <2>3, <2>4, <3>1 DEF Serves
  <2>5. CASE hash[j] # hash[i]
    <3>1. table'[hash[j]] = table[hash[j]]
      BY <1>1, <1>2, <2>1, <2>5 DEF Chained
    <3>2. a \notin Elems(table[hash[j]])
      <4>1. Elems(table[hash[j]]) \subseteq Addrs
        BY <2>2, ElemsNone
      <4> QED BY <1>2, <1>6, <2>1, <2>5, <4>1 DEF Chained
    <3> QED BY <1>1, <3>1, <3>2 DEF Serves
  <2> QED BY <2>4, <2>5
<1>8. Single'
  BY <1>7 DEF Good, Single
<1>9. AtEntry'
  <2> SUFFICES ASSUME NEW u \in Txns, pc'[u] \in Inside
               PROVE  Serves(ptr[u], arg[u].item)'
    BY DEF AtEntry
  <2>1. u # t
    BY <1>4 DEF Inside
  <2>2. pc[u] \in Inside /\ ptr'[u] = ptr[u] /\ arg'[u] = arg[u]
    BY <1>4, <2>1 DEF Others, Inside
  <2>3. Serves(ptr[u], arg[u].item) /\ arg[u].item \in Items
    BY <1>2, <2>2 DEF Good, AtEntry, Threaded, Inside
  <2>4. ptr[u] \in Addrs
    BY <1>2, <2>3, ServesTyped
  <2>5. PICK b, j : b = ptr[u] /\ j = arg[u].item
    OBVIOUS
  <2>6. Serves(b, j)'
    BY <1>5, <1>7, <2>2, <2>3, <2>4, <2>5
  <2> QED BY <2>2, <2>5, <2>6 DEF Serves
<1>10. Asking'
  BY <1>4, AskingKept DEF Good
<1>11. Backed'
  <2> SUFFICES ASSUME NEW u \in Txns, NEW j \in Items, own[u][j] # "none"
               PROVE  \E b \in Addrs : Serves(b, j)'
                        /\ [txn |-> u, mode |-> own[u][j], granted |-> TRUE] \in Elems(heap[b].wait_list)
    BY <1>1 DEF Backed
  <2>1. PICK b \in Addrs : Serves(b, j)
           /\ [txn |-> u, mode |-> own[u][j], granted |-> TRUE] \in Elems(heap[b].wait_list)
    BY DEF Good, Backed
  <2>2. b # a
    BY <1>5, <2>1, ElemsNone
  <2> QED BY <1>7, <2>1, <2>2
<1>12. Listed'
  <2> SUFFICES ASSUME NEW j \in Items, NEW b \in Addrs, Serves(b, j)' PROVE ListOK(b, j)'
    BY DEF Listed
  <2>1. Serves(b, j) /\ ListOK(b, j)
    BY <1>7 DEF Good, Listed
  <2>2. heap[b].wait_list \in Seq(Request)
    BY <1>2, <2>1, ServesTyped
  <2>3. ASSUME NEW r \in Elems(heap[b].wait_list), r.txn = t PROVE TellsOf(r, b, j)'
    <3>1. TellsOf(r, b, j) /\ r \in Request
      BY <2>1, <2>2, ElemsNone DEF ListOK
    <3> QED BY <1>1, <2>3, <3>1, OwnTells
  <2> QED BY <1>1, <1>4, <2>1, <2>2, <2>3, ListKept
<1>13. Woken'
  BY <1>1, <1>4, WokenKept DEF Good
<1> QED BY <1>8, <1>9, <1>10, <1>11, <1>12, <1>13 DEF Good

\* A thread that does not own the item of an entry, and does not wait for it or
\* give it back, has no record there.
LEMMA NoRecord ==
  ASSUME Good, NEW t \in Txns, NEW i \in Items, NEW a, Serves(a, i), own[t][i] = "none",
         NEW r \in Elems(heap[a].wait_list), r.txn = t
  PROVE  /\ r \in Request
         /\ r.granted => pc[t] = "release" /\ ptr[t] = a
         /\ ~ r.granted => pc[t] \in {"test", "wait"} /\ ptr[t] = a /\ arg[t].mode = r.mode
<1>1. a \in Addrs /\ heap[a].wait_list \in Seq(Request)
  BY ServesTyped DEF Good
<1>2. TellsOf(r, a, i) /\ r \in Request
  BY <1>1, ElemsNone DEF Good, Listed, ListOK
<1>3. r.mode # "none"
  BY <1>2 DEF Request
<1> QED BY <1>2, <1>3 DEF TellsOf

\* A request goes to the end of the list: its thread has no record there.
LEMMA PushGood ==
  ASSUME Good, ShapeInv', NEW t \in Txns, Push(t) PROVE Good'
<1> DEFINE a == ptr[t]
           i == arg[t].item
           m == arg[t].mode
           s == heap[a].wait_list
           x == [txn |-> t, mode |-> m, granted |-> FALSE]
           n == heap'[a].wait_list
<1>1. pc[t] = "push" /\ UNCHANGED <<table, ptr, arg, own>> /\ pc' = [pc EXCEPT ![t] = "test"]
  BY DEF Push
<1>2. Threaded /\ ShapeInv
  BY DEF Good, ShapeInv
<1>3. a \in Addrs /\ i \in Items /\ m \in Modes \ {"none"} /\ heap[a] \in Entry /\ Serves(a, i)
      /\ own[t][i] = "none"
  BY <1>1, <1>2 DEF Threaded, ShapeInv, Good, AtEntry, Inside, Asking
<1>4. s \in Seq(Request)
  BY <1>3 DEF Entry
<1>5. /\ n = Append(s, x) /\ heap'[a].item = heap[a].item /\ heap'[a].shared_lock_cnt = heap[a].shared_lock_cnt
      /\ \A b \in Addrs : b # a => heap'[b] = heap[b]
  <2>1. heap' = [heap EXCEPT ![a] = pushed(heap[a], t, m)]
    BY <1>2, OneEntry
  <2>2. heap'[a] = pushed(heap[a], t, m) /\ \A b \in Addrs : b # a => heap'[b] = heap[b]
    BY <1>2, <1>3, <2>1 DEF ShapeInv
  <2> QED BY <1>3, <2>2 DEF pushed, Entry
<1>6. pc'[t] = "test" /\ Others(t) /\ SameEntries
  BY <1>1, <1>2, <1>5, Zenon DEF Others, SameEntries, Threaded
<1>7. \A r \in Elems(s) : r.txn # t
  <2> SUFFICES ASSUME NEW r \in Elems(s), r.txn = t PROVE FALSE
    OBVIOUS
  <2>1. /\ r.granted => pc[t] = "release"
        /\ ~ r.granted => pc[t] \in {"test", "wait"}
    BY <1>3, NoRecord, Zenon
  <2> QED BY <1>1, <2>1
<1>8. InOrder(s) /\ ListOK(a, i)
  BY <1>3, Zenon DEF Good, Listed, ListOK
<1> HIDE DEF a, i, m
<1>9. /\ n \in Seq(Request) /\ InOrder(n) /\ Sharers(n) = Sharers(s)
      /\ \A u, w : u # t /\ grantable(n, u, w) => grantable(s, u, w)
  <2> HIDE DEF n, s
  <2> QED BY <1>3, <1>4, <1>5, <1>7, <1>8, AppendOrder, Zenon
<1>10. Elems(n) = Elems(s) \cup {x}
  <2>1. x \in Request
    BY <1>3 DEF Request
  <2> HIDE DEF n, s, x
  <2> QED BY <1>4, <1>5, <2>1, ElemsAppend
<1>11. Single'
  BY <1>6, SingleKept DEF Good
<1>12. AtEntry'
  BY <1>1, <1>2, <1>3, <1>6, AtEntryKept DEF Good, a, i
<1>13. Asking'
  BY <1>1, <1>3, <1>6, AskingKept DEF Good, i
<1>14. Backed'
  <2>1. ASSUME NEW b \in Addrs, NEW r \in Elems(heap[b].wait_list) PROVE r \in Elems(heap'[b].wait_list)
    BY <1>5, <1>10, Zenon
  <2> QED BY <1>1, <1>6, <2>1, BackedKept DEF Good
<1>15. Listed'
  <2> SUFFICES ASSUME NEW j \in Items, NEW b \in Addrs, Serves(b, j)' PROVE ListOK(b, j)'
    BY DEF Listed
  <2>1. Serves(b, j) /\ ListOK(b, j)
    BY <1>6, SameServes DEF Good, Listed
  <2>2. heap[b].wait_list \in Seq(Request)
    BY <1>2, <2>1, ServesTyped
  <2>3. CASE b # a
    <3>1. ASSUME NEW r \in Elems(heap[b].wait_list), r.txn = t PROVE TellsOf(r, b, j)'
      <4>1. TellsOf(r, b, j) /\ r \in Request
        BY <2>1, <2>2, ElemsNone DEF ListOK
      <4> QED BY <1>1, <3>1, <4>1, OwnTells
    <3> QED BY <1>5, <1>6, <2>1, <2>2, <2>3, <3>1, ListKept, Zenon
  <2>4. CASE b = a
    <3>1. ASSUME NEW r \in Elems(n) PROVE TellsOf(r, b, j)'
      <4>1. CASE r = x
        BY <1>1, <1>6, <2>4, <4>1 DEF TellsOf, a, m
      <4>2. CASE r # x
        <5>1. r \in Elems(s) /\ r.txn # t /\ r \in Request
          BY <1>4, <1>7, <1>10, <4>2, ElemsNone
        <5>2. TellsOf(r, b, j)
          BY <2>1, <2>4, <5>1 DEF ListOK
        <5> QED BY <1>6, <5>1, <5>2, OthersTell
      <4> QED BY <4>1, <4>2
    <3>2. heap'[b].shared_lock_cnt = Cardinality(Sharers(heap'[b].wait_list))
      BY <1>5, <1>9, <2>1, <2>4, Zenon DEF ListOK
    <3> QED BY <1>9, <2>4, <3>1, <3>2, Zenon DEF ListOK
  <2> QED BY <2>3, <2>4
<1>16. Woken'
  <2> SUFFICES ASSUME NEW u \in Txns, pc'[u] = "wait", grantable(heap'[ptr[u]].wait_list, u, arg[u].mode)
               PROVE  \E v \in Txns : pc'[v] = "notify" /\ ptr[v] = ptr[u]
    BY <1>1, Zenon DEF Woken
  <2>1. u # t /\ pc[u] = "wait"
    BY <1>6 DEF Others
  <2>2. ptr[u] \in Addrs
    BY <1>2, <2>1 DEF Threaded
  <2>3. grantable(heap[ptr[u]].wait_list, u, arg[u].mode)
    BY <1>5, <1>9, <2>1, <2>2, Zenon
  <2>4. PICK v \in Txns : pc[v] = "notify" /\ ptr[v] = ptr[u]
    BY <2>1, <2>3 DEF Good, Woken
  <2> QED BY <1>1, <1>6, <2>4, Zenon DEF Others
<1> QED BY <1>11, <1>12, <1>13, <1>14, <1>15, <1>16 DEF Good

\* The number of sharers with one more, with one less, and with one.
LEMMA SharersCount ==
  ASSUME NEW s, NEW t
  PROVE  /\ IsFiniteSet(Sharers(s)) /\ Cardinality(Sharers(s)) \in Nat
         /\ t \notin Sharers(s) => Cardinality(Sharers(s) \cup {t}) = Cardinality(Sharers(s)) + 1
         /\ t \in Sharers(s) => Cardinality(Sharers(s) \ {t}) = Cardinality(Sharers(s)) - 1
         /\ Sharers(s) = {t} => Cardinality(Sharers(s)) = 1
<1>1. IsFiniteSet(Sharers(s))
  <2>1. Sharers(s) \subseteq Txns
    BY DEF Sharers
  <2> QED BY <2>1, TableAssumption, FS_Subset
<1>2. Cardinality(Sharers(s)) \in Nat
  BY <1>1, FS_CardinalityType
<1>3. Sharers(s) = {t} => Cardinality(Sharers(s)) = 1
  BY FS_Singleton
<1> QED BY <1>1, <1>2, <1>3, FS_AddElement, FS_RemoveElement, Zenon

\* A grant: the record granted is the one that the thread pushed.  A shared lock
\* wakes everybody at the entry; behind an exclusive one nobody can go on.
LEMMA GrantGood ==
  ASSUME Good, ShapeInv', NEW t \in Txns, Grant(t) PROVE Good'
<1> DEFINE a == ptr[t]
           i == arg[t].item
           m == arg[t].mode
           s == heap[a].wait_list
           x == [txn |-> t, mode |-> m, granted |-> FALSE]
           y == [txn |-> t, mode |-> m, granted |-> TRUE]
           n == heap'[a].wait_list
           p == [pc EXCEPT ![t] = "idle"]
<1>1. /\ pc[t] = "test" /\ grantable(s, t, m) /\ table' = table
      /\ pc' = IF m = "shared" THEN notify_all(p, a) ELSE p
      /\ own' = [own EXCEPT ![t][i] = m] /\ arg' = [arg EXCEPT ![t] = NoCall] /\ ptr' = [ptr EXCEPT ![t] = NULL]
  BY DEF Grant
<1>2. Threaded /\ ShapeInv
  BY DEF Good, ShapeInv
<1>3. a \in Addrs /\ i \in Items /\ m \in Modes \ {"none"} /\ heap[a] \in Entry /\ Serves(a, i)
      /\ own[t][i] = "none"
  BY <1>1, <1>2 DEF Threaded, ShapeInv, Good, AtEntry, Inside, Asking
<1>4. s \in Seq(Request)
  BY <1>3 DEF Entry
<1>5. /\ n = [s EXCEPT ![place(s, t)] = y] /\ heap'[a].item = heap[a].item
      /\ heap'[a].shared_lock_cnt = IF m = "shared" THEN heap[a].shared_lock_cnt + 1 ELSE heap[a].shared_lock_cnt
      /\ \A b \in Addrs : b # a => heap'[b] = heap[b]
  <2>1. heap' = [heap EXCEPT ![a] = granted(heap[a], t, m)]
    BY <1>2, OneEntry, Zenon
  <2>2. heap'[a] = granted(heap[a], t, m) /\ \A b \in Addrs : b # a => heap'[b] = heap[b]
    BY <1>2, <1>3, <2>1 DEF ShapeInv
  <2> QED BY <1>3, <2>2 DEF granted, Entry
<1>6. ASSUME NEW u \in Txns
      PROVE  pc'[u] = IF u = t THEN "idle"
                      ELSE IF m = "shared" /\ pc[u] = "wait" /\ ptr[u] = a THEN "test" ELSE pc[u]
  <2>1. p \in [Txns -> Inside \cup {"idle", "remove"}] /\ p[u] = IF u = t THEN "idle" ELSE pc[u]
    BY <1>2 DEF Threaded
  <2> HIDE DEF p
  <2>2. notify_all(p, a)[u] = IF pc[u] = "wait" /\ ptr[u] = a THEN "test" ELSE p[u]
    BY <2>1, Wakes
  <2> QED BY <1>1, <2>1, <2>2
<1>7. /\ own'[t][i] = m /\ (\A j \in Items : j # i => own'[t][j] = own[t][j])
  BY <1>1, <1>2, <1>3 DEF Threaded
<1>8. Others(t) /\ SameEntries
  <2>1. \A u \in Txns \ {t} : ptr'[u] = ptr[u] /\ arg'[u] = arg[u] /\ own'[u] = own[u]
    BY <1>1, <1>2 DEF Threaded
  <2>2. SameEntries
    BY <1>1, <1>5 DEF SameEntries
  <2> QED BY <1>6, <2>1, <2>2, Zenon DEF Others
<1>9. s[place(s, t)] = x /\ x \in Elems(s)
  <2>1. place(s, t) \in Nat /\ place(s, t) # 0
    BY <1>1, <1>4, PlaceFirst DEF grantable
  <2>2. place(s, t) \in DOMAIN s /\ s[place(s, t)].txn = t
    BY <1>4, <2>1, PlaceFirst, Zenon
  <2>3. s[place(s, t)] \in Elems(s)
    BY <2>2 DEF Elems
  <2>4. PICK r : r = s[place(s, t)]
    OBVIOUS
  <2>5. r \in Request /\ ~ r.granted /\ r.txn = t /\ r.mode = m
    <3>1. r \in Elems(s) /\ r.txn = t
      BY <2>2, <2>3, <2>4
    <3>2. /\ r \in Request
          /\ r.granted => pc[t] = "release"
          /\ ~ r.granted => arg[t].mode = r.mode
      BY <1>3, <3>1, NoRecord, Zenon
    <3> QED BY <1>1, <3>1, <3>2
  <2>6. r = x
    BY <2>5 DEF Request
  <2> QED BY <2>3, <2>4, <2>6
<1>10. InOrder(s) /\ ListOK(a, i)
  BY <1>3, Zenon DEF Good, Listed, ListOK
<1>11. \A r \in Elems(s) : r.txn = t => r = x
  <2>1. PICK k \in DOMAIN s : s[k] = x
    BY <1>9, Zenon DEF Elems
  <2>2. x.txn = t
    OBVIOUS
  <2> HIDE DEF x, s
  <2> QED BY <1>10, <2>1, <2>2 DEF InOrder, Elems
<1> HIDE DEF a, i, m
<1>12. /\ n \in Seq(Request) /\ InOrder(n) /\ Elems(n) = (Elems(s) \ {x}) \cup {y}
       /\ t \notin Sharers(s)
       /\ m = "shared" => Sharers(n) = Sharers(s) \cup {t}
       /\ m = "exclusive" => /\ Sharers(n) = Sharers(s)
                            /\ \A u, w : u # t /\ w \in Modes \ {"none"} => ~ grantable(n, u, w)
  <2>1. /\ t \in Txns /\ m \in Modes \ {"none"} /\ s \in Seq(Request) /\ InOrder(s) /\ grantable(s, t, m)
        /\ s[place(s, t)] = [txn |-> t, mode |-> m, granted |-> FALSE]
        /\ n = [s EXCEPT ![place(s, t)] = [txn |-> t, mode |-> m, granted |-> TRUE]]
    BY <1>1, <1>3, <1>4, <1>5, <1>9, <1>10
  <2>2. Grants(s, n, t, m)
    <3> HIDE DEF n, s
    <3> QED BY <2>1, GrantOrder, Zenon
  <2> QED BY <2>2, Zenon DEF Grants
<1>13. m = "shared" \/ m = "exclusive"
  BY <1>3 DEF Modes
<1>14. Single'
  BY <1>8, SingleKept DEF Good
<1>15. AtEntry' /\ Asking'
  BY <1>2, <1>6, <1>8, AtEntryKept, AskingKept, Zenon DEF Good, Inside
<1>16. Backed'
  <2> SUFFICES ASSUME NEW u \in Txns, NEW j \in Items, own'[u][j] # "none"
               PROVE  \E b \in Addrs : Serves(b, j)'
                        /\ [txn |-> u, mode |-> own'[u][j], granted |-> TRUE] \in Elems(heap'[b].wait_list)
    BY Zenon DEF Backed
  <2>1. CASE u = t /\ j = i
    <3>1. PICK b \in Addrs : b = a
      BY <1>3
    <3>2. Serves(b, j) /\ Serves(b, j)'
      BY <1>3, <1>8, <2>1, <3>1, SameServes
    <3>3. [txn |-> u, mode |-> own'[u][j], granted |-> TRUE] = y
      BY <1>7, <2>1, Zenon
    <3> HIDE DEF y
    <3> QED BY <1>12, <3>1, <3>2, <3>3, Zenon
  <2>2. CASE ~ (u = t /\ j = i)
    <3>1. own'[u][j] = own[u][j]
      BY <1>7, <1>8, <2>2 DEF Others
    <3> DEFINE z == [txn |-> u, mode |-> own[u][j], granted |-> TRUE]
    <3>2. PICK b \in Addrs : Serves(b, j) /\ z \in Elems(heap[b].wait_list)
      BY <3>1 DEF Good, Backed
    <3>3. z # x
      <4>1. z.granted = TRUE /\ x.granted = FALSE
        OBVIOUS
      <4> HIDE DEF z, x
      <4> QED BY <4>1
    <3>4. z \in Elems(heap'[b].wait_list)
      <4> HIDE DEF z, x, y
      <4> QED BY <1>5, <1>12, <3>2, <3>3, Zenon
    <3> QED BY <1>8, <3>1, <3>2, <3>4, SameServes
  <2> QED BY <2>1, <2>2, Zenon
<1>17. Listed'
  <2> SUFFICES ASSUME NEW j \in Items, NEW b \in Addrs, Serves(b, j)' PROVE ListOK(b, j)'
    BY DEF Listed
  <2>1. Serves(b, j) /\ ListOK(b, j)
    BY <1>8, SameServes DEF Good, Listed
  <2>2. heap[b].wait_list \in Seq(Request)
    BY <1>2, <2>1, ServesTyped
  <2>3. CASE b # a
    <3>1. j # i
      BY <1>3, <2>1, <2>3, Zenon DEF Good, Single
    <3>2. ASSUME NEW r \in Elems(heap[b].wait_list), r.txn = t PROVE TellsOf(r, b, j)'
      <4>1. TellsOf(r, b, j)
        BY <2>1 DEF ListOK
      <4>2. r.granted /\ own[t][j] = r.mode
        BY <1>1, <2>3, <3>2, <4>1 DEF TellsOf, a
      <4> QED BY <1>7, <3>1, <3>2, <4>2, Zenon DEF TellsOf
    <3> QED BY <1>5, <1>8, <2>1, <2>2, <2>3, <3>2, ListKept, Zenon
  <2>4. CASE b = a
    <3>1. j = i
      BY <1>3, <2>1, <2>4 DEF Serves
    <3>2. ASSUME NEW r \in Elems(n) PROVE TellsOf(r, b, j)'
      <4>1. CASE r = y
        <5>1. r.granted /\ r.txn = t /\ r.mode = m
          BY <4>1
        <5> QED BY <1>7, <3>1, <5>1 DEF TellsOf
      <4>2. CASE r # y
        <5>1. r \in Elems(s) /\ r.txn # t /\ r \in Request
          BY <1>4, <1>11, <1>12, <4>2, ElemsNone, Zenon
        <5>2. TellsOf(r, b, j)
          BY <2>1, <2>4, <5>1 DEF ListOK
        <5> QED BY <1>8, <5>1, <5>2, OthersTell, Zenon
      <4> QED BY <4>1, <4>2
    <3>3. heap'[b].shared_lock_cnt = Cardinality(Sharers(heap'[b].wait_list))
      <4>1. heap[a].shared_lock_cnt = Cardinality(Sharers(s))
        BY <2>1, <2>4 DEF ListOK
      <4>2. heap'[a].shared_lock_cnt = Cardinality(Sharers(n))
        <5> HIDE DEF n, s
        <5> QED BY <1>5, <1>12, <1>13, <4>1, SharersCount, Zenon
      <4> QED BY <2>4, <4>2
    <3> QED BY <1>12, <2>4, <3>2, <3>3, Zenon DEF ListOK
  <2> QED BY <2>3, <2>4
<1>18. Woken'
  <2> SUFFICES ASSUME NEW u \in Txns, pc'[u] = "wait", grantable(heap'[ptr'[u]].wait_list, u, arg'[u].mode)
               PROVE  \E v \in Txns : pc'[v] = "notify" /\ ptr'[v] = ptr'[u]
    BY Zenon DEF Woken
  <2>1. u # t /\ pc[u] = "wait" /\ ~ (m = "shared" /\ ptr[u] = a)
    BY <1>6, Zenon
  <2>2. ptr[u] \in Addrs /\ ptr'[u] = ptr[u] /\ arg'[u] = arg[u] /\ arg[u].mode \in Modes \ {"none"}
    BY <1>2, <1>8, <2>1 DEF Others, Threaded
  <2>3. ptr[u] # a
    BY <1>12, <1>13, <2>1, <2>2, Zenon
  <2>4. PICK v \in Txns : pc[v] = "notify" /\ ptr[v] = ptr[u]
    BY <1>5, <2>1, <2>2, <2>3 DEF Good, Woken
  <2>5. v # t
    BY <1>1, <2>4
  <2> QED BY <1>8, <2>2, <2>4, <2>5, Zenon DEF Others
<1> QED BY <1>14, <1>15, <1>16, <1>17, <1>18 DEF Good

\* What the critical section of unlock leaves, when it finds the record.
LEMMA ReleaseEntry ==
  ASSUME NEW e \in Entry, NEW t \in Txns, release(e, t).wait_list # e.wait_list,
         NEW m, m = e.current_lock_mode, NEW x, x = [txn |-> t, mode |-> m, granted |-> TRUE]
  PROVE  /\ release(e, t).wait_list = without(e.wait_list, x) /\ x \in Elems(e.wait_list)
         /\ m = "shared" \/ m = "exclusive"
         /\ release(e, t).item = e.item
         /\ release(e, t).shared_lock_cnt = IF m = "shared" THEN e.shared_lock_cnt - 1 ELSE e.shared_lock_cnt
         /\ need_notify(e) <=> m = "exclusive" \/ e.shared_lock_cnt - 1 = 0
<1>1. e.wait_list \in Seq(Request) /\ e.shared_lock_cnt \in Int
  BY DEF Entry
<1>2. /\ release(e, t).wait_list = without(e.wait_list, x)
      /\ release(e, t).item = e.item
      /\ release(e, t).shared_lock_cnt = IF m = "shared" THEN e.shared_lock_cnt - 1 ELSE e.shared_lock_cnt
  BY DEF release, removeRecord, unshared, Entry
<1>3. x \in Elems(e.wait_list)
  BY <1>1, <1>2, WithoutAbsent
<1>4. x \in Request
  BY <1>1, <1>3, ElemsNone
<1>5. m = "shared" \/ m = "exclusive"
  <2>1. x.mode = m
    OBVIOUS
  <2>2. m \in Modes \ {"none"}
    BY <1>4, <2>1 DEF Request
  <2> QED BY <2>2 DEF Modes
<1>6. need_notify(e) <=> m = "exclusive" \/ e.shared_lock_cnt - 1 = 0
  BY <1>1, <1>5 DEF need_notify, unshared, Entry
<1> QED BY <1>2, <1>3, <1>5, <1>6

\* A release: without the lapse "record" the record was there.  Who can go on
\* only now was behind an exclusive lock or behind the last shared one, and in
\* both cases the thread is going to notify.
LEMMA ReleaseGood ==
  ASSUME Good, ShapeInv', Sound', NEW t \in Txns, Release(t) PROVE Good'
<1> DEFINE a == ptr[t]
           i == arg[t].item
           e == heap[a]
           m == e.current_lock_mode
           s == e.wait_list
           x == [txn |-> t, mode |-> m, granted |-> TRUE]
           n == heap'[a].wait_list
<1>1. /\ pc[t] = "release" /\ heap' = [heap EXCEPT ![a] = release(e, t)]
      /\ pc' = [pc EXCEPT ![t] = IF need_notify(e) THEN "notify" ELSE "size"]
      /\ lapses' = IF release(e, t).wait_list = e.wait_list THEN lapses \cup {"record"} ELSE lapses
      /\ UNCHANGED <<table, ptr, arg, own>>
  BY DEF Release
<1>2. Threaded /\ ShapeInv
  BY DEF Good, ShapeInv
<1>3. i \in Items /\ Serves(a, i) /\ own[t][i] = "none"
  BY <1>1, <1>2 DEF Threaded, Good, AtEntry, Inside, Asking
<1>4. a \in Addrs /\ e \in Entry /\ s \in Seq(Request)
  BY <1>2, <1>3, ServesTyped
<1>5. heap'[a] = release(e, t) /\ \A b \in Addrs : b # a => heap'[b] = heap[b]
  BY <1>1, <1>2, <1>4 DEF ShapeInv
<1>6. release(e, t).wait_list # e.wait_list
  <2>1. "record" \notin lapses'
    BY DEF Sound
  <2> QED BY <1>1, <2>1
<1>7. /\ n = without(s, x) /\ x \in Elems(s) /\ (m = "shared" \/ m = "exclusive") /\ heap'[a].item = e.item
      /\ heap'[a].shared_lock_cnt = IF m = "shared" THEN e.shared_lock_cnt - 1 ELSE e.shared_lock_cnt
      /\ need_notify(e) <=> m = "exclusive" \/ e.shared_lock_cnt - 1 = 0
  <2>1. /\ release(e, t).wait_list = without(s, x) /\ x \in Elems(s)
        /\ m = "shared" \/ m = "exclusive"
        /\ release(e, t).item = e.item
        /\ release(e, t).shared_lock_cnt = IF m = "shared" THEN e.shared_lock_cnt - 1 ELSE e.shared_lock_cnt
        /\ need_notify(e) <=> m = "exclusive" \/ e.shared_lock_cnt - 1 = 0
    <3> HIDE DEF e
    <3> QED BY <1>4, <1>6, ReleaseEntry, Zenon
  <2> QED BY <1>5, <2>1, Zenon
<1>8. pc'[t] = IF need_notify(e) THEN "notify" ELSE "size"
  BY <1>1, <1>2 DEF Threaded
<1>9. Others(t) /\ SameEntries
  <2>1. SameEntries
    BY <1>1, <1>5, <1>7 DEF SameEntries
  <2> QED BY <1>1, <1>2, <2>1 DEF Others, Threaded
<1>10. ListOK(a, i) /\ InOrder(s)
  BY <1>3, <1>4, Zenon DEF Good, Listed, ListOK
<1> HIDE DEF a, i, m
<1>11. n \in Seq(Request) /\ Elems(n) = Elems(s) \ {x} /\ Removes(s, n, x, t, m)
  <2>1. m \in Modes
    BY <1>7, Zenon DEF Modes
  <2>2. x = [txn |-> t, mode |-> m, granted |-> TRUE]
    OBVIOUS
  <2>3. s \in Seq(Request) /\ InOrder(s) /\ x \in Elems(s) /\ n = without(s, x)
    BY <1>4, <1>7, <1>10
  <2>4. Removes(s, n, x, t, m)
    <3> HIDE DEF n, s, x
    <3> QED BY <2>1, <2>2, <2>3, RemoveOrder, Zenon
  <2> QED BY <2>4, Zenon DEF Removes
<1>12. Single'
  BY <1>9, SingleKept DEF Good
<1>13. AtEntry'
  BY <1>1, <1>2, <1>3, <1>4, <1>9, AtEntryKept, Zenon DEF Good, a, i
<1>14. Asking'
  BY <1>8, <1>9, AskingKept DEF Good
<1>15. Backed'
  <2> SUFFICES ASSUME NEW u \in Txns, NEW j \in Items, own[u][j] # "none"
               PROVE  \E b \in Addrs : Serves(b, j)'
                        /\ [txn |-> u, mode |-> own[u][j], granted |-> TRUE] \in Elems(heap'[b].wait_list)
    BY <1>1, Zenon DEF Backed
  <2> DEFINE z == [txn |-> u, mode |-> own[u][j], granted |-> TRUE]
  <2>1. PICK b \in Addrs : Serves(b, j) /\ z \in Elems(heap[b].wait_list)
    BY Zenon DEF Good, Backed
  <2>2. CASE b # a
    BY <1>5, <1>9, <2>1, <2>2, SameServes
  <2>3. CASE b = a
    <3>1. j = i
      BY <1>3, <2>1, <2>3 DEF Serves
    <3>2. u # t
      BY <1>3, <3>1
    <3>3. z # x
      <4>1. z.txn = u /\ x.txn = t
        OBVIOUS
      <4> HIDE DEF z, x
      <4> QED BY <3>2, <4>1
    <3>4. z \in Elems(heap'[b].wait_list)
      <4> HIDE DEF z, x
      <4> QED BY <1>11, <2>1, <2>3, <3>3
    <3> QED BY <1>9, <2>1, <3>4, SameServes
  <2> QED BY <2>2, <2>3, Zenon
<1>16. Listed'
  <2> SUFFICES ASSUME NEW j \in Items, NEW b \in Addrs, Serves(b, j)' PROVE ListOK(b, j)'
    BY DEF Listed
  <2>1. Serves(b, j) /\ ListOK(b, j)
    BY <1>9, SameServes DEF Good, Listed
  <2>2. heap[b].wait_list \in Seq(Request)
    BY <1>2, <2>1, ServesTyped
  <2>3. CASE b # a
    <3>1. ASSUME NEW r \in Elems(heap[b].wait_list), r.txn = t PROVE TellsOf(r, b, j)'
      <4>1. TellsOf(r, b, j)
        BY <2>1 DEF ListOK
      <4>2. r.granted /\ own[t][j] = r.mode
        BY <1>1, <2>3, <3>1, <4>1, Zenon DEF TellsOf, a
      <4> QED BY <1>1, <3>1, <4>2 DEF TellsOf
    <3> QED BY <1>5, <1>9, <2>1, <2>2, <2>3, <3>1, ListKept, Zenon
  <2>4. CASE b = a
    <3>1. ASSUME NEW r \in Elems(n) PROVE TellsOf(r, b, j)'
      <4>1. r \in Elems(s) /\ r.txn # t /\ r \in Request
        BY <1>4, <1>11, ElemsNone, Zenon DEF Removes
      <4>2. TellsOf(r, b, j)
        BY <2>1, <2>4, <4>1 DEF ListOK
      <4> QED BY <1>9, <4>1, <4>2, OthersTell
    <3>2. heap'[b].shared_lock_cnt = Cardinality(Sharers(heap'[b].wait_list))
      <4>1. e.shared_lock_cnt = Cardinality(Sharers(s))
        BY <2>1, <2>4 DEF ListOK
      <4>2. heap'[a].shared_lock_cnt = Cardinality(Sharers(n))
        <5>1. /\ m = "shared" => Sharers(n) = Sharers(s) \ {t} /\ t \in Sharers(s)
              /\ m # "shared" => Sharers(n) = Sharers(s)
          BY <1>11, Zenon DEF Removes
        <5> HIDE DEF n, s, e
        <5> QED BY <1>7, <4>1, <5>1, SharersCount, Zenon
      <4> QED BY <2>4, <4>2
    <3>3. InOrder(n)
      BY <1>11, Zenon DEF Removes
    <3> QED BY <2>4, <3>1, <3>2, <3>3 DEF ListOK
  <2> QED BY <2>3, <2>4
<1>17. Woken'
  <2> SUFFICES ASSUME NEW u \in Txns, pc'[u] = "wait", grantable(heap'[ptr[u]].wait_list, u, arg[u].mode)
               PROVE  \E v \in Txns : pc'[v] = "notify" /\ ptr[v] = ptr[u]
    BY <1>1 DEF Woken
  <2> DEFINE w == arg[u].mode
  <2>1. u # t /\ pc[u] = "wait"
    BY <1>8, <1>9 DEF Others
  <2>2. ptr[u] \in Addrs /\ w \in Modes \ {"none"} /\ arg[u].item \in Items
    BY <1>2, <2>1 DEF Threaded
  <2>3. ASSUME grantable(heap[ptr[u]].wait_list, u, w)
        PROVE  \E v \in Txns : pc'[v] = "notify" /\ ptr[v] = ptr[u]
    <3>1. PICK v \in Txns : pc[v] = "notify" /\ ptr[v] = ptr[u]
      BY <2>1, <2>3 DEF Good, Woken
    <3>2. v # t
      BY <1>1, <3>1
    <3> QED BY <1>9, <3>1, <3>2, Zenon DEF Others
  <2>4. CASE ptr[u] # a
    BY <1>5, <2>2, <2>3, <2>4
  <2>5. CASE ptr[u] = a /\ need_notify(e)
    BY <1>8, <2>5 DEF a
  <2>6. CASE ptr[u] = a /\ ~ need_notify(e) /\ ~ grantable(s, u, w)
    <3>1. m = "shared" /\ e.shared_lock_cnt - 1 # 0
      BY <1>7, <2>6
    <3>2. own[u][i] = "none"
      <4>1. Serves(ptr[u], arg[u].item) /\ own[u][arg[u].item] = "none"
        BY <2>1 DEF Good, AtEntry, Asking, Inside
      <4> QED BY <1>3, <2>6, <4>1 DEF Serves
    <3>3. \A r \in Elems(s) : r.txn = u => ~ r.granted
      BY <1>3, <2>1, <3>2, NoRecord, Zenon
    <3>4. Sharers(s) = {t}
      <4>1. \A v : \A w2 \in Modes \ {"none"} :
              (/\ m = "shared" /\ grantable(n, v, w2) /\ ~ grantable(s, v, w2)
               /\ \A r \in Elems(s) : r.txn = v => ~ r.granted)
                => Sharers(s) = {t}
        BY <1>11, Zenon DEF Removes
      <4>2. grantable(n, u, w)
        BY <2>6, Zenon
      <4> HIDE DEF n, s, w
      <4> QED BY <2>2, <2>6, <3>1, <3>3, <4>1, <4>2, Zenon
    <3>5. e.shared_lock_cnt = 1
      BY <1>10, <3>4, SharersCount, Zenon DEF ListOK
    <3> QED BY <3>1, <3>5
  <2> QED BY <2>3, <2>4, <2>5, <2>6, Zenon
<1> QED BY <1>12, <1>13, <1>14, <1>15, <1>16, <1>17 DEF Good

-----------------------------------------------------------------------------
(* The theorems.                                                            *)

\* No step takes a lapse back.
LEMMA LapsesStay ==
  ASSUME [Next]_vars PROVE lapses \subseteq lapses'
<1>1. ASSUME NEW t \in Txns, NEW i \in Items, NEW m \in Modes \ {"none"}, Lock(t, i, m) PROVE lapses \subseteq lapses'
  BY <1>1, Zenon DEF Lock, add
<1>2. ASSUME NEW t \in Txns, Step(t) \/ SpuriousWakeup(t) PROVE lapses \subseteq lapses'
  BY <1>2, Zenon DEF Step, SpuriousWakeup, Push, Grant, Sleep, Release, Notify, Size, Remove, Unlock
<1> QED BY <1>1, <1>2 DEF Next, vars

\* As long as none of the lapses but "nested" has occurred, the table is right.
THEOREM SoundInvariance == Spec => []SoundInv
<1>1. Init => SoundInv
  <2> SUFFICES ASSUME Init PROVE SoundInv
    OBVIOUS
  <2>1. ShapeInv
    BY ShapeInit
  <2>2. \A a, i : i \in Items => ~ Serves(a, i)
    <3>1. \A i \in Items : table[hash[i]] = <<>>
      BY TableAssumption DEF Init
    <3> QED BY <3>1, ElemsNone DEF Serves
  <2>3. (\A t \in Txns : pc[t] = "idle") /\ \A t \in Txns, i \in Items : own[t][i] = "none"
    BY DEF Init
  <2>4. Single /\ Listed
    BY <2>2 DEF Single, Listed
  <2>5. AtEntry /\ Asking /\ Backed /\ Woken
    BY <2>3 DEF AtEntry, Asking, Backed, Woken, Inside
  <2> QED BY <2>1, <2>4, <2>5 DEF SoundInv, Good
<1>2. SoundInv /\ [Next]_vars => SoundInv'
  <2> SUFFICES ASSUME SoundInv, [Next]_vars PROVE SoundInv'
    OBVIOUS
  <2>1. ShapeInv'
    BY HeapTyped, ChainsKept, ThreadsKept DEF SoundInv, ShapeInv
  <2>2. ASSUME Sound' PROVE Good'
    <3>1. Good
      BY <2>2, LapsesStay, Zenon DEF Sound, SoundInv
    <3>2. CASE UNCHANGED vars
      <4>1. UNCHANGED <<heap, table, pc, ptr, arg, own>>
        BY <3>2 DEF vars
      <4>2. \A a, i : Serves(a, i)' <=> Serves(a, i)
        BY <4>1 DEF Serves
      <4>3. \A a, i : ListOK(a, i)' <=> ListOK(a, i)
        BY <4>1 DEF ListOK, TellsOf
      <4>4. Single' /\ AtEntry'
        BY <3>1, <4>1, <4>2 DEF Good, Single, AtEntry
      <4>5. Asking' /\ Woken'
        BY <3>1, <4>1 DEF Good, Asking, Woken
      <4>6. Backed'
        BY <3>1, <4>1, <4>2 DEF Good, Backed
      <4>7. Listed'
        BY <3>1, <4>2, <4>3 DEF Good, Listed
      <4> QED BY <2>1, <4>4, <4>5, <4>6, <4>7 DEF Good
    <3>3. ASSUME NEW t \in Txns, Step(t) PROVE Good'
      BY <2>1, <2>2, <3>1, <3>3, PushGood, GrantGood, SleepGood, ReleaseGood, NotifyGood, SizeGood, RemoveGood,
         UnlockGood, Zenon DEF Step
    <3>4. ASSUME NEW t \in Txns, SpuriousWakeup(t) PROVE Good'
      BY <2>1, <3>1, <3>4, SleepGood
    <3>5. ASSUME NEW t \in Txns, NEW i \in Items, NEW m \in Modes \ {"none"}, Lock(t, i, m) PROVE Good'
      BY <2>1, <2>2, <3>1, <3>5, LockFoundGood, LockNewGood
    <3> QED BY <3>2, <3>3, <3>4, <3>5 DEF Next
  <2> QED BY <2>1, <2>2 DEF SoundInv
<1> QED BY <1>1, <1>2, PTL DEF Spec

\* NoConflict: while nobody upgrades, every unlock finds its record, no entry is
\* deleted in use and new entries happen to be initialised, two transactions never
\* own conflicting locks, for any number of transactions, items and buckets.
THEOREM MutualExclusion == Spec => []NoConflict
<1>1. SoundInv => NoConflict
  <2> SUFFICES ASSUME Good, NEW t \in Txns, NEW u \in Txns, NEW i \in Items, t # u,
                      own[t][i] = "exclusive", own[u][i] # "none"
               PROVE  FALSE
    BY DEF SoundInv, Sound, NoConflict
  <2> DEFINE y == [txn |-> t, mode |-> own[t][i], granted |-> TRUE]
             z == [txn |-> u, mode |-> own[u][i], granted |-> TRUE]
  <2>1. PICK a \in Addrs : Serves(a, i) /\ y \in Elems(heap[a].wait_list)
    BY DEF Good, Backed
  <2>2. PICK b \in Addrs : Serves(b, i) /\ z \in Elems(heap[b].wait_list)
    BY DEF Good, Backed
  <2>3. a = b
    BY <2>1, <2>2 DEF Good, Single
  <2> DEFINE s == heap[a].wait_list
  <2>4. InOrder(s) /\ s \in Seq(Request)
    BY <2>1, ServesTyped, Zenon DEF Good, Listed, ListOK
  <2>5. PICK j \in DOMAIN s, k \in DOMAIN s : s[j] = y /\ s[k] = z
    BY <2>1, <2>2, <2>3, Zenon DEF Elems
  <2>6. /\ s[j].txn = t /\ s[j].mode = "exclusive" /\ s[j].granted
        /\ s[k].txn = u /\ s[k].mode = own[u][i] /\ s[k].granted
    BY <2>5
  <2> HIDE DEF s
  <2>7. j # k /\ j = 1
    BY <2>4, <2>6 DEF InOrder
  <2>8. own[u][i] = "shared" \/ own[u][i] = "exclusive"
    BY DEF Good, ShapeInv, Threaded, Modes
  <2>9. k \in 1 .. Len(s) /\ Len(s) \in Nat
    BY <2>4
  <2>10. 1 \in 1 .. k - 1
    BY <2>7, <2>9
  <2> QED BY <2>4, <2>6, <2>7, <2>8, <2>10 DEF InOrder
<1> QED BY <1>1, SoundInvariance, PTL

\* NoLostWakeup: under the same conditions, a transaction asleep in lock whose
\* predicate holds is about to be notified.
THEOREM NoWakeupIsLost == Spec => []NoLostWakeup
<1>1. SoundInv => NoLostWakeup
  BY DEF SoundInv, Sound, Good, Woken, NoLostWakeup
<1> QED BY <1>1, SoundInvariance, PTL
=============================================================================
