-------------------------- MODULE BufferPoolProofs --------------------------
(***************************************************************************)
(* What the single calls of BufferPool do to the pool, for every size of   *)
(* the pool and every set of files and pages: the lists keep every slot    *)
(* once, hash_table_ leads to the page looked up (PoolInv), and the bytes  *)
(* and pins of a page are what its callers were told (Faithful).  The      *)
(* proofs about the buffer manager and about the paged files rest on these *)
(* lemmas.                                                                 *)
(***************************************************************************)
EXTENDS FilePages, SequenceTheorems, WellFoundedInduction, TLAPS

-----------------------------------------------------------------------------
(* Lists of slots *)

\* A slot list without repetitions, such as free_list_ and used_list_.
IsSlotList(s) == s \in Seq(Slots) /\ IsInjective(s)

\* push_front of a slot that is not on the list keeps it free of repetitions
\* and adds just that slot (insert_free, insert_used).
LEMMA PushFront ==
  ASSUME NEW s, IsSlotList(s), NEW x \in Slots, x \notin Range(s)
  PROVE  /\ IsSlotList(<<x>> \o s)
         /\ Range(<<x>> \o s) = Range(s) \cup {x}
<1> DEFINE t == <<x>> \o s
<1>1. t \in Seq(Slots) /\ Len(t) = Len(s) + 1 /\ t[1] = x
      /\ \A i \in 2 .. Len(t) : t[i] = s[i - 1]
  BY DEF IsSlotList
<1>2. DOMAIN t = 1 .. Len(s) + 1 /\ DOMAIN s = 1 .. Len(s) /\ Len(s) \in Nat
  BY <1>1 DEF IsSlotList
<1> HIDE DEF t
<1>3. IsInjective(t)
  <2> SUFFICES ASSUME NEW i \in 1 .. Len(s) + 1, NEW j \in 1 .. Len(s) + 1,
                      t[i] = t[j], i < j
               PROVE  FALSE
    BY <1>2, SMT DEF IsInjective
  <2>1. t[j] = s[j - 1] /\ j - 1 \in 1 .. Len(s)
    BY <1>1, <1>2
  <2>2. CASE i = 1
    BY <1>1, <1>2, <2>1, <2>2 DEF Range
  <2>3. CASE i # 1
    <3>1. t[i] = s[i - 1] /\ i - 1 \in 1 .. Len(s) /\ i - 1 # j - 1
      BY <1>1, <1>2, <2>3
    <3> QED BY <1>2, <2>1, <3>1 DEF IsSlotList, IsInjective
  <2> QED BY <2>2, <2>3
<1>4. Range(t) = Range(s) \cup {x}
  <2>1. ASSUME NEW y \in Range(t) PROVE y \in Range(s) \cup {x}
    BY <1>1, <1>2, <2>1 DEF Range
  <2>2. x \in Range(t)
    BY <1>1, <1>2 DEF Range
  <2>3. ASSUME NEW y \in Range(s) PROVE y \in Range(t)
    <3>1. PICK i \in 1 .. Len(s) : s[i] = y
      BY <1>2, <2>3 DEF Range
    <3>2. i + 1 \in DOMAIN t /\ t[i + 1] = y
      BY <1>1, <1>2, <3>1
    <3> QED BY <3>2 DEF Range
  <2> QED BY <2>1, <2>2, <2>3
<1> QED BY <1>1, <1>3, <1>4 DEF IsSlotList, t

\* pop_front takes away just the first slot.
LEMMA PopFront ==
  ASSUME NEW s, IsSlotList(s), s # <<>>
  PROVE  /\ IsSlotList(Tail(s))
         /\ Head(s) \in Slots
         /\ Head(s) \in Range(s)
         /\ Range(Tail(s)) = Range(s) \ {Head(s)}
<1>1. /\ Len(s) \in Nat /\ Len(s) > 0
      /\ DOMAIN s = 1 .. Len(s)
      /\ Head(s) = s[1]
      /\ Tail(s) \in Seq(Slots)
      /\ DOMAIN Tail(s) = 1 .. Len(s) - 1
      /\ \A i \in 1 .. Len(s) - 1 : Tail(s)[i] = s[i + 1]
  BY DEF IsSlotList
<1>2. IsInjective(Tail(s))
  BY <1>1 DEF IsSlotList, IsInjective
<1>3. Head(s) \in Slots /\ Head(s) \in Range(s)
  BY <1>1 DEF IsSlotList, Range
<1>4. ASSUME NEW y \in Range(Tail(s)) PROVE y \in Range(s) \ {Head(s)}
  BY <1>1, <1>4 DEF IsSlotList, IsInjective, Range
<1>5. ASSUME NEW y \in Range(s) \ {Head(s)} PROVE y \in Range(Tail(s))
  <2>1. PICK i \in 1 .. Len(s) : s[i] = y
    BY <1>1, <1>5 DEF Range
  <2>2. i - 1 \in DOMAIN Tail(s) /\ Tail(s)[i - 1] = y
    BY <1>1, <1>5, <2>1
  <2> QED BY <2>2, Zenon DEF Range
<1> QED BY <1>1, <1>2, <1>3, <1>4, <1>5 DEF IsSlotList

\* remove takes away just the slot it is given, and nothing when the slot is
\* not on the list.
LEMMA RemoveSlot ==
  ASSUME NEW s, IsSlotList(s), NEW x
  PROVE  /\ IsSlotList(remove(s, x))
         /\ Range(remove(s, x)) = Range(s) \ {x}
<1>1. Len(s) \in Nat /\ DOMAIN s = 1 .. Len(s) /\ s \in Seq(Slots)
  BY DEF IsSlotList
<1>2. CASE x \notin Range(s)
  <2>1. ~ \E i \in 1 .. Len(s) : s[i] = x
    BY <1>1, <1>2 DEF Range
  <2> QED BY <1>2, <2>1 DEF remove, IsSlotList
<1>3. CASE x \in Range(s)
  <2>1. PICK p \in 1 .. Len(s) : s[p] = x
    BY <1>1, <1>3 DEF Range
  <2>2. {i \in 1 .. Len(s) : s[i] = x} = {p}
    BY <1>1, <2>1 DEF IsSlotList, IsInjective
  <2>3. Min({p}) = p
    BY DEF Min
  <2>4. remove(s, x) = SubSeq(s, 1, p - 1) \o SubSeq(s, p + 1, Len(s))
    BY <2>1, <2>2, <2>3, Zenon DEF remove
  <2> DEFINE t == SubSeq(s, 1, p - 1) \o SubSeq(s, p + 1, Len(s))
  <2>5. /\ t \in Seq(Slots)
        /\ Len(t) = Len(s) - 1
        /\ DOMAIN t = 1 .. Len(s) - 1
        /\ \A i \in 1 .. Len(s) - 1 : t[i] = IF i < p THEN s[i] ELSE s[i + 1]
    <3> DEFINE a == SubSeq(s, 1, p - 1)
               b == SubSeq(s, p + 1, Len(s))
    <3>1. /\ a \in Seq(Slots) /\ Len(a) = p - 1
          /\ \A i \in 1 .. p - 1 : a[i] = s[i]
      <4>1. \A i \in 1 .. p - 1 : s[i] \in Slots
        BY <1>1, <2>1
      <4> QED BY <1>1, <2>1, <4>1, SubSeqProperties
    <3>2. /\ b \in Seq(Slots) /\ Len(b) = Len(s) - p
          /\ \A i \in 1 .. Len(s) - p : b[i] = s[i + p]
      <4>1. \A i \in p + 1 .. Len(s) : s[i] \in Slots
        BY <1>1, <2>1
      <4>2. /\ b \in Seq(Slots)
            /\ Len(b) = IF p + 1 <= Len(s) THEN Len(s) - (p + 1) + 1 ELSE 0
            /\ \A i \in 1 .. Len(s) - (p + 1) + 1 : b[i] = s[(p + 1) + i - 1]
        BY <1>1, <2>1, <4>1, SubSeqProperties
      <4> HIDE DEF b
      <4>3. Len(b) = Len(s) - p
        <5>1. Len(s) \in Nat /\ p \in 1 .. Len(s)
          BY <1>1, <2>1
        <5>2. CASE p + 1 <= Len(s)
          <6>1. Len(b) = Len(s) - (p + 1) + 1
            BY <4>2, <5>2
          <6> QED BY ONLY <5>1, <6>1
        <5>3. CASE ~(p + 1 <= Len(s))
          <6>1. Len(b) = 0
            BY <4>2, <5>3
          <6> QED BY ONLY <5>1, <5>3, <6>1
        <5> QED BY <5>2, <5>3
      <4>4. ASSUME NEW i \in 1 .. Len(s) - p PROVE b[i] = s[i + p]
        <5>1. (p + 1) + i - 1 = i + p /\ i \in 1 .. Len(s) - (p + 1) + 1
          BY <1>1, <2>1
        <5>2. b[i] = s[(p + 1) + i - 1]
          BY <4>2, <5>1
        <5> QED BY <5>1, <5>2
      <4> QED BY <4>2, <4>3, <4>4
    <3> HIDE DEF a, b
    <3>3. /\ a \o b \in Seq(Slots) /\ Len(a \o b) = Len(s) - 1
          /\ \A i \in 1 .. Len(s) - 1 :
               (a \o b)[i] = IF i < p THEN a[i] ELSE b[i - p + 1]
      <4>1. /\ a \o b \in Seq(Slots) /\ Len(a \o b) = Len(a) + Len(b)
            /\ \A i \in 1 .. Len(a) + Len(b) :
                 (a \o b)[i] = IF i <= Len(a) THEN a[i] ELSE b[i - Len(a)]
        BY <3>1, <3>2, ConcatProperties, Zenon
      <4> QED BY <1>1, <2>1, <3>1, <3>2, <4>1
    <3>4. \A i \in 1 .. Len(s) - 1 : ~(i < p) => b[i - p + 1] = s[i + 1]
      BY <1>1, <2>1, <3>2
    <3>5. t = a \o b
      BY DEF a, b
    <3> HIDE DEF t
    <3>6. t \in Seq(Slots) /\ Len(t) = Len(s) - 1
      BY <3>3, <3>5
    <3>7. ASSUME NEW i \in 1 .. Len(s) - 1
          PROVE  t[i] = IF i < p THEN s[i] ELSE s[i + 1]
      <4>1. CASE i < p
        BY <1>1, <2>1, <3>1, <3>3, <3>5, <4>1
      <4>2. CASE ~(i < p)
        BY <1>1, <2>1, <3>3, <3>4, <3>5, <4>2
      <4> QED BY <4>1, <4>2
    <3> QED BY <3>6, <3>7, LenProperties
  <2> HIDE DEF t
  <2>6. IsInjective(t)
    <3> DEFINE from(i) == IF i < p THEN i ELSE i + 1
    <3> SUFFICES ASSUME NEW i \in 1 .. Len(s) - 1, NEW j \in 1 .. Len(s) - 1, t[i] = t[j]
                 PROVE  i = j
      BY <2>5 DEF IsInjective
    <3>1. Len(s) \in Nat /\ p \in 1 .. Len(s)
      BY <1>1, <2>1
    <3>2. from(i) \in 1 .. Len(s) /\ from(j) \in 1 .. Len(s)
      BY ONLY <3>1, i \in 1 .. Len(s) - 1, j \in 1 .. Len(s) - 1
    <3>3. t[i] = s[from(i)] /\ t[j] = s[from(j)]
      BY <2>5
    <3>4. from(i) = from(j)
      <4> HIDE DEF from
      <4> QED BY <1>1, <3>2, <3>3, Zenon DEF IsSlotList, IsInjective
    <3> QED BY ONLY <3>1, <3>4, i \in 1 .. Len(s) - 1, j \in 1 .. Len(s) - 1
  <2>7. ASSUME NEW y \in Range(t) PROVE y \in Range(s) \ {x}
    <3>1. PICK i \in 1 .. Len(s) - 1 : t[i] = y
      BY <2>5, <2>7 DEF Range
    <3>2. PICK j \in 1 .. Len(s) : j # p /\ s[j] = y
      BY <1>1, <2>1, <2>5, <3>1
    <3> QED BY <1>1, <2>1, <3>2 DEF Range, IsSlotList, IsInjective
  <2>8. ASSUME NEW y \in Range(s) \ {x} PROVE y \in Range(t)
    <3>1. PICK j \in 1 .. Len(s) : s[j] = y
      BY <1>1, <2>8 DEF Range
    <3>2. CASE j < p
      <4>1. j \in 1 .. Len(s) - 1
        BY <1>1, <2>1, <3>2
      <4>2. j \in DOMAIN t /\ t[j] = y
        BY <2>5, <3>1, <3>2, <4>1
      <4> QED BY <4>2 DEF Range
    <3>3. CASE j > p
      <4>1. j - 1 \in 1 .. Len(s) - 1 /\ ~(j - 1 < p) /\ j - 1 + 1 = j
        BY <1>1, <2>1, <3>3
      <4>2. j - 1 \in DOMAIN t /\ t[j - 1] = y
        BY <2>5, <3>1, <4>1
      <4> QED BY <4>2 DEF Range
    <3>4. j # p
      BY <2>1, <2>8, <3>1
    <3> QED BY <3>2, <3>3, <3>4
  <2> QED BY <2>4, <2>5, <2>6, <2>7, <2>8 DEF IsSlotList, t
<1> QED BY <1>2, <1>3
-----------------------------------------------------------------------------
(* The scan of used_list_ from the back *)

\* A non-empty set of list positions has a last one.
LEMMA LastPosition ==
  ASSUME NEW n \in Nat, NEW S \in SUBSET (1 .. n), S # {}
  PROVE  Max(S) \in S /\ \A y \in S : Max(S) >= y
<1> DEFINE T == {n - i : i \in S}
<1>1. T \subseteq Nat /\ T # {}
  <2>1. \A i \in S : n - i \in Nat
    OBVIOUS
  <2>2. PICK i \in S : TRUE
    BY Zenon
  <2>3. n - i \in T
    OBVIOUS
  <2> QED BY <2>1, <2>3
<1>2. PICK m \in T : \A y \in T : ~(<<y, m>> \in OpToRel(<, Nat))
  BY <1>1, WFMin, NatLessThanWellFounded, Zenon
<1>3. \A y \in T : m <= y
  <2> SUFFICES ASSUME NEW y \in T PROVE m <= y
    OBVIOUS
  <2>1. y \in Nat /\ m \in Nat
    BY <1>1
  <2>2. ~(y < m)
    BY <1>2, <2>1, Zenon DEF OpToRel
  <2> QED BY <2>1, <2>2
<1>4. PICK i \in S : m = n - i
  OBVIOUS
<1>5. \A y \in S : i >= y
  <2> SUFFICES ASSUME NEW y \in S PROVE i >= y
    OBVIOUS
  <2>1. n - y \in T
    OBVIOUS
  <2> QED BY <1>3, <1>4, <2>1
<1> QED BY <1>5 DEF Max

\* What internal_alloc relies on: with a slot to give there is one that is on
\* the list it was taken from.
LEMMA VictimIsSlot ==
  ASSUME NEW b \in BufferState, CanAlloc(b)
  PROVE  /\ b.free_list # <<>> => Victim(b) = Head(b.free_list)
         /\ b.free_list = <<>> => /\ Victim(b) \in Range(b.used_list)
                                  /\ b.buffer_pool[Victim(b)].pin = 0
         /\ Victim(b) \in Slots
<1>1. CASE b.free_list # <<>>
  BY <1>1, HeadTailProperties DEF Victim, BufferState
<1>2. CASE b.free_list = <<>>
  <2>1. Unpinned(b) \in SUBSET (1 .. Len(b.used_list)) /\ Unpinned(b) # {}
        /\ Len(b.used_list) \in Nat /\ DOMAIN b.used_list = 1 .. Len(b.used_list)
    BY <1>2, LenProperties DEF CanAlloc, Unpinned, BufferState
  <2>2. Max(Unpinned(b)) \in Unpinned(b)
    BY <2>1, LastPosition, Zenon
  <2>3. /\ Max(Unpinned(b)) \in 1 .. Len(b.used_list)
        /\ b.buffer_pool[b.used_list[Max(Unpinned(b))]].pin = 0
    BY <2>2, Zenon DEF Unpinned
  <2>4. b.used_list[Max(Unpinned(b))] \in Slots
    BY <2>3, ElementOfSeq DEF BufferState
  <2> QED BY <1>2, <2>1, <2>3, <2>4 DEF Victim, Range
<1> QED BY <1>1, <1>2
-----------------------------------------------------------------------------
(* What every member function keeps *)

\* Every slot is on exactly one of the two lists, once.
Partition(b) ==
  /\ IsSlotList(b.free_list)
  /\ IsSlotList(b.used_list)
  /\ Range(b.free_list) \cap Range(b.used_list) = {}
  /\ Range(b.free_list) \cup Range(b.used_list) = Slots

\* The page a slot says it holds.
PageOf(b, s) == <<b.buffer_pool[s].fd, b.buffer_pool[s].page>>

\* hash_table_ only leads to slots in use that hold the page looked up.
HashOK(b) ==
  \A k \in Key :
    b.hash_table[k] # -1 =>
      /\ b.hash_table[k] \in Range(b.used_list)
      /\ PageOf(b, b.hash_table[k]) = k

PoolInv(b) == b \in BufferState /\ Partition(b) /\ HashOK(b)

\* The pool as the constructor leaves it, every slot free.
EmptyPool(pool, disk) ==
  [free_list |-> [i \in 1 .. PoolSize |-> i - 1], used_list |-> <<>>,
   buffer_pool |-> pool, hash_table |-> [k \in Key |-> -1], disk |-> disk]

\* It is in order.
LEMMA EmptyPoolOK ==
  ASSUME NEW pool \in [Slots -> Entry], NEW disk \in [Block -> Content \cup {NoPage}]
  PROVE  LET b == EmptyPool(pool, disk) IN
         /\ PoolInv(b) /\ Range(b.used_list) = {} /\ b.disk = disk
         /\ \A k \in Key : b.hash_table[k] = -1
<1> DEFINE fl == [i \in 1 .. PoolSize |-> i - 1]
           b == EmptyPool(pool, disk)
<1>1. IsSlotList(fl) /\ Range(fl) = Slots
  <2>1. fl \in Seq(Slots)
    BY PoolAssumption DEF Slots
  <2>2. DOMAIN fl = 1 .. PoolSize /\ \A i \in 1 .. PoolSize : fl[i] = i - 1
    OBVIOUS
  <2> HIDE DEF fl
  <2>3. IsInjective(fl)
    BY <2>2, PoolAssumption DEF IsInjective
  <2>4. \A s \in Slots : s + 1 \in 1 .. PoolSize /\ fl[s + 1] = s
    BY <2>2, PoolAssumption DEF Slots
  <2>5. Range(fl) = Slots
    <3>1. \A i \in 1 .. PoolSize : fl[i] \in Slots
      BY <2>2, PoolAssumption DEF Slots
    <3>2. \A s \in Slots : \E i \in 1 .. PoolSize : fl[i] = s
      BY <2>4
    <3> QED BY <2>2, <3>1, <3>2 DEF Range
  <2> QED BY <2>1, <2>3, <2>5 DEF IsSlotList
<1> HIDE DEF fl
<1>2. b = [free_list |-> fl, used_list |-> <<>>, buffer_pool |-> pool,
           hash_table |-> [k \in Key |-> -1], disk |-> disk]
  BY DEF EmptyPool, fl
<1>3. /\ b \in BufferState
      /\ b.free_list = fl /\ b.used_list = <<>> /\ b.disk = disk
      /\ \A k \in Key : b.hash_table[k] = -1
  BY <1>1, <1>2 DEF BufferState, IsSlotList
<1> HIDE DEF b
<1>4. IsSlotList(<<>>) /\ Range(<<>>) = {}
  BY DEF IsSlotList, IsInjective, Range
<1>5. PoolInv(b)
  BY <1>1, <1>3, <1>4 DEF PoolInv, Partition, HashOK
<1> QED BY <1>3, <1>4, <1>5 DEF b

\* Between b and c no slot left used_list_, and a slot that changed file is on it.
Grows(b, c) ==
  /\ Range(b.used_list) \subseteq Range(c.used_list)
  /\ \A s \in Slots :
       c.buffer_pool[s].fd # b.buffer_pool[s].fd => s \in Range(c.used_list)

\* The changes the member functions make, apart from the order of the lists.
\* The entry of slot s becomes f.
Rewrites(b, c, s, f) ==
  /\ c.buffer_pool = [b.buffer_pool EXCEPT ![s] = f]
  /\ c.hash_table = b.hash_table /\ c.disk = b.disk
  /\ Range(c.used_list) = Range(b.used_list)

\* The disk after the page in slot s is written if it is dirty.
SavedDisk(b, s) ==
  IF b.buffer_pool[s].dirty
  THEN [b.disk EXCEPT ![PageOf(b, s)] = b.buffer_pool[s].data]
  ELSE b.disk

\* Slot v is taken from free_list_, or from its page, which is saved first.
Takes(b, c, v) ==
  /\ c.buffer_pool = b.buffer_pool
  /\ \/ /\ v \notin Range(b.used_list)
        /\ Range(c.used_list) = Range(b.used_list) \cup {v}
        /\ c.hash_table = b.hash_table /\ c.disk = b.disk
     \/ /\ v \in Range(b.used_list) /\ b.buffer_pool[v].pin = 0
        /\ Range(c.used_list) = Range(b.used_list)
        /\ c.hash_table = [b.hash_table EXCEPT ![PageOf(b, v)] = -1]
        /\ c.disk = SavedDisk(b, v)

\* The entry e, and its page with it, comes into slot v.
Installs(b, c, v, e) ==
  /\ c.buffer_pool = [b.buffer_pool EXCEPT ![v] = e]
  /\ c.hash_table = [b.hash_table EXCEPT ![<<e.fd, e.page>>] = v]
  /\ c.used_list = b.used_list /\ c.disk = b.disk

\* The dirty slots F are clean now; block k of the disk has the bytes of one.
Saves(b, c, F, k) ==
  /\ F = {} => c = b
  /\ F # {} =>
       /\ \E x \in F : c.disk = [b.disk EXCEPT ![k] = b.buffer_pool[x].data]
       /\ c.buffer_pool = [s \in Slots |-> IF s \in F
                                           THEN [b.buffer_pool[s] EXCEPT !.dirty = FALSE]
                                           ELSE b.buffer_pool[s]]
       /\ c.hash_table = b.hash_table /\ c.used_list = b.used_list

\* Slot i is clean and free, its page saved and no longer known.
Frees(b, c, i) ==
  /\ c.buffer_pool = [b.buffer_pool EXCEPT ![i] = [b.buffer_pool[i] EXCEPT !.dirty = FALSE]]
  /\ c.hash_table = [b.hash_table EXCEPT ![PageOf(b, i)] = -1]
  /\ c.disk = SavedDisk(b, i)
  /\ Range(c.used_list) = Range(b.used_list) \ {i}

\* Moving a slot of the list to its front keeps the list's slots.
LEMMA ToFront ==
  ASSUME NEW s, IsSlotList(s), NEW x \in Range(s)
  PROVE  IsSlotList(to_front(s, x)) /\ Range(to_front(s, x)) = Range(s)
<1>1. x \in Slots
  BY DEF IsSlotList, Range
<1>2. IsSlotList(remove(s, x)) /\ Range(remove(s, x)) = Range(s) \ {x}
  BY RemoveSlot
<1> QED BY <1>1, <1>2, PushFront DEF to_front, insert_used

\* A slot's own page is a page of the model, so its block can be written.
LEMMA PageOfIsKey ==
  ASSUME NEW b \in BufferState, NEW s \in Slots
  PROVE  /\ b.buffer_pool[s] \in Entry
         /\ PageOf(b, s) \in Key
         /\ PageOf(b, s) \in Block
BY DEF BufferState, Entry, PageOf, Key, Block

\* internal_alloc keeps the invariant, takes the slot it returns into use and
\* leaves no page leading to it.
LEMMA InternalAlloc ==
  ASSUME NEW b, PoolInv(b), CanAlloc(b)
  PROVE  LET a == internal_alloc(b) IN
         /\ PoolInv(a)
         /\ Grows(b, a)
         /\ Victim(b) \in Range(a.used_list)
         /\ \A k \in Key : a.hash_table[k] # Victim(b)
         /\ a.buffer_pool = b.buffer_pool
         /\ \A k \in Key : a.hash_table[k] \in {b.hash_table[k], -1}
         /\ Takes(b, a, Victim(b))
<1> DEFINE a == internal_alloc(b)
           v == Victim(b)
           e == b.buffer_pool[v]
<1>0. b \in BufferState /\ Partition(b) /\ HashOK(b) /\ v \in Slots
  BY VictimIsSlot DEF PoolInv
<1>1. CASE b.free_list # <<>>
  <2>1. v = Head(b.free_list)
    BY <1>0, <1>1, VictimIsSlot
  <2>2. a = [b EXCEPT !.free_list = Tail(b.free_list),
                      !.used_list = <<v>> \o b.used_list]
    BY <1>1 DEF internal_alloc, insert_used
  <2>3. /\ IsSlotList(Tail(b.free_list))
        /\ v \in Range(b.free_list)
        /\ Range(Tail(b.free_list)) = Range(b.free_list) \ {v}
    BY <1>0, <1>1, <2>1, PopFront DEF Partition
  <2>4. v \notin Range(b.used_list)
    BY <1>0, <2>3 DEF Partition
  <2>5. /\ IsSlotList(<<v>> \o b.used_list)
        /\ Range(<<v>> \o b.used_list) = Range(b.used_list) \cup {v}
    BY <1>0, <2>4, PushFront DEF Partition
  <2> HIDE DEF a, v
  <2>6. /\ a \in BufferState
        /\ a.free_list = Tail(b.free_list)
        /\ a.used_list = <<v>> \o b.used_list
        /\ a.buffer_pool = b.buffer_pool
        /\ a.hash_table = b.hash_table /\ a.disk = b.disk
    BY <1>0, <2>2, <2>3, <2>5, Zenon DEF BufferState, IsSlotList
  <2>7. Partition(a)
    BY <1>0, <2>3, <2>5, <2>6 DEF Partition
  <2>8. HashOK(a)
    BY <1>0, <2>5, <2>6 DEF HashOK, PageOf
  <2>9. \A k \in Key : a.hash_table[k] # v
    BY <1>0, <2>4, <2>6 DEF HashOK, Slots
  <2>10. Takes(b, a, v)
    BY <2>4, <2>5, <2>6 DEF Takes
  <2> QED BY <1>0, <2>5, <2>6, <2>7, <2>8, <2>9, <2>10 DEF PoolInv, Grows, a, v
<1>2. CASE b.free_list = <<>>
  <2>1. v \in Range(b.used_list) /\ b.buffer_pool[v].pin = 0
    BY <1>0, <1>2, VictimIsSlot
  <2>2. e \in Entry /\ <<e.fd, e.page>> \in Key /\ <<e.fd, e.page>> \in Block
    BY <1>0, PageOfIsKey DEF PageOf
  <2>3. /\ IsSlotList(to_front(b.used_list, v))
        /\ Range(to_front(b.used_list, v)) = Range(b.used_list)
    BY <1>0, <2>1, ToFront DEF Partition
  <2>4. a = [b EXCEPT
              !.disk = IF e.dirty THEN [b.disk EXCEPT ![<<e.fd, e.page>>] = e.data]
                       ELSE b.disk,
              !.hash_table = [b.hash_table EXCEPT ![<<e.fd, e.page>>] = -1],
              !.used_list = to_front(b.used_list, v)]
    BY <1>2 DEF internal_alloc, write_page, hash_remove
  <2> HIDE DEF a, v
  <2>5. e.data \in Content /\ <<e.fd, e.page>> = PageOf(b, v)
    BY <2>2 DEF Entry, PageOf
  <2>6. /\ a \in BufferState
        /\ a.free_list = b.free_list
        /\ a.used_list = to_front(b.used_list, v)
        /\ a.buffer_pool = b.buffer_pool
        /\ a.hash_table = [b.hash_table EXCEPT ![PageOf(b, v)] = -1]
    BY <1>0, <2>2, <2>3, <2>4, <2>5, Zenon DEF BufferState, IsSlotList
  <2>11. a.disk = SavedDisk(b, v)
    BY <1>0, <2>4, <2>5, Zenon DEF BufferState, SavedDisk
  <2>12. Takes(b, a, v)
    BY <2>1, <2>3, <2>6, <2>11 DEF Takes
  <2>7. Partition(a)
    BY <1>0, <2>3, <2>6 DEF Partition
  <2>8. \A k \in Key : a.hash_table[k] \in {b.hash_table[k], -1}
    BY <1>0, <2>6 DEF BufferState
  <2>9. HashOK(a)
    BY <1>0, <2>3, <2>6, <2>8 DEF HashOK, PageOf
  <2>10. \A k \in Key : a.hash_table[k] # v
    <3> SUFFICES ASSUME NEW k \in Key, a.hash_table[k] = v PROVE FALSE
      OBVIOUS
    <3>1. v # -1
      BY <1>0, PoolAssumption DEF Slots
    <3>2. b.hash_table[k] = v /\ k # PageOf(b, v)
      BY <1>0, <2>6, <3>1 DEF BufferState
    <3> QED BY <1>0, <3>1, <3>2 DEF HashOK
  <2> QED BY <1>0, <2>1, <2>3, <2>6, <2>7, <2>8, <2>9, <2>10, <2>12
          DEF PoolInv, Grows, a, v
<1> QED BY <1>1, <1>2
\* A step that keeps which page is where, and only reorders used_list_, keeps
\* the invariant.
LEMMA SamePlaces ==
  ASSUME NEW b, PoolInv(b), NEW c \in BufferState,
         IsSlotList(c.used_list), Range(c.used_list) = Range(b.used_list),
         c.free_list = b.free_list, c.hash_table = b.hash_table,
         \A s \in Slots : /\ c.buffer_pool[s].fd = b.buffer_pool[s].fd
                          /\ c.buffer_pool[s].page = b.buffer_pool[s].page
  PROVE  PoolInv(c) /\ Grows(b, c)
<1>1. Partition(c)
  BY DEF PoolInv, Partition
<1>2. HashOK(c)
  <2> SUFFICES ASSUME NEW k \in Key, c.hash_table[k] # -1
               PROVE  /\ c.hash_table[k] \in Range(c.used_list)
                      /\ PageOf(c, c.hash_table[k]) = k
    BY DEF HashOK
  <2>1. c.hash_table[k] \in Slots
    BY DEF BufferState
  <2> QED BY <2>1 DEF PoolInv, HashOK, PageOf
<1> QED BY <1>1, <1>2 DEF PoolInv, Grows

\* The slot of a resident page.
LEMMA ResidentSlot ==
  ASSUME NEW b, PoolInv(b), NEW fd \in Fds, NEW page \in Pages,
         Resident(b, fd, page)
  PROVE  LET s == find(b.hash_table, fd, page) IN
         /\ s \in Slots
         /\ s \in Range(b.used_list)
         /\ b.buffer_pool[s] \in Entry
         /\ IsSlotList(to_front(b.used_list, s))
         /\ Range(to_front(b.used_list, s)) = Range(b.used_list)
<1>1. <<fd, page>> \in Key
  BY DEF Key
<1>2. /\ find(b.hash_table, fd, page) \in Range(b.used_list)
      /\ find(b.hash_table, fd, page) \in Slots
  BY <1>1 DEF PoolInv, HashOK, Resident, find, BufferState
<1> QED BY <1>2, ToFront DEF PoolInv, Partition, BufferState

\* Changing fields of one entry other than the page it holds, and reordering
\* used_list_, keeps the invariant.
LEMMA UpdateEntry ==
  ASSUME NEW b, PoolInv(b), NEW s \in Slots, NEW f \in Entry,
         f.fd = b.buffer_pool[s].fd, f.page = b.buffer_pool[s].page,
         NEW used, IsSlotList(used), Range(used) = Range(b.used_list),
         NEW c, c = [b EXCEPT !.buffer_pool = [b.buffer_pool EXCEPT ![s] = f],
                              !.used_list = used]
  PROVE  PoolInv(c) /\ Grows(b, c) /\ Rewrites(b, c, s, f)
<1>1. b \in BufferState
  BY DEF PoolInv
<1>2. /\ c \in BufferState
      /\ c.used_list = used /\ c.disk = b.disk
      /\ c.free_list = b.free_list /\ c.hash_table = b.hash_table
      /\ c.buffer_pool = [b.buffer_pool EXCEPT ![s] = f]
  BY <1>1, Zenon DEF BufferState, IsSlotList
<1>3. \A t \in Slots : /\ c.buffer_pool[t].fd = b.buffer_pool[t].fd
                       /\ c.buffer_pool[t].page = b.buffer_pool[t].page
  BY <1>1, <1>2 DEF BufferState
<1>4. Rewrites(b, c, s, f)
  BY <1>2 DEF Rewrites
<1>5. PoolInv(c) /\ Grows(b, c)
  BY <1>2, <1>3, SamePlaces, Zenon
<1> QED BY <1>4, <1>5

\* get_page on a resident page keeps the invariant.
LEMMA GetHitKeeps ==
  ASSUME NEW b, PoolInv(b), NEW fd \in Fds, NEW page \in Pages,
         Resident(b, fd, page)
  PROVE  LET c == get_hit(b, fd, page)
             s == find(b.hash_table, fd, page)
             e == b.buffer_pool[s]
         IN PoolInv(c) /\ Grows(b, c) /\ Rewrites(b, c, s, [e EXCEPT !.pin = e.pin + 1])
<1> DEFINE c == get_hit(b, fd, page)
           s == find(b.hash_table, fd, page)
           e == b.buffer_pool[s]
           f == [e EXCEPT !.pin = e.pin + 1]
<1>1. /\ s \in Slots /\ e \in Entry
      /\ IsSlotList(to_front(b.used_list, s))
      /\ Range(to_front(b.used_list, s)) = Range(b.used_list)
  BY ResidentSlot
<1>2. f \in Entry /\ f.fd = e.fd /\ f.page = e.page
  BY <1>1 DEF Entry
<1>3. c =
        [b EXCEPT !.buffer_pool = [b.buffer_pool EXCEPT ![s] = f],
                  !.used_list = to_front(b.used_list, s)]
  BY DEF get_hit
<1> HIDE DEF c, s, f
<1>4. PoolInv(c) /\ Grows(b, c) /\ Rewrites(b, c, s, f)
  BY <1>1, <1>2, <1>3, UpdateEntry, Zenon
<1> QED BY <1>4 DEF c, s, f

\* mark_dirty keeps the invariant.
LEMMA MarkDirtyKeeps ==
  ASSUME NEW b, PoolInv(b), NEW fd \in Fds, NEW page \in Pages,
         Resident(b, fd, page)
  PROVE  LET c == mark_dirty(b, fd, page)
             s == find(b.hash_table, fd, page)
             e == b.buffer_pool[s]
         IN PoolInv(c) /\ Grows(b, c) /\ Rewrites(b, c, s, [e EXCEPT !.dirty = TRUE])
<1> DEFINE c == mark_dirty(b, fd, page)
           s == find(b.hash_table, fd, page)
           e == b.buffer_pool[s]
           f == [e EXCEPT !.dirty = TRUE]
<1>1. /\ s \in Slots /\ e \in Entry
      /\ IsSlotList(to_front(b.used_list, s))
      /\ Range(to_front(b.used_list, s)) = Range(b.used_list)
  BY ResidentSlot
<1>2. f \in Entry /\ f.fd = e.fd /\ f.page = e.page
  BY <1>1, Zenon DEF Entry
<1>3. c =
        [b EXCEPT !.buffer_pool = [b.buffer_pool EXCEPT ![s] = f],
                  !.used_list = to_front(b.used_list, s)]
  BY DEF mark_dirty
<1> HIDE DEF c, s, f
<1>4. PoolInv(c) /\ Grows(b, c) /\ Rewrites(b, c, s, f)
  BY <1>1, <1>2, <1>3, UpdateEntry, Zenon
<1> QED BY <1>4 DEF c, s, f

\* unpin_page keeps the invariant.
LEMMA UnpinKeeps ==
  ASSUME NEW b, PoolInv(b), NEW fd \in Fds, NEW page \in Pages,
         Resident(b, fd, page)
  PROVE  LET c == unpin_page(b, fd, page)
             s == find(b.hash_table, fd, page)
             e == b.buffer_pool[s]
         IN PoolInv(c) /\ Grows(b, c) /\ Rewrites(b, c, s, [e EXCEPT !.pin = e.pin - 1])
<1> DEFINE c == unpin_page(b, fd, page)
           s == find(b.hash_table, fd, page)
           e == b.buffer_pool[s]
           f == [e EXCEPT !.pin = e.pin - 1]
           used == IF e.pin = 1 THEN to_front(b.used_list, s) ELSE b.used_list
<1>1. /\ s \in Slots /\ e \in Entry
      /\ IsSlotList(to_front(b.used_list, s))
      /\ Range(to_front(b.used_list, s)) = Range(b.used_list)
  BY ResidentSlot
<1>2. f \in Entry /\ f.fd = e.fd /\ f.page = e.page
  BY <1>1 DEF Entry
<1>3. c =
        [b EXCEPT !.buffer_pool = [b.buffer_pool EXCEPT ![s] = f],
                  !.used_list = used]
  BY DEF unpin_page
<1>4. IsSlotList(used) /\ Range(used) = Range(b.used_list)
  BY <1>1 DEF PoolInv, Partition
<1> HIDE DEF c, s, f, used
<1>5. PoolInv(c) /\ Grows(b, c) /\ Rewrites(b, c, s, f)
  BY <1>1, <1>2, <1>3, <1>4, UpdateEntry, Zenon
<1> QED BY <1>5 DEF c, s, f

\* A caller's write through a data pointer keeps the invariant.
LEMMA WriteKeeps ==
  ASSUME NEW b, PoolInv(b), NEW s \in Slots, NEW data \in Content,
         NEW c, c = [b EXCEPT !.buffer_pool[s].data = data]
  PROVE  /\ PoolInv(c) /\ Grows(b, c)
         /\ Rewrites(b, c, s, [b.buffer_pool[s] EXCEPT !.data = data])
<1> DEFINE e == b.buffer_pool[s]
           f == [e EXCEPT !.data = data]
<1>1. e \in Entry /\ b \in BufferState
  BY DEF PoolInv, BufferState
<1>2. f \in Entry /\ f.fd = e.fd /\ f.page = e.page
  BY <1>1 DEF Entry
<1>3. c = [b EXCEPT !.buffer_pool = [b.buffer_pool EXCEPT ![s] = f]]
  OBVIOUS
<1> HIDE DEF f
<1>4. c = [b EXCEPT !.buffer_pool = [b.buffer_pool EXCEPT ![s] = f],
                    !.used_list = b.used_list]
  BY <1>1, <1>3, Zenon DEF BufferState
<1>5. IsSlotList(b.used_list)
  BY DEF PoolInv, Partition
<1>6. PoolInv(c) /\ Grows(b, c) /\ Rewrites(b, c, s, f)
  BY ONLY PoolInv(b), s \in Slots, <1>2, <1>4, <1>5, UpdateEntry, Zenon
<1> QED BY <1>6 DEF f

\* The entry e for its page in the slot internal_alloc returned.
Load(b, e) ==
  [internal_alloc(b) EXCEPT
     !.hash_table = hash_insert(@, e.fd, e.page, Victim(b)),
     !.buffer_pool = [@ EXCEPT ![Victim(b)] = e]]

\* A fresh page in the slot internal_alloc returned keeps the invariant.
LEMMA LoadKeeps ==
  ASSUME NEW b, PoolInv(b), CanAlloc(b), NEW e \in Entry,
         ~Resident(b, e.fd, e.page)
  PROVE  /\ PoolInv(Load(b, e))
         /\ Grows(b, Load(b, e))
         /\ Load(b, e).hash_table[<<e.fd, e.page>>] = Victim(b)
         /\ Installs(internal_alloc(b), Load(b, e), Victim(b), e)
<1> DEFINE c == Load(b, e)
           a == internal_alloc(b)
           v == Victim(b)
           k == <<e.fd, e.page>>
<1>1. /\ PoolInv(a) /\ Grows(b, a) /\ v \in Range(a.used_list)
      /\ \A j \in Key : a.hash_table[j] # v
      /\ a.buffer_pool = b.buffer_pool
      /\ \A j \in Key : a.hash_table[j] \in {b.hash_table[j], -1}
  BY InternalAlloc
<1>2. k \in Key /\ v \in Slots /\ b \in BufferState /\ a \in BufferState
  BY <1>1, VictimIsSlot DEF PoolInv, Key, Entry
<1>3. a.hash_table[k] = -1
  BY <1>1, <1>2 DEF Resident, find
<1> HIDE DEF a, v, k, c
<1>4. c = [a EXCEPT !.hash_table = [a.hash_table EXCEPT ![k] = v],
                    !.buffer_pool = [a.buffer_pool EXCEPT ![v] = e]]
  BY <1>3 DEF Load, hash_insert, find, a, v, k, c
<1>5. /\ c \in BufferState
      /\ c.free_list = a.free_list /\ c.used_list = a.used_list
      /\ c.disk = a.disk
      /\ c.hash_table = [a.hash_table EXCEPT ![k] = v]
      /\ c.buffer_pool = [a.buffer_pool EXCEPT ![v] = e]
  <2> DEFINE h == [a.hash_table EXCEPT ![k] = v]
             p == [a.buffer_pool EXCEPT ![v] = e]
  <2>1. h \in [Key -> Slots \cup {-1}] /\ p \in [Slots -> Entry]
    BY <1>2 DEF BufferState
  <2>2. c = [a EXCEPT !.hash_table = h, !.buffer_pool = p]
    BY <1>4
  <2> HIDE DEF h, p
  <2>3. /\ c \in BufferState
        /\ c.free_list = a.free_list /\ c.used_list = a.used_list
        /\ c.disk = a.disk
        /\ c.hash_table = h
        /\ c.buffer_pool = p
    BY ONLY <1>2, <2>1, <2>2, Zenon DEF BufferState
  <2> QED BY <2>3 DEF h, p
<1>6. Partition(c)
  BY <1>1, <1>5 DEF PoolInv, Partition
<1>7. HashOK(c)
  <2> SUFFICES ASSUME NEW j \in Key, c.hash_table[j] # -1
               PROVE  /\ c.hash_table[j] \in Range(c.used_list)
                      /\ PageOf(c, c.hash_table[j]) = j
    BY DEF HashOK
  <2>1. CASE j = k
    <3>1. c.hash_table[j] = v /\ c.buffer_pool[v] = e
      BY <1>2, <1>5, <2>1 DEF BufferState
    <3> QED BY <1>1, <1>5, <2>1, <3>1 DEF PageOf, k
  <2>2. CASE j # k
    <3>1. c.hash_table[j] = a.hash_table[j] /\ a.hash_table[j] # v
      BY <1>1, <1>2, <1>5, <2>2 DEF BufferState
    <3>2. a.hash_table[j] \in Slots
      BY <1>2, <3>1 DEF BufferState
    <3>3. c.buffer_pool[a.hash_table[j]] = a.buffer_pool[a.hash_table[j]]
      BY <1>2, <1>5, <3>1, <3>2 DEF BufferState
    <3>4. /\ a.hash_table[j] \in Range(a.used_list)
          /\ PageOf(a, a.hash_table[j]) = j
      BY <1>1, <3>1 DEF PoolInv, HashOK
    <3>5. PageOf(c, a.hash_table[j]) = PageOf(a, a.hash_table[j])
      BY <3>3 DEF PageOf
    <3>6. c.used_list = a.used_list
      BY <1>5
    <3> QED BY <3>1, <3>4, <3>5, <3>6
  <2> QED BY <2>1, <2>2
<1>8. Grows(b, c)
  <2>1. ASSUME NEW s \in Slots, c.buffer_pool[s].fd # b.buffer_pool[s].fd
        PROVE  s \in Range(c.used_list)
    <3>1. s = v
      BY <1>1, <1>2, <1>5, <2>1 DEF BufferState
    <3> QED BY <1>1, <1>5, <3>1
  <2> QED BY <1>1, <1>5, <2>1 DEF Grows
<1>9. c.hash_table[k] = v
  BY <1>2, <1>5 DEF BufferState
<1>10. Installs(a, c, v, e)
  BY <1>5 DEF Installs, k
<1> QED BY <1>5, <1>6, <1>7, <1>8, <1>9, <1>10 DEF PoolInv, a, k, v, c

\* get_page on an absent page that could be read keeps the invariant and leaves
\* the page resident.
LEMMA GetMissKeeps ==
  ASSUME NEW b, PoolInv(b), CanAlloc(b), NEW fd \in Fds, NEW page \in Pages,
         ~Resident(b, fd, page), NEW data \in Content
  PROVE  LET c == get_miss(b, fd, page, data) IN
         /\ PoolInv(c)
         /\ Grows(b, c)
         /\ c.hash_table[<<fd, page>>] = Victim(b)
         /\ Installs(internal_alloc(b), c, Victim(b),
                     [fd |-> fd, page |-> page, pin |-> 1, dirty |-> FALSE,
                      data |-> data])
<1> DEFINE c == get_miss(b, fd, page, data)
           a == internal_alloc(b)
           v == Victim(b)
           e == [fd |-> fd, page |-> page, pin |-> 1, dirty |-> FALSE,
                 data |-> data]
<1>1. e \in Entry /\ e.fd = fd /\ e.page = page
  BY DEF Entry
<1>2. v \in Slots /\ a \in BufferState
  BY VictimIsSlot, InternalAlloc DEF PoolInv
<1>3. init_page_info([a.buffer_pool EXCEPT ![v].data = data], fd, page, v) =
        [a.buffer_pool EXCEPT ![v] = e]
  <2> HIDE DEF a, v
  <2> QED BY <1>2, Zenon DEF init_page_info, BufferState, Entry
<1>4. c = Load(b, e)
  BY <1>3, Zenon DEF get_miss, Load
<1> HIDE DEF c, e
<1>5. /\ PoolInv(c) /\ Grows(b, c) /\ c.hash_table[<<fd, page>>] = v
      /\ Installs(a, c, v, e)
  BY <1>1, <1>4, LoadKeeps
<1> QED BY <1>5 DEF c, e

\* allocate_page on an absent page keeps the invariant and leaves the page
\* resident.
LEMMA AllocateKeeps ==
  ASSUME NEW b, PoolInv(b), CanAlloc(b), NEW fd \in Fds, NEW page \in Pages,
         ~Resident(b, fd, page)
  PROVE  LET c == allocate_page(b, fd, page) IN
         /\ PoolInv(c)
         /\ Grows(b, c)
         /\ c.hash_table[<<fd, page>>] = Victim(b)
         /\ Installs(internal_alloc(b), c, Victim(b),
                     [fd |-> fd, page |-> page, pin |-> 1, dirty |-> FALSE,
                      data |-> b.buffer_pool[Victim(b)].data])
<1> DEFINE c == allocate_page(b, fd, page)
           a == internal_alloc(b)
           v == Victim(b)
           e == [fd |-> fd, page |-> page, pin |-> 1, dirty |-> FALSE,
                 data |-> a.buffer_pool[v].data]
<1>2. v \in Slots /\ a \in BufferState
  BY VictimIsSlot, InternalAlloc DEF PoolInv
<1>1. e \in Entry /\ e.fd = fd /\ e.page = page
  <2> HIDE DEF a, v
  <2> QED BY <1>2 DEF Entry, BufferState
<1>3. init_page_info(a.buffer_pool, fd, page, v) =
        [a.buffer_pool EXCEPT ![v] = e]
  <2> HIDE DEF a, v
  <2> QED BY <1>2 DEF init_page_info, BufferState, Entry
<1>4. c = Load(b, e)
  BY <1>3 DEF allocate_page, Load
<1> HIDE DEF c, e
<1>5. /\ PoolInv(c) /\ Grows(b, c) /\ c.hash_table[<<fd, page>>] = v
      /\ Installs(a, c, v, e)
  BY <1>1, <1>4, LoadKeeps
<1>6. a.buffer_pool = b.buffer_pool
  BY InternalAlloc
<1> QED BY <1>5, <1>6 DEF c, e

\* force_page keeps the invariant, whatever block it writes.
LEMMA ForceKeeps ==
  ASSUME NEW b, PoolInv(b), NEW fd \in Fds, NEW page \in Pages \cup {ALL_PAGES}
  PROVE  LET c == force_page(b, fd, page)
         IN PoolInv(c) /\ Grows(b, c) /\ Saves(b, c, Forced(b, fd, page), <<fd, page>>)
<1> DEFINE c == force_page(b, fd, page)
           F == Forced(b, fd, page)
           L == {i \in 1 .. Len(b.used_list) : b.used_list[i] \in F}
           x == b.used_list[Max(L)]
           data == b.buffer_pool[x].data
           p == [s \in Slots |-> IF s \in F
                                 THEN [b.buffer_pool[s] EXCEPT !.dirty = FALSE]
                                 ELSE b.buffer_pool[s]]
           d == write_page(b.disk, fd, page, data)
<1>0. b \in BufferState /\ IsSlotList(b.used_list)
  BY DEF PoolInv, Partition
<1>1. CASE F = {}
  <2>1. c = b
    BY <1>1 DEF force_page
  <2> QED BY <1>1, <2>1 DEF Grows, Saves
<1>2. CASE F # {}
  <2>1. /\ L \in SUBSET (1 .. Len(b.used_list)) /\ L # {}
        /\ Len(b.used_list) \in Nat /\ DOMAIN b.used_list = 1 .. Len(b.used_list)
    BY <1>0, <1>2, LenProperties DEF Forced, IsSlotList, Range
  <2>2. Max(L) \in L
    <3> HIDE DEF L
    <3> QED BY <2>1, LastPosition, Zenon
  <2>3. x \in Slots /\ x \in F
    <3>1. x \in F /\ Max(L) \in 1 .. Len(b.used_list)
      BY <2>2
    <3> HIDE DEF L, F
    <3> QED BY <1>0, <3>1, ElementOfSeq DEF IsSlotList
  <2> HIDE DEF x
  <2>4. data \in Content
    BY <1>0, <2>3 DEF BufferState, Entry
  <2> HIDE DEF data
  <2>5. d \in [Block -> Content \cup {NoPage}]
    BY <1>0, <2>4 DEF write_page, BufferState, Block, ALL_PAGES
  <2>6. /\ p \in [Slots -> Entry]
        /\ \A s \in Slots : p[s].fd = b.buffer_pool[s].fd
                            /\ p[s].page = b.buffer_pool[s].page
    <3> HIDE DEF F
    <3> QED BY <1>0, Zenon DEF BufferState, Entry
  <2>7. c = [b EXCEPT !.disk = d, !.buffer_pool = p]
    BY <1>2 DEF force_page, x, data
  <2> HIDE DEF c, d, p, F, L
  <2>8. /\ c \in BufferState /\ c.used_list = b.used_list
        /\ c.free_list = b.free_list /\ c.hash_table = b.hash_table
        /\ c.buffer_pool = p /\ c.disk = d
    BY <1>0, <2>5, <2>6, <2>7, Zenon DEF BufferState
  <2>9. Saves(b, c, F, <<fd, page>>)
    BY <1>2, <2>3, <2>8, Zenon DEF Saves, p, d, data, write_page
  <2>10. PoolInv(c) /\ Grows(b, c)
    BY <1>0, <2>6, <2>8, SamePlaces
  <2> QED BY <2>9, <2>10 DEF c, F
<1> QED BY <1>1, <1>2

\* A turn of the loop of flush_pages keeps the invariant when the slot is in
\* use, moves the slot to free_list_ and leaves every entry's fd alone.
LEMMA FlushSlotKeeps ==
  ASSUME NEW b, PoolInv(b), NEW i \in Slots, i \in Range(b.used_list)
  PROVE  LET c == flush_slot(b, i) IN
         /\ PoolInv(c)
         /\ Range(c.used_list) = Range(b.used_list) \ {i}
         /\ \A s \in Slots : c.buffer_pool[s].fd = b.buffer_pool[s].fd
         /\ Frees(b, c, i)
<1> DEFINE c == flush_slot(b, i)
           e == b.buffer_pool[i]
           d == IF e.dirty THEN write_page(b.disk, e.fd, e.page, e.data)
                ELSE b.disk
           f == [e EXCEPT !.dirty = FALSE]
           p == [b.buffer_pool EXCEPT ![i] = f]
           h == [b.hash_table EXCEPT ![PageOf(b, i)] = -1]
           u == remove(b.used_list, i)
           fr == <<i>> \o b.free_list
<1>0. /\ b \in BufferState /\ Partition(b) /\ HashOK(b)
      /\ e \in Entry /\ PageOf(b, i) \in Key /\ PageOf(b, i) \in Block
  BY PageOfIsKey DEF PoolInv
<1>1. d \in [Block -> Content \cup {NoPage}]
  BY <1>0 DEF write_page, BufferState, PageOf, Entry
<1>2. f \in Entry /\ f.fd = e.fd /\ f.page = e.page
  BY <1>0, Zenon DEF Entry
<1>3. /\ p \in [Slots -> Entry]
      /\ \A s \in Slots : p[s].fd = b.buffer_pool[s].fd
                          /\ p[s].page = b.buffer_pool[s].page
  <2> HIDE DEF f
  <2> QED BY <1>0, <1>2 DEF BufferState
<1>4. h \in [Key -> Slots \cup {-1}]
  BY <1>0 DEF BufferState
<1>5. IsSlotList(u) /\ Range(u) = Range(b.used_list) \ {i}
  BY <1>0, RemoveSlot DEF Partition
<1>6. IsSlotList(fr) /\ Range(fr) = Range(b.free_list) \cup {i}
  BY <1>0, PushFront DEF Partition
<1>7. c = [b EXCEPT !.disk = d, !.buffer_pool = p, !.hash_table = h,
                    !.used_list = u, !.free_list = fr]
  BY DEF flush_slot, hash_remove, insert_free, PageOf
<1> HIDE DEF c, d, f, p, h, u, fr
<1>8. /\ c \in BufferState
      /\ c.buffer_pool = p /\ c.hash_table = h
      /\ c.used_list = u /\ c.free_list = fr /\ c.disk = d
  BY <1>0, <1>1, <1>3, <1>4, <1>5, <1>6, <1>7, Zenon DEF BufferState, IsSlotList
<1>9. Partition(c)
  BY <1>0, <1>5, <1>6, <1>8 DEF Partition
<1>10. HashOK(c)
  <2> SUFFICES ASSUME NEW k \in Key, c.hash_table[k] # -1
               PROVE  /\ c.hash_table[k] \in Range(c.used_list)
                      /\ PageOf(c, c.hash_table[k]) = k
    BY DEF HashOK
  <2>1. k # PageOf(b, i) /\ c.hash_table[k] = b.hash_table[k]
    BY <1>0, <1>8 DEF h, BufferState
  <2>2. b.hash_table[k] \in Range(b.used_list) /\ PageOf(b, b.hash_table[k]) = k
    BY <1>0, <2>1 DEF HashOK
  <2>3. b.hash_table[k] \in Slots
    BY <1>0, <2>1 DEF BufferState
  <2> QED BY <1>3, <1>5, <1>8, <2>1, <2>2, <2>3 DEF PageOf
<1>11. Frees(b, c, i)
  BY <1>5, <1>8 DEF Frees, SavedDisk, PageOf, write_page, d, f, p, h
<1> QED BY <1>3, <1>5, <1>8, <1>9, <1>10, <1>11 DEF PoolInv, c

-----------------------------------------------------------------------------
(* The pages' bytes and pins.  When no read fails every slot in use is known *)
(* to hash_table_, so that a page has one slot and a slot one page.          *)

\* What pool b says of page k, to callers with pins h, pointers p, bytes x and
\* unsaved pages u.
PageOK(b, h, p, x, u, k) ==
  LET s == b.hash_table[k]
      e == b.buffer_pool[s]
  IN /\ h[k] >= 0
     /\ k \in u => h[k] > 0
     /\ h[k] > 0 => s # -1 /\ s = p[k]
     /\ s # -1 => e.pin = h[k] /\ e.data = x[k]
     /\ (s # -1 => ~e.dirty /\ k \notin u) => b.disk[k] = x[k]

PagesOK(b, h, p, x, u) == \A k \in Key : PageOK(b, h, p, x, u, k)

\* Every slot in use, other than those of T, is the one its page leads to.
IndexedBut(b, T) ==
  \A s \in Range(b.used_list) \ T : b.hash_table[PageOf(b, s)] = s

Faithful(b, h, p, x, u) == IndexedBut(b, {}) /\ PagesOK(b, h, p, x, u)

SameBut(k, f, g) == \A j \in Key \ {k} : g[j] = f[j]

\* From b to c the pool changes page k only, and so do the callers.
OnlyPool(k, b, c) ==
  /\ SameBut(k, b.hash_table, c.hash_table) /\ SameBut(k, b.disk, c.disk)
  /\ \A j \in Key \ {k} : b.hash_table[j] # -1 =>
       c.buffer_pool[b.hash_table[j]] = b.buffer_pool[b.hash_table[j]]
OnlyCallers(k, h, p, x, u, h2, p2, x2, u2) ==
  SameBut(k, h, h2) /\ SameBut(k, p, p2) /\ SameBut(k, x, x2) /\ u \ {k} = u2 \ {k}

\* A step that touches only page k.
LEMMA OtherPages ==
  ASSUME NEW b, NEW h, NEW p, NEW x, NEW u, PagesOK(b, h, p, x, u),
         NEW c, NEW h2, NEW p2, NEW x2, NEW u2, NEW k,
         OnlyPool(k, b, c), OnlyCallers(k, h, p, x, u, h2, p2, x2, u2),
         PageOK(c, h2, p2, x2, u2, k)
  PROVE  PagesOK(c, h2, p2, x2, u2)
<1> SUFFICES ASSUME NEW j \in Key \ {k} PROVE PageOK(c, h2, p2, x2, u2, j)
  BY DEF PagesOK
<1>1. /\ c.hash_table[j] = b.hash_table[j] /\ c.disk[j] = b.disk[j]
      /\ h2[j] = h[j] /\ p2[j] = p[j] /\ x2[j] = x[j] /\ (j \in u2 <=> j \in u)
  BY DEF OnlyPool, OnlyCallers, SameBut
<1>2. b.hash_table[j] # -1 =>
        c.buffer_pool[b.hash_table[j]] = b.buffer_pool[b.hash_table[j]]
  BY DEF OnlyPool
<1>3. PageOK(b, h, p, x, u, j)
  BY DEF PagesOK
<1> QED BY <1>1, <1>2, <1>3, Zenon DEF PageOK

\* No two pages have one slot.
LEMMA SlotOfOne ==
  ASSUME NEW b, PoolInv(b), NEW k \in Key, NEW j \in Key, k # j,
         b.hash_table[k] # -1
  PROVE  b.hash_table[k] # b.hash_table[j]
BY DEF PoolInv, HashOK

\* What the callers of page k expect of entry f in slot s, when the disk is d.
EntryOK(f, s, d, h, p, x, u, k) ==
  /\ h[k] >= 0 /\ (k \in u => h[k] > 0) /\ (h[k] > 0 => s = p[k])
  /\ f.pin = h[k] /\ f.data = x[k]
  /\ ~f.dirty /\ k \notin u => d[k] = x[k]

SamePage(e, f) == f.fd = e.fd /\ f.page = e.page

\* A new entry for the same page: get_page on a resident page, a write,
\* mark_dirty and unpin_page.
LEMMA RewriteFaithful ==
  ASSUME NEW b, PoolInv(b), NEW h, NEW p, NEW x, NEW u, Faithful(b, h, p, x, u),
         NEW c, NEW k \in Key, NEW s \in Slots, s = b.hash_table[k],
         NEW f, SamePage(b.buffer_pool[s], f), Rewrites(b, c, s, f),
         NEW h2, NEW p2, NEW x2, NEW u2,
         OnlyCallers(k, h, p, x, u, h2, p2, x2, u2),
         EntryOK(f, s, b.disk, h2, p2, x2, u2, k)
  PROVE  Faithful(c, h2, p2, x2, u2)
<1>1. /\ c.buffer_pool = [b.buffer_pool EXCEPT ![s] = f]
      /\ c.hash_table = b.hash_table /\ c.disk = b.disk
      /\ Range(c.used_list) = Range(b.used_list)
  BY DEF Rewrites
<1>2. /\ c.buffer_pool[s] = f
      /\ \A t \in Slots \ {s} : c.buffer_pool[t] = b.buffer_pool[t]
      /\ Range(b.used_list) \subseteq Slots
  BY <1>1 DEF PoolInv, BufferState, Partition
<1>3. IndexedBut(c, {})
  <2> SUFFICES ASSUME NEW t \in Range(b.used_list)
               PROVE  b.hash_table[PageOf(c, t)] = t
    BY <1>1 DEF IndexedBut
  <2>1. PageOf(c, t) = PageOf(b, t)
    BY <1>2 DEF PageOf, SamePage
  <2> QED BY <2>1 DEF Faithful, IndexedBut
<1>4. s # -1
  BY PoolAssumption DEF Slots
<1>5. ASSUME NEW j \in Key \ {k}, b.hash_table[j] # -1
      PROVE  c.buffer_pool[b.hash_table[j]] = b.buffer_pool[b.hash_table[j]]
  <2>1. b.hash_table[j] \in Slots /\ b.hash_table[j] # s
    BY <1>4, <1>5, SlotOfOne, Zenon DEF PoolInv, BufferState
  <2> QED BY <1>2, <2>1
<1>6. PageOK(c, h2, p2, x2, u2, k)
  BY <1>1, <1>2, <1>4, Zenon DEF PageOK, EntryOK
<1>7. OnlyPool(k, b, c)
  BY <1>1, <1>5 DEF OnlyPool, SameBut
<1>8. PagesOK(c, h2, p2, x2, u2)
  BY <1>6, <1>7, OtherPages DEF Faithful
<1> QED BY <1>3, <1>8 DEF Faithful

\* internal_alloc saves the page it takes a slot from.
LEMMA TakeFaithful ==
  ASSUME NEW b, PoolInv(b), NEW h, NEW p, NEW x, NEW u, Faithful(b, h, p, x, u),
         NEW a, NEW v \in Slots, Takes(b, a, v)
  PROVE  PagesOK(a, h, p, x, u) /\ IndexedBut(a, {v})
<1>0. b \in BufferState /\ IndexedBut(b, {}) /\ PagesOK(b, h, p, x, u)
  BY DEF PoolInv, Faithful
<1>1. CASE v \notin Range(b.used_list)
  <2>1. /\ a.buffer_pool = b.buffer_pool /\ a.hash_table = b.hash_table
        /\ a.disk = b.disk /\ Range(a.used_list) = Range(b.used_list) \cup {v}
    BY <1>1 DEF Takes
  <2> QED BY <1>0, <2>1 DEF PagesOK, PageOK, IndexedBut, PageOf
<1>2. CASE v \in Range(b.used_list)
  <2> DEFINE k == PageOf(b, v)
             e == b.buffer_pool[v]
  <2>1. /\ a.buffer_pool = b.buffer_pool /\ e.pin = 0
        /\ Range(a.used_list) = Range(b.used_list)
        /\ a.hash_table = [b.hash_table EXCEPT ![k] = -1]
        /\ a.disk = SavedDisk(b, v)
    BY <1>2 DEF Takes
  <2>2. k \in Key /\ k \in Block /\ b.hash_table[k] = v /\ v # -1
    BY <1>0, <1>2, PageOfIsKey, PoolAssumption DEF IndexedBut, Slots
  <2>3. PageOK(b, h, p, x, u, k)
    BY <1>0, <2>2 DEF PagesOK
  <2> HIDE DEF k
  <2>4. h[k] = 0 /\ k \notin u /\ e.data = x[k] /\ (~e.dirty => b.disk[k] = x[k])
    BY <2>1, <2>2, <2>3 DEF PageOK
  <2>5. a.hash_table[k] = -1 /\ SameBut(k, b.hash_table, a.hash_table)
    BY <1>0, <2>1, <2>2 DEF SameBut, BufferState
  <2>6. a.disk[k] = x[k] /\ SameBut(k, b.disk, a.disk)
    <3>1. CASE e.dirty
      <4>1. a.disk = [b.disk EXCEPT ![k] = e.data]
        BY <2>1, <3>1 DEF SavedDisk, k
      <4>2. \A j \in Key : j \in DOMAIN b.disk
        BY <1>0 DEF BufferState, Key, Block
      <4> QED BY <2>2, <2>4, <4>1, <4>2 DEF SameBut
    <3>2. CASE ~e.dirty
      BY <2>1, <2>4, <3>2 DEF SavedDisk, SameBut
    <3> QED BY <3>1, <3>2
  <2>7. PageOK(a, h, p, x, u, k)
    BY <2>4, <2>5, <2>6 DEF PageOK
  <2>8. PagesOK(a, h, p, x, u)
    <3>1. OnlyPool(k, b, a)
      BY <2>1, <2>5, <2>6 DEF OnlyPool
    <3>2. OnlyCallers(k, h, p, x, u, h, p, x, u)
      BY DEF OnlyCallers, SameBut
    <3> QED BY <1>0, <2>7, <3>1, <3>2, OtherPages
  <2>9. IndexedBut(a, {v})
    <3> SUFFICES ASSUME NEW s \in Range(b.used_list) \ {v}
                 PROVE  a.hash_table[PageOf(b, s)] = s
      BY <2>1 DEF IndexedBut, PageOf
    <3>1. b.hash_table[PageOf(b, s)] = s
      BY <1>0 DEF IndexedBut
    <3>2. PageOf(b, s) \in Key /\ PageOf(b, s) # k
      BY <1>0, <2>2, <3>1, PageOfIsKey DEF PoolInv, Partition
    <3> QED BY <2>5, <3>1, <3>2 DEF SameBut
  <2> QED BY <2>8, <2>9
<1> QED BY <1>1, <1>2

\* Slot v is in use and no page's, and page k has no slot.
Vacant(b, v, k) ==
  /\ v \in Range(b.used_list) /\ IndexedBut(b, {v})
  /\ \A j \in Key : b.hash_table[j] # v
  /\ b.hash_table[k] = -1

\* Entry e is page k's, pinned once, with the bytes expected; if they are not
\* marked as unsaved they are those of disk d.
Fresh(e, k, d, x, u) ==
  /\ e \in Entry /\ k = <<e.fd, e.page>> /\ e.pin = 1 /\ x[k] = e.data
  /\ ~e.dirty /\ k \notin u => d[k] = x[k]

\* A page comes into the slot: with the bytes of the disk, or as a fresh page
\* that is unsaved.
LEMMA InstallFaithful ==
  ASSUME NEW a, PoolInv(a), NEW h \in [Key -> Int], NEW p \in [Key -> Slots \cup {-1}],
         NEW x, NEW u, PagesOK(a, h, p, x, u),
         NEW v \in Slots, NEW k \in Key, Vacant(a, v, k),
         NEW x2, NEW u2, OnlyCallers(k, h, p, x, u, h, p, x2, u2),
         NEW e, Fresh(e, k, a.disk, x2, u2), NEW c, Installs(a, c, v, e)
  PROVE  Faithful(c, [h EXCEPT ![k] = @ + 1], [p EXCEPT ![k] = v], x2, u2)
<1> DEFINE h2 == [h EXCEPT ![k] = @ + 1]
           p2 == [p EXCEPT ![k] = v]
<1>0. a \in BufferState /\ v # -1 /\ Range(a.used_list) \subseteq Slots
  BY PoolAssumption DEF PoolInv, Slots, Partition
<1>1. /\ c.buffer_pool = [a.buffer_pool EXCEPT ![v] = e]
      /\ c.hash_table = [a.hash_table EXCEPT ![k] = v]
      /\ c.used_list = a.used_list /\ c.disk = a.disk
  BY DEF Installs, Fresh
<1>2. /\ c.buffer_pool[v] = e /\ c.hash_table[k] = v
      /\ SameBut(k, a.hash_table, c.hash_table)
      /\ \A t \in Slots \ {v} : c.buffer_pool[t] = a.buffer_pool[t]
  BY <1>0, <1>1 DEF BufferState, SameBut
<1>3. h[k] = 0
  BY DEF PagesOK, PageOK, Vacant
<1>4. h2[k] = 1 /\ p2[k] = v /\ SameBut(k, h, h2) /\ SameBut(k, p, p2)
  BY <1>3 DEF SameBut
<1> HIDE DEF h2, p2
<1>5. PageOK(c, h2, p2, x2, u2, k)
  <2>1. h2[k] >= 0 /\ h2[k] > 0 /\ e.pin = h2[k]
    BY <1>4 DEF Fresh
  <2>2. e.data = x2[k] /\ (~e.dirty /\ k \notin u2 => c.disk[k] = x2[k])
    BY <1>1, Zenon DEF Fresh
  <2> QED BY <1>0, <1>2, <1>4, <2>1, <2>2, Zenon DEF PageOK
<1>6. ASSUME NEW j \in Key \ {k}, a.hash_table[j] # -1
      PROVE  c.buffer_pool[a.hash_table[j]] = a.buffer_pool[a.hash_table[j]]
  BY <1>0, <1>2, <1>6 DEF BufferState, Vacant
<1>7. SameBut(k, a.disk, c.disk)
  BY <1>1 DEF SameBut
<1>8. PagesOK(c, h2, p2, x2, u2)
  <2>1. OnlyPool(k, a, c)
    BY <1>2, <1>6, <1>7 DEF OnlyPool
  <2>2. OnlyCallers(k, h, p, x, u, h2, p2, x2, u2)
    BY <1>4 DEF OnlyCallers, SameBut
  <2> QED BY <1>5, <2>1, <2>2, OtherPages
<1>9. IndexedBut(c, {})
  <2> SUFFICES ASSUME NEW s \in Range(a.used_list)
               PROVE  c.hash_table[PageOf(c, s)] = s
    BY <1>1 DEF IndexedBut
  <2>1. CASE s = v
    BY <1>2, <2>1 DEF PageOf, Fresh
  <2>2. CASE s # v
    <3>1. PageOf(c, s) = PageOf(a, s) /\ a.hash_table[PageOf(a, s)] = s
      BY <1>0, <1>2, <2>2 DEF PageOf, IndexedBut, Vacant
    <3>2. PageOf(a, s) \in Key /\ s # -1
      BY <1>0, PageOfIsKey, PoolAssumption DEF Slots
    <3> QED BY <1>2, <3>1, <3>2 DEF SameBut, Vacant
  <2> QED BY <2>1, <2>2
<1> QED BY <1>8, <1>9 DEF Faithful, h2, p2

\* force_page on one page.
LEMMA SaveFaithful ==
  ASSUME NEW b, PoolInv(b), NEW h, NEW p, NEW x, NEW u, Faithful(b, h, p, x, u),
         NEW fd \in Fds, NEW page \in Pages, NEW c,
         Saves(b, c, Forced(b, fd, page), <<fd, page>>)
  PROVE  Faithful(c, h, p, x, u)
<1> DEFINE k == <<fd, page>>
           F == Forced(b, fd, page)
<1>0. /\ b \in BufferState /\ IndexedBut(b, {}) /\ PagesOK(b, h, p, x, u)
      /\ k \in Key /\ k \in Block /\ Range(b.used_list) \subseteq Slots
  BY DEF PoolInv, Partition, Faithful, Key, Block
<1>1. ASSUME NEW s \in F PROVE s = b.hash_table[k] /\ s \in Slots
  <2>1. s \in Range(b.used_list) /\ PageOf(b, s) = k
    BY PoolAssumption DEF Forced, PageOf, ALL_PAGES
  <2> QED BY <1>0, <2>1 DEF IndexedBut
<1> HIDE DEF k, F
<1>2. CASE F = {}
  <2>1. c = b
    BY <1>2 DEF Saves, F
  <2> QED BY <2>1
<1>3. CASE F # {}
  <2>1. PICK s \in F : c.disk = [b.disk EXCEPT ![k] = b.buffer_pool[s].data]
    BY <1>3, Zenon DEF Saves, F, k
  <2>2. /\ s = b.hash_table[k] /\ s \in Slots /\ s # -1 /\ \A t \in F : t = s
    BY <1>1, PoolAssumption DEF Slots
  <2>3. /\ c.hash_table = b.hash_table /\ c.used_list = b.used_list
        /\ c.buffer_pool = [t \in Slots |-> IF t \in F
                                            THEN [b.buffer_pool[t] EXCEPT !.dirty = FALSE]
                                            ELSE b.buffer_pool[t]]
    BY <1>3 DEF Saves, F
  <2>4. /\ c.buffer_pool[s] = [b.buffer_pool[s] EXCEPT !.dirty = FALSE]
        /\ \A t \in Slots \ {s} : c.buffer_pool[t] = b.buffer_pool[t]
    BY <2>2, <2>3
  <2>5. b.buffer_pool[s] \in Entry
    BY <1>0, <2>2 DEF BufferState
  <2>6. /\ c.buffer_pool[s].fd = b.buffer_pool[s].fd
        /\ c.buffer_pool[s].page = b.buffer_pool[s].page
        /\ c.buffer_pool[s].pin = b.buffer_pool[s].pin
        /\ c.buffer_pool[s].data = b.buffer_pool[s].data
    BY <2>4, <2>5 DEF Entry
  <2>7. IndexedBut(c, {})
    <3> SUFFICES ASSUME NEW t \in Range(b.used_list)
                 PROVE  b.hash_table[PageOf(c, t)] = t
      BY <2>3 DEF IndexedBut
    <3>1. PageOf(c, t) = PageOf(b, t)
      BY <1>0, <2>4, <2>6, Zenon DEF PageOf
    <3> QED BY <1>0, <3>1 DEF IndexedBut
  <2>8. /\ c.disk[k] = b.buffer_pool[s].data /\ SameBut(k, b.disk, c.disk)
    <3>1. \A j \in Key : j \in DOMAIN b.disk
      BY <1>0 DEF BufferState, Key, Block
    <3> QED BY <1>0, <2>1, <3>1 DEF SameBut
  <2>9. PageOK(b, h, p, x, u, k)
    BY <1>0 DEF PagesOK
  <2>10. PageOK(c, h, p, x, u, k)
    BY <2>2, <2>3, <2>6, <2>8, <2>9, Zenon DEF PageOK
  <2>11. OnlyPool(k, b, c)
    <3>1. ASSUME NEW j \in Key \ {k}, b.hash_table[j] # -1
          PROVE  c.buffer_pool[b.hash_table[j]] = b.buffer_pool[b.hash_table[j]]
      <4>1. b.hash_table[j] \in Slots /\ b.hash_table[j] # s
        BY <1>0, <2>2, <3>1, SlotOfOne DEF BufferState
      <4> QED BY <2>4, <4>1
    <3> QED BY <2>3, <2>8, <3>1 DEF OnlyPool, SameBut
  <2>12. OnlyCallers(k, h, p, x, u, h, p, x, u)
    BY DEF OnlyCallers, SameBut
  <2>13. PagesOK(c, h, p, x, u)
    BY <1>0, <2>10, <2>11, <2>12, OtherPages
  <2> QED BY <2>7, <2>13 DEF Faithful
<1> QED BY <1>2, <1>3

\* A turn of the loop of flush_pages, on a slot that is not pinned.
LEMMA FreeFaithful ==
  ASSUME NEW b, PoolInv(b), NEW h \in [Key -> Int], NEW p, NEW x, NEW u,
         Faithful(b, h, p, x, u), NEW i \in Slots, i \in Range(b.used_list),
         ~(b.buffer_pool[i].pin > 0), NEW c, Frees(b, c, i)
  PROVE  Faithful(c, h, p, x, u)
<1> DEFINE k == PageOf(b, i)
           e == b.buffer_pool[i]
           f == [e EXCEPT !.dirty = FALSE]
<1>0. /\ b \in BufferState /\ IndexedBut(b, {}) /\ PagesOK(b, h, p, x, u)
      /\ k \in Key /\ k \in Block /\ e \in Entry /\ Range(b.used_list) \subseteq Slots
  BY PageOfIsKey DEF PoolInv, Partition, Faithful
<1>1. b.hash_table[k] = i /\ i # -1
  BY <1>0, PoolAssumption DEF IndexedBut, Slots
<1>2. PageOK(b, h, p, x, u, k)
  BY <1>0 DEF PagesOK
<1>3. /\ c.buffer_pool = [b.buffer_pool EXCEPT ![i] = f]
      /\ c.hash_table = [b.hash_table EXCEPT ![k] = -1]
      /\ c.disk = SavedDisk(b, i)
      /\ Range(c.used_list) = Range(b.used_list) \ {i}
  BY DEF Frees
<1> HIDE DEF k, f
<1>4. h[k] = 0 /\ k \notin u /\ e.data = x[k] /\ (~e.dirty => b.disk[k] = x[k])
  <2>1. e.pin = h[k] /\ h[k] >= 0 /\ h[k] \in Int /\ ~(e.pin > 0)
    BY <1>0, <1>1, <1>2 DEF PageOK
  <2>2. h[k] = 0
    BY <2>1
  <2> QED BY <1>1, <1>2, <2>2 DEF PageOK
<1>5. c.hash_table[k] = -1 /\ SameBut(k, b.hash_table, c.hash_table)
  BY <1>0, <1>3 DEF SameBut, BufferState
<1>6. c.disk[k] = x[k] /\ SameBut(k, b.disk, c.disk)
  <2>1. CASE e.dirty
    <3>1. c.disk = [b.disk EXCEPT ![k] = e.data]
      BY <1>3, <2>1 DEF SavedDisk, k
    <3>2. \A j \in Key : j \in DOMAIN b.disk
      BY <1>0 DEF BufferState, Key, Block
    <3> QED BY <1>0, <1>4, <3>1, <3>2 DEF SameBut
  <2>2. CASE ~e.dirty
    BY <1>3, <1>4, <2>2 DEF SavedDisk, SameBut
  <2> QED BY <2>1, <2>2
<1>7. PageOK(c, h, p, x, u, k)
  BY <1>4, <1>5, <1>6 DEF PageOK
<1>8. \A t \in Slots \ {i} : c.buffer_pool[t] = b.buffer_pool[t]
  BY <1>0, <1>3 DEF BufferState
<1>9. OnlyPool(k, b, c)
  <2>1. ASSUME NEW j \in Key \ {k}, b.hash_table[j] # -1
        PROVE  c.buffer_pool[b.hash_table[j]] = b.buffer_pool[b.hash_table[j]]
    <3>1. b.hash_table[j] \in Slots /\ b.hash_table[j] # i
      BY <1>0, <1>1, <2>1, SlotOfOne DEF BufferState
    <3> QED BY <1>8, <3>1
  <2> QED BY <1>5, <1>6, <2>1 DEF OnlyPool
<1>10. OnlyCallers(k, h, p, x, u, h, p, x, u)
  BY DEF OnlyCallers, SameBut
<1>11. PagesOK(c, h, p, x, u)
  BY <1>0, <1>7, <1>9, <1>10, OtherPages
<1>12. IndexedBut(c, {})
  <2> SUFFICES ASSUME NEW s \in Range(b.used_list) \ {i}
               PROVE  c.hash_table[PageOf(c, s)] = s
    BY <1>3 DEF IndexedBut
  <2>1. PageOf(c, s) = PageOf(b, s) /\ b.hash_table[PageOf(b, s)] = s
    BY <1>0, <1>8 DEF PageOf, IndexedBut
  <2>2. PageOf(b, s) \in Key /\ PageOf(b, s) # k
    BY <1>0, <1>1, <2>1, PageOfIsKey
  <2> QED BY <1>5, <2>1, <2>2 DEF SameBut
<1> QED BY <1>11, <1>12 DEF Faithful

=============================================================================
