------------------------- MODULE BufferManagerProofs -------------------------
(***************************************************************************)
(* The buffer manager.  TypeOK, SlotPartition and HashAgrees hold of every *)
(* behaviour, for every size of the pool,                                  *)
(* every set of files and pages, every content of the uninitialised        *)
(* entries, and with reads that fail, as long as open(2) returns numbers   *)
(* no entry carries (~FdReuse).  PinsHonoured, NoLostUpdate and            *)
(* ClosedIsDurable hold, and a pinned page keeps its slot, when moreover   *)
(* no read fails and force_page is not given ALL_PAGES.  One lemma for     *)
(* each action, on each of the two invariants, from BufferPoolProofs.      *)
(***************************************************************************)
EXTENDS BufferManager, BufferPoolProofs

-----------------------------------------------------------------------------
(* The buffer manager *)

\* flush_pages recognises the slots of a file by their fd field, which outlives
\* the slot's use.  With fresh numbers a slot with the number of an open file is in
\* use until the loop has passed it.
FlushMeetsUsed ==
  \A s \in Slots :
    LET fd == bm.buffer_pool[s].fd
    IN fd \in open /\ ~(fd \in closing /\ s < cursor) => s \in Range(bm.used_list)

\* The inductive invariant.  FlushMeetsUsed is what makes the flush loop keep
\* SlotPartition; it rests on ~FdReuse, which no step changes.
IInv == ~FdReuse /\ TypeOK /\ PoolInv(bm) /\ FlushMeetsUsed

-----------------------------------------------------------------------------

\* A step that changes the pool in a way no slot leaves used_list_ and every
\* slot that changes file is in use keeps FlushMeetsUsed.
LEMMA GrowsKeepsFlush ==
  ASSUME IInv, Grows(bm, bm'), UNCHANGED <<open, closing, cursor>>
  PROVE  FlushMeetsUsed'
<1> SUFFICES ASSUME NEW s \in Slots, bm'.buffer_pool[s].fd \in open,
                    ~(bm'.buffer_pool[s].fd \in closing /\ s < cursor)
             PROVE  s \in Range(bm'.used_list)
  BY DEF FlushMeetsUsed
<1> QED BY DEF IInv, FlushMeetsUsed, Grows

\* A step that leaves the pool and the loop of flush_pages alone.
LEMMA SamePool ==
  ASSUME IInv, TypeOK', UNCHANGED <<bm, open, closing, cursor>>
  PROVE  IInv'
BY DEF IInv, PoolInv, Partition, HashOK, PageOf, FlushMeetsUsed

\* A call that keeps the pool's invariant and takes no slot out of use.
LEMMA PoolStep ==
  ASSUME IInv, TypeOK', PoolInv(bm'), Grows(bm, bm'),
         UNCHANGED <<open, closing, cursor>>
  PROVE  IInv'
<1>1. FlushMeetsUsed'
  BY GrowsKeepsFlush
<1>2. PoolInv(bm)'
  BY DEF PoolInv, Partition, HashOK, PageOf
<1> QED BY <1>1, <1>2 DEF IInv

\* An uncaught exception.
LEMMA TerminateKeeps ==
  ASSUME IInv, Terminate
  PROVE  IInv'
<1>1. TypeOK'
  BY Zenon DEF IInv, TypeOK, Terminate, callers
<1> QED BY <1>1, SamePool DEF Terminate

\* The constructor: every slot free, no page known.
LEMMA InitEstablishes == ~FdReuse /\ Init => IInv
<1> SUFFICES ASSUME ~FdReuse, Init PROVE IInv
  OBVIOUS
<1>1. PICK pool \in [Slots -> GarbageEntries], disk \in InitialDisks :
        bm = EmptyPool(pool, disk) /\ expect = [k \in Key |-> disk[k]]
  BY Zenon DEF Init, EmptyPool
<1>2. /\ pool \in [Slots -> Entry]
      /\ disk \in [Block -> Content \cup {NoPage}]
  BY ManagerAssumption
<1>3. PoolInv(bm)
  BY <1>1, <1>2, EmptyPoolOK, Zenon
<1>4. bm \in BufferState
  BY <1>3 DEF PoolInv
<1>5. expect \in [Key -> Content \cup {NoPage}]
  BY <1>1, <1>2 DEF Key, Block
<1>6. TypeOK
  BY <1>4, <1>5, PoolAssumption DEF Init, TypeOK
<1>7. FlushMeetsUsed
  BY DEF Init, FlushMeetsUsed
<1> QED BY <1>3, <1>6, <1>7 DEF IInv

-----------------------------------------------------------------------------

\* get_page, on each of its four paths.
LEMMA GetPageKeeps ==
  ASSUME IInv, NEW fd \in Fds, NEW page \in Pages, NEW multiple_pins \in BOOLEAN,
         GetPage(fd, page, multiple_pins)
  PROVE  IInv'
<1>0. <<fd, page>> \in Key /\ PoolInv(bm) /\ bm \in BufferState /\ TypeOK
  BY DEF IInv, PoolInv, Key
<1>1. ASSUME PoolInv(bm'), Grows(bm, bm'), Pinned(fd, page), UNCHANGED expect
      PROVE  IInv'
  <2>1. bm' \in BufferState
    BY <1>1 DEF PoolInv
  <2>2. find(bm'.hash_table, fd, page) \in Slots \cup {-1}
    BY <1>0, <2>1 DEF find, BufferState
  <2>3. TypeOK'
    BY <1>0, <1>1, <2>1, <2>2 DEF TypeOK, Pinned
  <2> QED BY <1>1, <2>3, PoolStep DEF Pinned
<1>2. CASE GetHit(fd, page, multiple_pins)
  BY <1>0, <1>1, <1>2, GetHitKeeps, Zenon DEF GetHit
<1>3. CASE GetMiss(fd, page)
  <2> DEFINE a == internal_alloc(bm)
             data == read_page(a.disk, fd, page)
  <2>1. ~Resident(bm, fd, page) /\ CanAlloc(bm) /\ data # NoPage
        /\ bm' = get_miss(bm, fd, page, data)
        /\ Pinned(fd, page) /\ UNCHANGED expect
    BY <1>3 DEF GetMiss
  <2>2. a \in BufferState
    BY <1>0, <2>1, InternalAlloc DEF PoolInv
  <2> HIDE DEF a
  <2>3. a.disk \in [Block -> Content \cup {NoPage}] /\ <<fd, page>> \in Block
    BY <2>2 DEF BufferState, Block
  <2>4. data \in Content
    BY <2>1, <2>3, PoolAssumption DEF read_page
  <2> HIDE DEF data
  <2> QED BY <1>0, <1>1, <2>1, <2>4, GetMissKeeps, Zenon
<1>4. CASE GetFails(fd, page)
  <2>1. CanAlloc(bm) /\ bm' = internal_alloc(bm)
        /\ UNCHANGED <<open, closing, cursor, alive, held, ptr, expect, unsaved>>
    BY <1>4 DEF GetFails, callers
  <2>2. PoolInv(bm') /\ Grows(bm, bm')
    BY <1>0, <2>1, InternalAlloc
  <2>3. TypeOK'
    BY <1>0, <2>1, <2>2 DEF TypeOK, PoolInv
  <2> QED BY <2>1, <2>2, <2>3, PoolStep
<1>5. CASE GetThrows(fd, page, multiple_pins)
  BY <1>5, TerminateKeeps DEF GetThrows
<1> QED BY <1>2, <1>3, <1>4, <1>5 DEF GetPage

\* allocate_page, which throws, yields nullptr or takes a slot.
LEMMA AllocatePageKeeps ==
  ASSUME IInv, NEW fd \in Fds, NEW page \in Pages, AllocatePage(fd, page)
  PROVE  IInv'
<1>0. <<fd, page>> \in Key /\ PoolInv(bm) /\ bm \in BufferState /\ TypeOK
  BY DEF IInv, PoolInv, Key
<1>1. CASE Resident(bm, fd, page) \/ ~CanAlloc(bm)
  BY <1>1, TerminateKeeps DEF AllocatePage
<1>2. CASE ~Resident(bm, fd, page) /\ CanAlloc(bm)
  <2> DEFINE v == Victim(bm)
             data == bm.buffer_pool[v].data
  <2>1. /\ bm' = allocate_page(bm, fd, page)
        /\ held' = [held EXCEPT ![<<fd, page>>] = @ + 1]
        /\ ptr' = [ptr EXCEPT ![<<fd, page>>] = v]
        /\ expect' = [expect EXCEPT ![<<fd, page>>] = data]
        /\ unsaved' = unsaved \cup {<<fd, page>>}
        /\ UNCHANGED <<open, closing, cursor, alive>>
    BY <1>2 DEF AllocatePage
  <2>2. PoolInv(bm') /\ Grows(bm, bm')
    BY <1>0, <1>2, <2>1, AllocateKeeps, Zenon
  <2>3. v \in Slots
    BY <1>0, <1>2, VictimIsSlot
  <2> HIDE DEF v
  <2>4. data \in Content
    BY <1>0, <2>3 DEF BufferState, Entry
  <2> HIDE DEF data
  <2>5. TypeOK'
    BY <1>0, <2>1, <2>2, <2>3, <2>4 DEF TypeOK, PoolInv
  <2> QED BY <2>1, <2>2, <2>5, PoolStep
<1> QED BY <1>1, <1>2

-----------------------------------------------------------------------------

\* A write through a data pointer.
LEMMA WriteDataKeeps ==
  ASSUME IInv, NEW fd \in Fds, NEW page \in Pages, NEW data \in Content,
         WriteData(fd, page, data)
  PROVE  IInv'
<1> DEFINE k == <<fd, page>>
           s == ptr[k]
<1>0. k \in Key /\ PoolInv(bm) /\ bm \in BufferState /\ TypeOK
  BY DEF IInv, PoolInv, Key
<1>1. /\ bm' = [bm EXCEPT !.buffer_pool[s].data = data]
      /\ expect' = [expect EXCEPT ![k] = data]
      /\ unsaved' = unsaved \cup {k}
      /\ UNCHANGED <<open, closing, cursor, alive, held, ptr>>
  BY DEF WriteData
<1>2. s \in Slots \cup {-1}
  BY <1>0 DEF TypeOK
<1> HIDE DEF k, s
<1>4. PoolInv(bm') /\ Grows(bm, bm')
  <2>1. CASE s \in Slots
    BY <1>0, <1>1, <2>1, WriteKeeps, Zenon
  <2>2. CASE s \notin Slots
    <3>1. bm' = bm
      BY <1>0, <1>1, <2>2 DEF BufferState
    <3> QED BY <1>0, <3>1 DEF Grows
  <2> QED BY <2>1, <2>2
<1>5. TypeOK'
  BY <1>0, <1>1, <1>4 DEF TypeOK, PoolInv
<1> QED BY <1>1, <1>4, <1>5, PoolStep

\* mark_dirty.
LEMMA MarkDirtyStep ==
  ASSUME IInv, NEW fd \in Fds, NEW page \in Pages, MarkDirty(fd, page)
  PROVE  IInv'
<1>0. PoolInv(bm) /\ TypeOK
  BY DEF IInv
<1>1. CASE ~Resident(bm, fd, page)
  BY <1>1, TerminateKeeps DEF MarkDirty
<1>2. CASE Resident(bm, fd, page)
  <2>1. /\ bm' = mark_dirty(bm, fd, page)
        /\ unsaved' = unsaved \ {<<fd, page>>}
        /\ UNCHANGED <<open, closing, cursor, alive, held, ptr, expect>>
    BY <1>2 DEF MarkDirty
  <2>2. PoolInv(bm') /\ Grows(bm, bm')
    BY <1>0, <1>2, <2>1, MarkDirtyKeeps, Zenon
  <2>3. TypeOK'
    BY <1>0, <2>1, <2>2 DEF TypeOK, PoolInv
  <2> QED BY <2>1, <2>2, <2>3, PoolStep
<1> QED BY <1>1, <1>2

\* unpin_page.
LEMMA UnpinStep ==
  ASSUME IInv, NEW fd \in Fds, NEW page \in Pages, UnpinPage(fd, page)
  PROVE  IInv'
<1> DEFINE k == <<fd, page>>
           pin == bm.buffer_pool[find(bm.hash_table, fd, page)].pin
<1>0. k \in Key /\ PoolInv(bm) /\ TypeOK
  BY DEF IInv, Key
<1>1. CASE ~Resident(bm, fd, page) \/ pin = 0
  BY <1>1, TerminateKeeps DEF UnpinPage
<1>2. CASE Resident(bm, fd, page) /\ pin # 0
  <2>1. /\ bm' = unpin_page(bm, fd, page)
        /\ held' = [held EXCEPT ![k] = @ - 1]
        /\ ptr' = [ptr EXCEPT ![k] = IF held[k] = 1 THEN -1 ELSE @]
        /\ UNCHANGED <<open, closing, cursor, alive, expect, unsaved>>
    BY <1>2 DEF UnpinPage
  <2> HIDE DEF k
  <2>2. PoolInv(bm') /\ Grows(bm, bm')
    BY <1>0, <1>2, <2>1, UnpinKeeps, Zenon
  <2>3. TypeOK'
    BY <1>0, <2>1, <2>2 DEF TypeOK, PoolInv
  <2> QED BY <2>1, <2>2, <2>3, PoolStep
<1> QED BY <1>1, <1>2

\* force_page.
LEMMA ForceStep ==
  ASSUME IInv, NEW fd \in Fds, NEW page \in ForcePages, ForcePage(fd, page)
  PROVE  IInv'
<1>1. /\ bm' = force_page(bm, fd, page)
      /\ UNCHANGED <<open, closing, cursor, alive, held, ptr, expect, unsaved>>
  BY DEF ForcePage, callers
<1>2. PoolInv(bm') /\ Grows(bm, bm')
  BY <1>1, ForceKeeps, ManagerAssumption, Zenon DEF IInv
<1>3. TypeOK'
  BY <1>1, <1>2 DEF IInv, TypeOK, PoolInv
<1> QED BY <1>1, <1>2, <1>3, PoolStep

\* One turn of the loop of flush_pages.
LEMMA FlushSlotStep ==
  ASSUME IInv, NEW fd \in Fds, FlushSlot(fd)
  PROVE  IInv'
<1> DEFINE e == bm.buffer_pool[cursor]
<1>0. /\ PoolInv(bm) /\ TypeOK /\ closing = {fd} /\ cursor \in Slots /\ fd \in open
      /\ open \subseteq Fds
  BY PoolAssumption DEF IInv, TypeOK, FlushSlot, Slots
<1>1. CASE e.fd = fd /\ e.pin > 0
  BY <1>1, TerminateKeeps, Zenon DEF FlushSlot
<1>2. CASE ~(e.fd = fd /\ e.pin > 0)
  <2>1. /\ bm' = IF e.fd = fd THEN flush_slot(bm, cursor) ELSE bm
        /\ cursor' = cursor + 1
        /\ UNCHANGED <<open, closing, alive, held, ptr, expect, unsaved>>
    BY <1>2, Zenon DEF FlushSlot, callers
  <2>2. /\ PoolInv(bm')
        /\ \A s \in Slots : bm'.buffer_pool[s].fd = bm.buffer_pool[s].fd
        /\ \A s \in Slots : s \in Range(bm.used_list) /\ (s = cursor => e.fd # fd)
                            => s \in Range(bm'.used_list)
    <3>1. CASE e.fd = fd
      <4>1. cursor \in Range(bm.used_list)
        BY <1>0, <3>1, PoolAssumption DEF IInv, FlushMeetsUsed, Slots
      <4>2. bm' = flush_slot(bm, cursor)
        BY <2>1, <3>1
      <4>3. /\ PoolInv(bm')
            /\ Range(bm'.used_list) = Range(bm.used_list) \ {cursor}
            /\ \A s \in Slots : bm'.buffer_pool[s].fd = bm.buffer_pool[s].fd
        BY <1>0, <4>1, <4>2, FlushSlotKeeps
      <4> QED BY <3>1, <4>3
    <3>2. CASE e.fd # fd
      BY <1>0, <2>1, <3>2
    <3> QED BY <3>1, <3>2
  <2>3. TypeOK'
    <3>1. bm' \in BufferState
      BY <2>2 DEF PoolInv
    <3>2. cursor' \in 0 .. PoolSize
      BY <1>0, <2>1, PoolAssumption DEF Slots
    <3> QED BY <1>0, <2>1, <3>1, <3>2 DEF TypeOK
  <2>4. FlushMeetsUsed'
    <3> SUFFICES ASSUME NEW s \in Slots, bm'.buffer_pool[s].fd \in open,
                        ~(bm'.buffer_pool[s].fd = fd /\ s < cursor + 1)
                 PROVE  s \in Range(bm'.used_list)
      BY <1>0, <2>1 DEF FlushMeetsUsed
    <3>1. bm.buffer_pool[s].fd \in open /\ bm.buffer_pool[s].fd = bm'.buffer_pool[s].fd
      BY <2>2
    <3>2. ~(bm.buffer_pool[s].fd \in closing /\ s < cursor)
      BY <1>0, <3>1, PoolAssumption DEF Slots
    <3>3. s \in Range(bm.used_list)
      BY <3>1, <3>2 DEF IInv, FlushMeetsUsed
    <3>4. s = cursor => e.fd # fd
      BY <1>0, <3>1, PoolAssumption DEF Slots
    <3> QED BY <2>2, <3>3, <3>4
  <2>5. PoolInv(bm)'
    BY <2>2 DEF PoolInv, Partition, HashOK, PageOf
  <2> QED BY <2>3, <2>4, <2>5 DEF IInv
<1> QED BY <1>1, <1>2

-----------------------------------------------------------------------------

\* Every step keeps the inductive invariant.
LEMMA NextKeeps == IInv /\ [Next]_vars => IInv'
<1> SUFFICES ASSUME IInv, [Next]_vars PROVE IInv'
  OBVIOUS
<1>1. CASE UNCHANGED vars
  <2>1. TypeOK'
    BY <1>1 DEF IInv, TypeOK, vars
  <2> QED BY <1>1, <2>1, SamePool DEF vars
<1>2. ASSUME NEW fd \in Fds, OpenFile(fd)
      PROVE  IInv'
  <2>1. /\ open' = open \cup {fd}
        /\ \A s \in Slots : bm.buffer_pool[s].fd # fd
        /\ UNCHANGED <<bm, closing, cursor, alive, held, ptr, expect, unsaved>>
    BY <1>2 DEF IInv, OpenFile, callers
  <2>2. TypeOK'
    BY <1>2, <2>1 DEF IInv, TypeOK
  <2>3. FlushMeetsUsed'
    BY <2>1 DEF IInv, FlushMeetsUsed
  <2>4. PoolInv(bm)'
    BY <2>1 DEF IInv, PoolInv, Partition, HashOK, PageOf
  <2> QED BY <2>2, <2>3, <2>4 DEF IInv
<1>3. ASSUME NEW fd \in Fds, FlushBegin(fd)
      PROVE  IInv'
  <2>1. /\ fd \in open /\ closing = {} /\ closing' = {fd} /\ cursor' = 0
        /\ UNCHANGED <<bm, open, alive, held, ptr, expect, unsaved>>
    BY <1>3 DEF FlushBegin, Ready, callers
  <2>2. TypeOK'
    BY <2>1, PoolAssumption DEF IInv, TypeOK
  <2>3. FlushMeetsUsed'
    BY <2>1 DEF IInv, FlushMeetsUsed
  <2>4. PoolInv(bm)'
    BY <2>1 DEF IInv, PoolInv, Partition, HashOK, PageOf
  <2> QED BY <2>2, <2>3, <2>4 DEF IInv
<1>4. ASSUME NEW fd \in Fds, FlushEnd(fd)
      PROVE  IInv'
  <2>1. /\ closing = {fd} /\ closing' = {} /\ open' = open \ {fd}
        /\ UNCHANGED <<bm, cursor, alive, held, ptr, expect, unsaved>>
    BY <1>4 DEF FlushEnd, callers
  <2>2. TypeOK'
    BY <2>1 DEF IInv, TypeOK
  <2>3. FlushMeetsUsed'
    BY <2>1 DEF IInv, FlushMeetsUsed
  <2>4. PoolInv(bm)'
    BY <2>1 DEF IInv, PoolInv, Partition, HashOK, PageOf
  <2> QED BY <2>2, <2>3, <2>4 DEF IInv
<1>5. CASE Exit
  BY <1>5, TerminateKeeps DEF Exit
<1>6. CASE Terminated
  BY <1>1, <1>6 DEF Terminated
<1> QED BY <1>1, <1>2, <1>3, <1>4, <1>5, <1>6, GetPageKeeps, AllocatePageKeeps,
           WriteDataKeeps, MarkDirtyStep, UnpinStep, ForceStep, FlushSlotStep
        DEF Next

\* The inductive invariant holds in every reachable state.
THEOREM Invariance == ~FdReuse /\ Spec => []IInv
BY InitEstablishes, NextKeeps, PTL DEF Spec

\* Every piece of the buffer manager's state keeps its type, whatever the
\* constructor left in the entries and whichever reads fail.
THEOREM TypeCorrect == ~FdReuse /\ Spec => []TypeOK
<1>1. IInv => TypeOK
  BY DEF IInv
<1> QED BY <1>1, Invariance, PTL

\* internal_alloc, get_page, allocate_page, flush_pages and the rest never lose
\* a slot and never give one slot to two owners.
THEOREM SlotsPartitioned == ~FdReuse /\ Spec => []SlotPartition
<1>1. IInv => SlotPartition
  BY DEF IInv, PoolInv, Partition, IsSlotList, SlotPartition
<1> QED BY <1>1, Invariance, PTL

\* hash_table_ never leads get_page to a slot that holds another page or that
\* is not in use.
THEOREM HashSound == ~FdReuse /\ Spec => []HashAgrees
<1>1. IInv => HashAgrees
  BY DEF IInv, PoolInv, HashOK, PageOf, HashAgrees
<1> QED BY <1>1, Invariance, PTL

-----------------------------------------------------------------------------
(* The steps *)

\* A slot in use belongs to an open file, and the loop of flush_pages has not
\* passed it.
Owned ==
  \A s \in Range(bm.used_list) :
    LET fd == bm.buffer_pool[s].fd IN fd \in open /\ ~(fd \in closing /\ s < cursor)

\* The invariant behind the contents: reads do not fail and force_page is given
\* one page at a time.
CInv ==
  /\ IInv /\ ~ReadMayFail /\ ALL_PAGES \notin ForcePages
  /\ Owned /\ Faithful(bm, held, ptr, expect, unsaved)

\* What is left to show of a step.
CNext == Owned' /\ Faithful(bm', held', ptr', expect', unsaved')

\* A step whose slots in use keep their files, or are new ones for an open file.
LEMMA OwnedKept ==
  ASSUME CInv, UNCHANGED <<open, closing, cursor>>,
         \A s \in Range(bm'.used_list) :
           \/ s \in Range(bm.used_list) /\ bm'.buffer_pool[s].fd = bm.buffer_pool[s].fd
           \/ closing = {} /\ bm'.buffer_pool[s].fd \in open
  PROVE  Owned'
BY DEF CInv, Owned

\* A step that changes one entry of a slot, but not its file.
LEMMA OwnedRewritten ==
  ASSUME CInv, UNCHANGED <<open, closing, cursor>>, NEW s \in Slots, NEW f,
         SamePage(bm.buffer_pool[s], f), Rewrites(bm, bm', s, f)
  PROVE  Owned'
<1>1. /\ bm'.buffer_pool = [bm.buffer_pool EXCEPT ![s] = f]
      /\ Range(bm'.used_list) = Range(bm.used_list)
  BY DEF Rewrites
<1>2. bm.buffer_pool \in [Slots -> Entry] /\ Range(bm.used_list) \subseteq Slots
  BY DEF CInv, IInv, PoolInv, Partition, BufferState
<1>3. \A t \in Slots : bm'.buffer_pool[t].fd = bm.buffer_pool[t].fd
  BY <1>1, <1>2 DEF SamePage
<1> QED BY <1>1, <1>2, <1>3, OwnedKept

\* A page that comes into a slot belongs to an open file.
LEMMA OwnedInstalled ==
  ASSUME CInv, UNCHANGED <<open, closing, cursor>>, CanAlloc(bm), closing = {},
         NEW e \in Entry, e.fd \in open,
         Installs(internal_alloc(bm), bm', Victim(bm), e)
  PROVE  Owned'
<1> DEFINE a == internal_alloc(bm)
           v == Victim(bm)
<1>1. /\ PoolInv(bm) /\ PoolInv(a) /\ Takes(bm, a, v) /\ v \in Slots
      /\ a.buffer_pool = bm.buffer_pool
  BY InternalAlloc, VictimIsSlot, Zenon DEF CInv, IInv, PoolInv
<1>2. /\ bm'.buffer_pool = [a.buffer_pool EXCEPT ![v] = e] /\ bm'.used_list = a.used_list
  BY DEF Installs
<1> HIDE DEF a, v
<1>3. /\ \A t \in Slots \ {v} : bm'.buffer_pool[t] = bm.buffer_pool[t]
      /\ bm'.buffer_pool[v] = e
  BY <1>1, <1>2 DEF PoolInv, BufferState
<1>4. Range(a.used_list) \subseteq Range(bm.used_list) \cup {v}
      /\ Range(a.used_list) \subseteq Slots
  BY <1>1 DEF Takes, PoolInv, Partition
<1>5. ASSUME NEW s \in Range(bm'.used_list)
      PROVE  \/ s \in Range(bm.used_list) /\ bm'.buffer_pool[s].fd = bm.buffer_pool[s].fd
             \/ closing = {} /\ bm'.buffer_pool[s].fd \in open
  BY <1>2, <1>3, <1>4
<1> QED BY <1>5, OwnedKept

\* The facts about a page that the steps start from.
LEMMA AtPage ==
  ASSUME CInv, NEW fd \in Fds, NEW page \in Pages
  PROVE  /\ <<fd, page>> \in Key /\ PoolInv(bm) /\ bm \in BufferState /\ TypeOK
         /\ Faithful(bm, held, ptr, expect, unsaved)
         /\ PageOK(bm, held, ptr, expect, unsaved, <<fd, page>>)
         /\ held \in [Key -> Int] /\ ptr \in [Key -> Slots \cup {-1}]
         /\ expect \in [Key -> Content \cup {NoPage}]
BY DEF CInv, IInv, PoolInv, TypeOK, Key, Faithful, PagesOK

\* get_page on a resident page pins its slot once more.
LEMMA GetHitFaithful ==
  ASSUME CInv, NEW fd \in Fds, NEW page \in Pages, NEW multiple_pins \in BOOLEAN,
         GetHit(fd, page, multiple_pins)
  PROVE  CNext
<1> DEFINE k == <<fd, page>>
           s == find(bm.hash_table, fd, page)
           e == bm.buffer_pool[s]
           f == [e EXCEPT !.pin = e.pin + 1]
<1>1. /\ k \in Key /\ PoolInv(bm) /\ held \in [Key -> Int]
      /\ Faithful(bm, held, ptr, expect, unsaved)
      /\ PageOK(bm, held, ptr, expect, unsaved, k)
      /\ ptr \in [Key -> Slots \cup {-1}]
  BY AtPage
<1>2. Rewrites(bm, bm', s, f) /\ s \in Slots /\ e \in Entry /\ s # -1 /\ s = bm.hash_table[k]
  BY <1>1, GetHitKeeps, ResidentSlot, Zenon DEF GetHit, Resident, find
<1>3. /\ held' = [held EXCEPT ![k] = @ + 1]
      /\ ptr' = [ptr EXCEPT ![k] = find(bm'.hash_table, fd, page)]
      /\ UNCHANGED <<open, closing, cursor, alive, unsaved, expect>>
  BY DEF GetHit, Pinned
<1>4. find(bm'.hash_table, fd, page) = s
  BY <1>2 DEF Rewrites, find
<1>5. /\ SamePage(bm.buffer_pool[s], f)
      /\ f.pin = e.pin + 1 /\ f.dirty = e.dirty /\ f.data = e.data
  BY <1>2 DEF Entry, SamePage
<1> HIDE DEF k, s, e, f
<1>6. e.pin = held[k] /\ e.data = expect[k] /\ held[k] \in Int /\ held[k] >= 0
      /\ (~e.dirty /\ k \notin unsaved => bm.disk[k] = expect[k])
  BY <1>1, <1>2 DEF PageOK, e
<1>7. OnlyCallers(k, held, ptr, expect, unsaved, held', ptr', expect', unsaved')
  BY <1>1, <1>3 DEF OnlyCallers, SameBut
<1>8. held'[k] = held[k] + 1 /\ ptr'[k] = s
  BY <1>1, <1>3, <1>4
<1>9. /\ held'[k] >= 0 /\ held'[k] > 0 /\ f.pin = held'[k]
  BY <1>5, <1>6, <1>8
<1>10. EntryOK(f, s, bm.disk, held', ptr', expect', unsaved', k)
  BY <1>3, <1>5, <1>6, <1>8, <1>9 DEF EntryOK
<1>11. Faithful(bm', held', ptr', expect', unsaved')
  BY <1>1, <1>2, <1>5, <1>7, <1>10, RewriteFaithful, Zenon
<1>12. Owned'
  BY <1>2, <1>3, <1>5, OwnedRewritten, Zenon
<1> QED BY <1>11, <1>12 DEF CNext

\* internal_alloc for a page that has no slot.
LEMMA AllocVacant ==
  ASSUME CInv, NEW fd \in Fds, NEW page \in Pages, ~Resident(bm, fd, page), CanAlloc(bm)
  PROVE  LET a == internal_alloc(bm)
             v == Victim(bm)
             k == <<fd, page>>
         IN /\ PoolInv(a) /\ PagesOK(a, held, ptr, expect, unsaved)
            /\ v \in Slots /\ Vacant(a, v, k) /\ a.disk[k] = expect[k]
<1> DEFINE a == internal_alloc(bm)
           v == Victim(bm)
           k == <<fd, page>>
<1>1. k \in Key /\ PoolInv(bm) /\ bm \in BufferState /\ Faithful(bm, held, ptr, expect, unsaved)
  BY AtPage
<1>2. /\ PoolInv(a) /\ v \in Range(a.used_list) /\ Takes(bm, a, v) /\ v \in Slots
      /\ \A j \in Key : a.hash_table[j] # v
      /\ \A j \in Key : a.hash_table[j] \in {bm.hash_table[j], -1}
  BY <1>1, InternalAlloc, VictimIsSlot, Zenon
<1>3. bm.hash_table[k] = -1
  BY DEF Resident, find
<1> HIDE DEF a, v, k
<1>4. PagesOK(a, held, ptr, expect, unsaved) /\ IndexedBut(a, {v})
  BY <1>1, <1>2, TakeFaithful
<1>5. a.hash_table[k] = -1
  BY <1>1, <1>2, <1>3
<1>6. a.disk[k] = expect[k]
  BY <1>1, <1>4, <1>5 DEF PagesOK, PageOK
<1>7. Vacant(a, v, k)
  BY <1>2, <1>4, <1>5 DEF Vacant
<1> QED BY <1>2, <1>4, <1>6, <1>7, Zenon DEF a, v, k

\* The conditions of the calls, kept as names.
Written(fd, page) == expect[<<fd, page>>] # NoPage
HasPin(fd, page) == bm.buffer_pool[find(bm.hash_table, fd, page)].pin # 0
MayFlush(fd) == ~(bm.buffer_pool[cursor].fd = fd /\ bm.buffer_pool[cursor].pin > 0)

\* get_page on an absent page brings it in from the disk.
LEMMA GetMissFaithful ==
  ASSUME CInv, NEW fd \in Fds, NEW page \in Pages, Ready(fd),
         Written(fd, page), GetMiss(fd, page)
  PROVE  CNext
<1> DEFINE a == internal_alloc(bm)
           v == Victim(bm)
           k == <<fd, page>>
           data == read_page(a.disk, fd, page)
           e == [fd |-> fd, page |-> page, pin |-> 1, dirty |-> FALSE, data |-> data]
<1>1. /\ k \in Key /\ PoolInv(bm) /\ held \in [Key -> Int]
      /\ ptr \in [Key -> Slots \cup {-1}] /\ expect \in [Key -> Content \cup {NoPage}]
  BY AtPage
<1>2. /\ ~Resident(bm, fd, page) /\ CanAlloc(bm) /\ bm' = get_miss(bm, fd, page, data)
      /\ held' = [held EXCEPT ![k] = @ + 1]
      /\ ptr' = [ptr EXCEPT ![k] = find(bm'.hash_table, fd, page)]
      /\ UNCHANGED <<open, closing, cursor, alive, unsaved, expect>>
  BY DEF GetMiss, Pinned
<1>3. /\ PoolInv(a) /\ PagesOK(a, held, ptr, expect, unsaved)
      /\ v \in Slots /\ Vacant(a, v, k) /\ a.disk[k] = expect[k]
  BY <1>2, AllocVacant, Zenon
<1> HIDE DEF a, v
<1>4. data = expect[k] /\ data \in Content
  BY <1>1, <1>3 DEF read_page, Written
<1> HIDE DEF data
<1>5. Installs(a, bm', v, e) /\ find(bm'.hash_table, fd, page) = v
  BY <1>1, <1>2, <1>4, GetMissKeeps DEF a, v, find
<1>6. Fresh(e, k, a.disk, expect, unsaved) /\ e \in Entry /\ e.fd \in open /\ closing = {}
  <2>1. /\ e \in Entry /\ e.fd = fd /\ e.page = page /\ e.pin = 1 /\ e.data = data
        /\ e.dirty = FALSE
    BY <1>4 DEF Entry
  <2> HIDE DEF e
  <2>2. fd \in open /\ closing = {}
    BY DEF Ready
  <2>3. Fresh(e, k, a.disk, expect, unsaved)
    BY <1>3, <1>4, <2>1 DEF Fresh
  <2> QED BY <2>1, <2>2, <2>3
<1> HIDE DEF e, k
<1>7. OnlyCallers(k, held, ptr, expect, unsaved, held, ptr, expect, unsaved)
  BY DEF OnlyCallers, SameBut
<1>8. Faithful(bm', held', ptr', expect', unsaved')
  BY <1>1, <1>2, <1>3, <1>5, <1>6, <1>7, InstallFaithful, Zenon
<1>9. Owned'
  BY <1>2, <1>5, <1>6, OwnedInstalled DEF a, v
<1> QED BY <1>8, <1>9 DEF CNext

\* The page is always there to be read: without read errors get_page does not
\* fail half-way.
LEMMA GetNeverFails ==
  ASSUME CInv, NEW fd \in Fds, NEW page \in Pages,
         Written(fd, page), GetFails(fd, page)
  PROVE  FALSE
<1>1. /\ ~Resident(bm, fd, page) /\ CanAlloc(bm)
      /\ read_page(internal_alloc(bm).disk, fd, page) = NoPage
  BY DEF GetFails, CInv
<1>2. internal_alloc(bm).disk[<<fd, page>>] = expect[<<fd, page>>]
  BY <1>1, AllocVacant, Zenon
<1> QED BY <1>1, <1>2 DEF read_page, Written

\* allocate_page: the slot's old bytes are the page's, and unsaved.
LEMMA AllocateFaithful ==
  ASSUME CInv, NEW fd \in Fds, NEW page \in Pages, AllocatePage(fd, page),
         ~Resident(bm, fd, page), CanAlloc(bm)
  PROVE  CNext
<1> DEFINE a == internal_alloc(bm)
           v == Victim(bm)
           k == <<fd, page>>
           data == bm.buffer_pool[v].data
           e == [fd |-> fd, page |-> page, pin |-> 1, dirty |-> FALSE, data |-> data]
<1>1. /\ k \in Key /\ PoolInv(bm) /\ bm \in BufferState /\ held \in [Key -> Int]
      /\ ptr \in [Key -> Slots \cup {-1}] /\ expect \in [Key -> Content \cup {NoPage}]
  BY AtPage
<1>2. /\ bm' = allocate_page(bm, fd, page) /\ Ready(fd)
      /\ held' = [held EXCEPT ![k] = @ + 1]
      /\ ptr' = [ptr EXCEPT ![k] = v]
      /\ expect' = [expect EXCEPT ![k] = data]
      /\ unsaved' = unsaved \cup {k}
      /\ UNCHANGED <<open, closing, cursor, alive>>
  BY DEF AllocatePage
<1>3. /\ PoolInv(a) /\ PagesOK(a, held, ptr, expect, unsaved)
      /\ v \in Slots /\ Vacant(a, v, k) /\ a.disk[k] = expect[k]
  BY AllocVacant, Zenon
<1>4. Installs(a, bm', v, e)
  BY <1>1, <1>2, AllocateKeeps, Zenon
<1> HIDE DEF a, v
<1>5. data \in Content /\ expect'[k] = data
  BY <1>1, <1>2, <1>3 DEF BufferState, Entry
<1> HIDE DEF data
<1>6. Fresh(e, k, a.disk, expect', unsaved') /\ e \in Entry /\ e.fd \in open /\ closing = {}
  <2>1. /\ e \in Entry /\ e.fd = fd /\ e.page = page /\ e.pin = 1 /\ e.data = data
        /\ e.dirty = FALSE
    BY <1>5 DEF Entry
  <2> HIDE DEF e
  <2>2. fd \in open /\ closing = {}
    BY <1>2 DEF Ready
  <2>3. Fresh(e, k, a.disk, expect', unsaved')
    BY <1>2, <1>5, <2>1 DEF Fresh
  <2> QED BY <2>1, <2>2, <2>3
<1> HIDE DEF e, k
<1>7. OnlyCallers(k, held, ptr, expect, unsaved, held, ptr, expect', unsaved')
  BY <1>1, <1>2 DEF OnlyCallers, SameBut
<1>8. Faithful(bm', held', ptr', expect', unsaved')
  BY <1>1, <1>2, <1>3, <1>4, <1>6, <1>7, InstallFaithful, Zenon
<1>9. Owned'
  BY <1>2, <1>4, <1>6, OwnedInstalled DEF a, v
<1> QED BY <1>8, <1>9 DEF CNext

\* A write goes to the slot of the page that was pinned.
LEMMA WriteFaithful ==
  ASSUME CInv, NEW fd \in Fds, NEW page \in Pages, NEW data \in Content,
         WriteData(fd, page, data)
  PROVE  CNext
<1> DEFINE k == <<fd, page>>
           s == ptr[k]
           e == bm.buffer_pool[s]
           f == [e EXCEPT !.data = data]
<1>1. /\ k \in Key /\ PoolInv(bm) /\ bm \in BufferState /\ held \in [Key -> Int]
      /\ Faithful(bm, held, ptr, expect, unsaved)
      /\ PageOK(bm, held, ptr, expect, unsaved, k)
      /\ ptr \in [Key -> Slots \cup {-1}] /\ expect \in [Key -> Content \cup {NoPage}]
  BY AtPage
<1>2. /\ held[k] > 0 /\ bm' = [bm EXCEPT !.buffer_pool[s].data = data]
      /\ expect' = [expect EXCEPT ![k] = data]
      /\ unsaved' = unsaved \cup {k}
      /\ UNCHANGED <<open, closing, cursor, alive, held, ptr>>
  BY DEF WriteData
<1> HIDE DEF k
<1>3. s = bm.hash_table[k] /\ s # -1 /\ e.pin = held[k] /\ held[k] >= 0
  BY <1>1, <1>2 DEF PageOK
<1>4. s \in Slots /\ e \in Entry
  BY <1>1, <1>3 DEF BufferState
<1> HIDE DEF s
<1>5. SamePage(bm.buffer_pool[s], f) /\ f.pin = e.pin /\ f.data = data
  BY <1>4 DEF Entry, SamePage
<1>6. Rewrites(bm, bm', s, f)
  BY <1>1, <1>2, <1>4, WriteKeeps
<1> HIDE DEF e, f
<1>7. OnlyCallers(k, held, ptr, expect, unsaved, held', ptr', expect', unsaved')
  BY <1>1, <1>2 DEF OnlyCallers, SameBut
<1>8. EntryOK(f, s, bm.disk, held', ptr', expect', unsaved', k)
  BY <1>1, <1>2, <1>3, <1>5 DEF EntryOK, s
<1>9. Faithful(bm', held', ptr', expect', unsaved')
  BY <1>1, <1>3, <1>4, <1>5, <1>6, <1>7, <1>8, RewriteFaithful, Zenon
<1>10. Owned'
  BY <1>2, <1>4, <1>5, <1>6, OwnedRewritten
<1> QED BY <1>9, <1>10 DEF CNext

\* mark_dirty.
LEMMA MarkDirtyFaithful ==
  ASSUME CInv, NEW fd \in Fds, NEW page \in Pages, MarkDirty(fd, page),
         Resident(bm, fd, page)
  PROVE  CNext
<1> DEFINE k == <<fd, page>>
           s == find(bm.hash_table, fd, page)
           e == bm.buffer_pool[s]
           f == [e EXCEPT !.dirty = TRUE]
<1>1. /\ k \in Key /\ PoolInv(bm)
      /\ Faithful(bm, held, ptr, expect, unsaved)
      /\ PageOK(bm, held, ptr, expect, unsaved, k)
  BY AtPage
<1>2. /\ bm' = mark_dirty(bm, fd, page)
      /\ unsaved' = unsaved \ {k}
      /\ UNCHANGED <<open, closing, cursor, alive, held, ptr, expect>>
  BY DEF MarkDirty
<1>3. Rewrites(bm, bm', s, f) /\ s \in Slots /\ e \in Entry /\ s # -1 /\ s = bm.hash_table[k]
  BY <1>1, <1>2, MarkDirtyKeeps, ResidentSlot DEF Resident, find
<1>4. SamePage(bm.buffer_pool[s], f) /\ f.pin = e.pin /\ f.data = e.data /\ f.dirty
  BY <1>3 DEF Entry, SamePage
<1> HIDE DEF k, s, e, f
<1>5. OnlyCallers(k, held, ptr, expect, unsaved, held', ptr', expect', unsaved')
  BY <1>2 DEF OnlyCallers, SameBut
<1>6. EntryOK(f, s, bm.disk, held', ptr', expect', unsaved', k)
  BY <1>1, <1>2, <1>3, <1>4, Zenon DEF EntryOK, PageOK, e
<1>7. Faithful(bm', held', ptr', expect', unsaved')
  BY <1>1, <1>3, <1>4, <1>5, <1>6, RewriteFaithful, Zenon
<1>8. Owned'
  BY <1>2, <1>3, <1>4, OwnedRewritten, Zenon
<1> QED BY <1>7, <1>8 DEF CNext

\* A count that is not zero, and the one below it.
LEMMA OneLess ==
  ASSUME NEW n \in Int, n >= 0, n # 0
  PROVE  n - 1 >= 0 /\ n > 0 /\ (n # 1 <=> n - 1 > 0)
OBVIOUS

\* unpin_page: the last pin is given back of a page that is saved or dirty.
LEMMA UnpinFaithful ==
  ASSUME CInv, NEW fd \in Fds, NEW page \in Pages, UnpinPage(fd, page),
         Resident(bm, fd, page), HasPin(fd, page)
  PROVE  CNext
<1> DEFINE k == <<fd, page>>
           s == find(bm.hash_table, fd, page)
           e == bm.buffer_pool[s]
           f == [e EXCEPT !.pin = e.pin - 1]
<1>1. /\ k \in Key /\ PoolInv(bm) /\ held \in [Key -> Int]
      /\ Faithful(bm, held, ptr, expect, unsaved)
      /\ PageOK(bm, held, ptr, expect, unsaved, k)
      /\ ptr \in [Key -> Slots \cup {-1}]
  BY AtPage
<1>2. /\ e.pin = 1 => k \notin unsaved
      /\ bm' = unpin_page(bm, fd, page)
      /\ held' = [held EXCEPT ![k] = @ - 1]
      /\ ptr' = [ptr EXCEPT ![k] = IF held[k] = 1 THEN -1 ELSE @]
      /\ UNCHANGED <<open, closing, cursor, alive, expect, unsaved>>
  BY DEF UnpinPage, HasPin
<1>3. Rewrites(bm, bm', s, f) /\ s \in Slots /\ e \in Entry /\ s # -1 /\ s = bm.hash_table[k]
  BY <1>1, <1>2, UnpinKeeps, ResidentSlot, Zenon DEF Resident, find
<1>4. /\ SamePage(bm.buffer_pool[s], f)
      /\ f.pin = e.pin - 1 /\ f.data = e.data /\ f.dirty = e.dirty
  BY <1>3 DEF Entry, SamePage
<1>5. e.pin # 0
  BY DEF HasPin
<1> HIDE DEF k, s, e, f
<1>6. /\ e.pin = held[k] /\ held[k] \in Int /\ held[k] >= 0 /\ e.data = expect[k]
      /\ held[k] > 0 => s = ptr[k]
      /\ ~e.dirty /\ k \notin unsaved => bm.disk[k] = expect[k]
  BY <1>1, <1>3, Zenon DEF PageOK, e
<1>7. held'[k] = held[k] - 1 /\ ptr'[k] = IF held[k] = 1 THEN -1 ELSE ptr[k]
  BY <1>1, <1>2
<1>8. /\ held'[k] >= 0 /\ held[k] > 0 /\ f.pin = held'[k]
      /\ held[k] # 1 => held'[k] > 0
      /\ held'[k] > 0 => held[k] # 1
  <2>1. f.pin = held[k] - 1 /\ held[k] # 0
    BY <1>4, <1>5, <1>6
  <2> QED BY <1>6, <1>7, <2>1, OneLess, Zenon
<1>9. OnlyCallers(k, held, ptr, expect, unsaved, held', ptr', expect', unsaved')
  BY <1>1, <1>2 DEF OnlyCallers, SameBut
<1>10. EntryOK(f, s, bm.disk, held', ptr', expect', unsaved', k)
  BY <1>2, <1>4, <1>6, <1>7, <1>8, Zenon DEF EntryOK
<1>11. Faithful(bm', held', ptr', expect', unsaved')
  BY <1>1, <1>3, <1>4, <1>9, <1>10, RewriteFaithful, Zenon
<1>12. Owned'
  BY <1>2, <1>3, <1>4, OwnedRewritten, Zenon
<1> QED BY <1>11, <1>12 DEF CNext

\* force_page on one page.
LEMMA ForceFaithful ==
  ASSUME CInv, NEW fd \in Fds, NEW page \in ForcePages, ForcePage(fd, page)
  PROVE  CNext
<1>1. page \in Pages /\ PoolInv(bm) /\ Faithful(bm, held, ptr, expect, unsaved)
  BY ManagerAssumption DEF CInv, IInv
<1>2. /\ bm' = force_page(bm, fd, page)
      /\ UNCHANGED <<open, closing, cursor, alive, held, ptr, expect, unsaved>>
  BY DEF ForcePage, callers
<1>3. Saves(bm, bm', Forced(bm, fd, page), <<fd, page>>)
  BY <1>1, <1>2, ForceKeeps
<1>4. Faithful(bm', held, ptr, expect, unsaved)
  BY <1>1, <1>3, SaveFaithful
<1>5. /\ Range(bm'.used_list) = Range(bm.used_list)
      /\ \A s \in Slots : bm'.buffer_pool[s].fd = bm.buffer_pool[s].fd
  <2> DEFINE F == Forced(bm, fd, page)
  <2>1. CASE F = {}
    BY <1>3, <2>1 DEF Saves
  <2>2. CASE F # {}
    <3>1. /\ bm'.used_list = bm.used_list
          /\ bm'.buffer_pool = [s \in Slots |-> IF s \in F
                                 THEN [bm.buffer_pool[s] EXCEPT !.dirty = FALSE]
                                 ELSE bm.buffer_pool[s]]
      BY <1>3, <2>2 DEF Saves
    <3> HIDE DEF F
    <3>2. \A s \in Slots : bm.buffer_pool[s] \in Entry
      BY <1>1 DEF PoolInv, BufferState
    <3> QED BY <3>1, <3>2 DEF Entry
  <2> QED BY <2>1, <2>2
<1>6. Owned'
  BY <1>1, <1>2, <1>5, OwnedKept, Zenon DEF PoolInv, Partition
<1> QED BY <1>2, <1>4, <1>6 DEF CNext

\* One turn of the loop of flush_pages.
LEMMA FlushSlotFaithful ==
  ASSUME CInv, NEW fd \in Fds, FlushSlot(fd), MayFlush(fd)
  PROVE  CNext
<1> DEFINE e == bm.buffer_pool[cursor]
<1>0. /\ PoolInv(bm) /\ Faithful(bm, held, ptr, expect, unsaved) /\ Owned
      /\ closing = {fd} /\ cursor \in Slots /\ fd \in open /\ held \in [Key -> Int]
  BY PoolAssumption DEF CInv, IInv, TypeOK, FlushSlot, Slots
<1>1. /\ bm' = IF e.fd = fd THEN flush_slot(bm, cursor) ELSE bm
      /\ cursor' = cursor + 1
      /\ UNCHANGED <<open, closing, alive, held, ptr, expect, unsaved>>
  BY Zenon DEF FlushSlot, MayFlush, callers
<1>2. CASE e.fd = fd
  <2>1. cursor \in Range(bm.used_list)
    BY <1>0, <1>2, PoolAssumption DEF CInv, IInv, FlushMeetsUsed, Slots
  <2>2. bm' = flush_slot(bm, cursor)
    BY <1>1, <1>2
  <2>3. /\ Frees(bm, bm', cursor)
        /\ Range(bm'.used_list) = Range(bm.used_list) \ {cursor}
        /\ \A s \in Slots : bm'.buffer_pool[s].fd = bm.buffer_pool[s].fd
    BY <1>0, <2>1, <2>2, FlushSlotKeeps
  <2>4. Faithful(bm', held, ptr, expect, unsaved)
    <3>1. ~(e.pin > 0)
      BY <1>2 DEF MayFlush
    <3> QED BY <1>0, <2>1, <2>3, <3>1, FreeFaithful
  <2>5. Owned'
    <3> SUFFICES ASSUME NEW s \in Range(bm.used_list) \ {cursor}
                 PROVE  /\ bm'.buffer_pool[s].fd \in open
                        /\ ~(bm'.buffer_pool[s].fd \in closing /\ s < cursor + 1)
      BY <1>1, <2>3 DEF Owned
    <3>1. s \in Slots /\ bm'.buffer_pool[s].fd = bm.buffer_pool[s].fd
      BY <1>0, <2>3, Zenon DEF PoolInv, Partition
    <3>2. s < cursor + 1 => s < cursor
      BY <1>0, <3>1, PoolAssumption DEF Slots
    <3> QED BY <1>0, <3>1, <3>2 DEF Owned
  <2> QED BY <1>1, <2>4, <2>5 DEF CNext
<1>3. CASE e.fd # fd
  <2>1. bm' = bm
    BY <1>1, <1>3
  <2>2. Owned'
    <3> SUFFICES ASSUME NEW s \in Range(bm.used_list)
                 PROVE  /\ bm.buffer_pool[s].fd \in open
                        /\ ~(bm.buffer_pool[s].fd \in closing /\ s < cursor + 1)
      BY <1>1, <2>1 DEF Owned
    <3>1. s \in Slots
      BY <1>0, Zenon DEF PoolInv, Partition
    <3>2. s < cursor + 1 => s < cursor \/ s = cursor
      BY <1>0, <3>1, PoolAssumption DEF Slots
    <3> QED BY <1>0, <1>3, <3>1, <3>2 DEF Owned
  <2> QED BY <1>0, <1>1, <2>1, <2>2 DEF CNext
<1> QED BY <1>2, <1>3

\* A step that leaves the pool and the callers alone.
LEMMA IdleFaithful ==
  ASSUME CInv, UNCHANGED <<bm, held, ptr, expect, unsaved>>, Owned'
  PROVE  CNext
BY DEF CInv, CNext

\* A step of no one, or the end of the process.
LEMMA StopFaithful ==
  ASSUME CInv, UNCHANGED <<bm, open, closing, cursor, held, ptr, expect, unsaved>>
  PROVE  CNext
BY DEF CInv, CNext, Owned

\* close_file's last step: no slot in use is the file's any more.
LEMMA FlushEndFaithful ==
  ASSUME CInv, NEW fd \in Fds, FlushEnd(fd)
  PROVE  CNext
<1>1. /\ closing = {fd} /\ cursor = PoolSize /\ closing' = {} /\ open' = open \ {fd}
      /\ UNCHANGED <<bm, cursor, alive, held, ptr, expect, unsaved>>
  BY DEF FlushEnd, callers
<1>2. \A s \in Range(bm.used_list) : s \in Slots /\ s < PoolSize
  <2>1. \A s \in Range(bm.used_list) : s \in Slots
    BY DEF CInv, IInv, PoolInv, Partition
  <2>2. \A s \in Slots : s < PoolSize
    BY PoolAssumption DEF Slots
  <2> QED BY <2>1, <2>2
<1>3. Owned'
  BY <1>1, <1>2 DEF CInv, Owned
<1> QED BY <1>1, <1>3, IdleFaithful

\* Every step keeps what the callers expect.
LEMMA NextFaithful == CInv /\ [Next]_vars => CNext
<1> SUFFICES ASSUME CInv, [Next]_vars PROVE CNext
  OBVIOUS
<1>0. ASSUME Terminate PROVE CNext
  BY <1>0, StopFaithful DEF Terminate, callers
<1>1. CASE UNCHANGED vars
  BY <1>1, StopFaithful DEF vars
<1>2. ASSUME NEW fd \in Fds, OpenFile(fd)
      PROVE  CNext
  <2>1. Owned'
    BY <1>2 DEF CInv, Owned, OpenFile
  <2> QED BY <1>2, <2>1, IdleFaithful DEF OpenFile, callers
<1>3. ASSUME NEW fd \in Fds, FlushBegin(fd)
      PROVE  CNext
  <2>1. /\ closing' = {fd} /\ cursor' = 0
        /\ UNCHANGED <<bm, open, alive, held, ptr, expect, unsaved>>
    BY <1>3 DEF FlushBegin, callers
  <2>2. \A s \in Range(bm.used_list) : ~(s < 0)
    <3>1. Range(bm.used_list) \subseteq Slots
      BY DEF CInv, IInv, PoolInv, Partition
    <3>2. \A s \in Slots : ~(s < 0)
      BY PoolAssumption DEF Slots
    <3> QED BY <3>1, <3>2
  <2>3. Owned'
    BY <2>1, <2>2 DEF CInv, Owned
  <2> QED BY <2>1, <2>3, IdleFaithful
<1>4. ASSUME NEW fd \in Fds, FlushSlot(fd)
      PROVE  CNext
  <2>1. CASE bm.buffer_pool[cursor].fd = fd /\ bm.buffer_pool[cursor].pin > 0
    BY <1>0, <1>4, <2>1, Zenon DEF FlushSlot
  <2> QED BY <1>4, <2>1, FlushSlotFaithful DEF MayFlush
<1>5. ASSUME NEW fd \in Fds, NEW page \in Pages, NEW multiple_pins \in BOOLEAN,
             GetPage(fd, page, multiple_pins)
      PROVE  CNext
  <2>1. Ready(fd) /\ Written(fd, page)
    BY <1>5 DEF GetPage, Written
  <2>2. CASE GetHit(fd, page, multiple_pins)
    BY <2>2, GetHitFaithful
  <2>3. CASE GetMiss(fd, page)
    BY <2>1, <2>3, GetMissFaithful
  <2>4. CASE GetFails(fd, page)
    BY <2>1, <2>4, GetNeverFails
  <2>5. CASE GetThrows(fd, page, multiple_pins)
    BY <1>0, <2>5 DEF GetThrows
  <2> QED BY <1>5, <2>2, <2>3, <2>4, <2>5 DEF GetPage
<1>6. ASSUME NEW fd \in Fds, NEW page \in Pages, AllocatePage(fd, page)
      PROVE  CNext
  <2>1. CASE Resident(bm, fd, page) \/ ~CanAlloc(bm)
    BY <1>0, <1>6, <2>1 DEF AllocatePage
  <2> QED BY <1>6, <2>1, AllocateFaithful
<1>7. ASSUME NEW fd \in Fds, NEW page \in Pages, MarkDirty(fd, page)
      PROVE  CNext
  <2>1. CASE ~Resident(bm, fd, page)
    BY <1>0, <1>7, <2>1 DEF MarkDirty
  <2> QED BY <1>7, <2>1, MarkDirtyFaithful
<1>8. ASSUME NEW fd \in Fds, NEW page \in Pages, UnpinPage(fd, page)
      PROVE  CNext
  <2>1. CASE ~Resident(bm, fd, page) \/ ~HasPin(fd, page)
    BY <1>0, <1>8, <2>1 DEF UnpinPage, HasPin
  <2> QED BY <1>8, <2>1, UnpinFaithful
<1>9. CASE Exit
  BY <1>0, <1>9 DEF Exit
<1>10. CASE Terminated
  BY <1>1, <1>10 DEF Terminated
<1> QED BY <1>1, <1>2, <1>3, <1>4, <1>5, <1>6, <1>7, <1>8, <1>9, <1>10,
           WriteFaithful, ForceFaithful, FlushEndFaithful
        DEF Next

\* At the start no page has a slot and the files hold what is expected.
LEMMA InitFaithful ==
  ~FdReuse /\ ~ReadMayFail /\ ALL_PAGES \notin ForcePages /\ Init => CInv
<1> SUFFICES ASSUME ~FdReuse, ~ReadMayFail, ALL_PAGES \notin ForcePages, Init
             PROVE  CInv
  OBVIOUS
<1>1. IInv
  BY InitEstablishes
<1>2. /\ bm.used_list = <<>> /\ bm.hash_table = [k \in Key |-> -1]
      /\ expect = [k \in Key |-> bm.disk[k]]
      /\ held = [k \in Key |-> 0] /\ unsaved = {}
  BY DEF Init
<1>3. Range(bm.used_list) = {}
  <2>1. bm.used_list = <<>>
    BY <1>2
  <2>2. DOMAIN bm.used_list = {}
    BY <2>1
  <2> QED BY <2>2 DEF Range
<1>4. PagesOK(bm, held, ptr, expect, unsaved)
  BY <1>2 DEF PagesOK, PageOK
<1> QED BY <1>1, <1>3, <1>4 DEF CInv, Faithful, IndexedBut, Owned

\* As long as reads do not fail, open(2) reuses no number an entry still carries
\* and force_page is not given ALL_PAGES, the pool is faithful to its callers.
THEOREM Faithfulness ==
  ~FdReuse /\ ~ReadMayFail /\ ALL_PAGES \notin ForcePages /\ Spec => []CInv
<1>1. CInv /\ [Next]_vars => CInv'
  <2> SUFFICES ASSUME CInv, [Next]_vars PROVE CInv'
    OBVIOUS
  <2>1. IInv'
    BY NextKeeps DEF CInv
  <2>2. CNext
    BY NextFaithful
  <2>3. Faithful(bm, held, ptr, expect, unsaved)'
    BY <2>2 DEF CNext, Faithful, IndexedBut, PagesOK, PageOK, PageOf
  <2> QED BY <2>1, <2>2, <2>3 DEF CInv, CNext
<1> QED BY <1>1, InitFaithful, PTL DEF Spec

\* A page a caller has pinned stays in its slot until the last pin is given
\* back, and its count is the number of pins taken: internal_alloc, flush_pages
\* and force_page never touch it.
THEOREM PinsAreHonoured ==
  ~FdReuse /\ ~ReadMayFail /\ ALL_PAGES \notin ForcePages /\ Spec => []PinsHonoured
<1>1. CInv => PinsHonoured
  BY DEF CInv, Faithful, PagesOK, PageOK, PinsHonoured
<1> QED BY <1>1, Faithfulness, PTL

\* Whatever is evicted, reloaded, forced and flushed, get_page delivers the
\* bytes last written to the page.
THEOREM NoUpdateIsLost ==
  ~FdReuse /\ ~ReadMayFail /\ ALL_PAGES \notin ForcePages /\ Spec => []NoLostUpdate
<1>1. CInv => NoLostUpdate
  BY DEF CInv, Faithful, PagesOK, PageOK, NoLostUpdate, Bytes
<1> QED BY <1>1, Faithfulness, PTL

\* What was written to a file is in the file once close_file has returned.
THEOREM ClosedFilesAreDurable ==
  ~FdReuse /\ ~ReadMayFail /\ ALL_PAGES \notin ForcePages /\ Spec => []ClosedIsDurable
<1>1. CInv => ClosedIsDurable
  <2> SUFFICES ASSUME CInv, NEW k \in Key, k[1] \notin open
               PROVE  bm.disk[k] = expect[k]
    BY DEF ClosedIsDurable
  <2>1. bm.hash_table[k] = -1
    <3> SUFFICES ASSUME bm.hash_table[k] # -1 PROVE FALSE
      OBVIOUS
    <3>1. /\ bm.hash_table[k] \in Range(bm.used_list)
          /\ PageOf(bm, bm.hash_table[k]) = k
      BY SMTT(20) DEF CInv, IInv, PoolInv, HashOK
    <3>2. bm.buffer_pool[bm.hash_table[k]].fd = k[1]
      BY <3>1 DEF PageOf
    <3> QED BY <3>1, <3>2 DEF CInv, Owned
  <2> QED BY <2>1 DEF CInv, Faithful, PagesOK, PageOK
<1> QED BY <1>1, Faithfulness, PTL

\* The pointer a caller holds stays its page's: internal_alloc takes no pinned
\* slot, and flush_pages none of another file, unless a number is reused.
THEOREM PinnedStaysInPlace ==
  ~FdReuse /\ ~ReadMayFail /\ ALL_PAGES \notin ForcePages /\ Spec => []PinnedInPlace
<1>1. CInv => PinnedInPlace
  <2> SUFFICES ASSUME CInv, NEW k \in Key, held[k] > 0
               PROVE  PageOf(bm, ptr[k]) = k
    BY DEF PinnedInPlace, PageOf
  <2>1. bm.hash_table[k] # -1 /\ bm.hash_table[k] = ptr[k]
    BY DEF CInv, Faithful, PagesOK, PageOK
  <2> QED BY <2>1 DEF CInv, IInv, PoolInv, HashOK
<1> QED BY <1>1, Faithfulness, PTL
=============================================================================
