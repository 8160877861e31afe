---------------------------- MODULE BufferManager ----------------------------
(***************************************************************************)
(* The buffer manager (BufferPool.tla) under any sequence of calls its     *)
(* callers may make.  The program uses it from one thread, so a call is    *)
(* one step; only the loop of flush_pages is one step per turn, because    *)
(* the process may die between two of its writes.                          *)
(*                                                                         *)
(* Nothing above buffer_manager catches its exceptions except              *)
(* file_handle::get_next_page and get_prev_page, which go on after any     *)
(* failure of get_this_page.  A throw therefore ends the process, but a    *)
(* failed read inside get_page may also be survived.                       *)
(***************************************************************************)
EXTENDS BufferPool

CONSTANTS
  KernelFds,       \* the numbers open(2) may return
  GarbageEntries,  \* what the uninitialised buffer_entry structs may hold
  InitialDisks,    \* what the files may hold when the process starts
  ForcePages,      \* arguments callers give to force_page
  ReadMayFail,     \* whether read(2) may fail
  FdReuse,         \* whether open(2) may return a number an entry still carries
  MaxPins          \* bound: pins a page may have at a time

ASSUME ManagerAssumption ==
  /\ KernelFds \subseteq Fds
  /\ GarbageEntries \subseteq Entry
  /\ \A e \in GarbageEntries : e.data = Zero
  /\ InitialDisks \subseteq [Block -> Content \cup {NoPage}]
  /\ ForcePages \subseteq Pages \cup {ALL_PAGES}
  /\ ReadMayFail \in BOOLEAN
  /\ FdReuse \in BOOLEAN
  /\ MaxPins \in Nat \ {0}

VARIABLES
  bm,       \* the buffer manager's state
  open,     \* descriptors a file_handle has open
  closing,  \* {fd} while flush_pages(fd) runs, else {}
  cursor,   \* its loop variable
  alive     \* FALSE once the process has ended

\* What the callers know; no code of the buffer manager reads these.
VARIABLES
  held,     \* pins the callers have taken on a page and not given back
  ptr,      \* slot whose data pointer they were given, -1 when none
  expect,   \* the bytes the page holds as far as they are concerned
  unsaved   \* pages written through the pointer since the last mark_dirty

callers == <<held, ptr, expect, unsaved>>
vars == <<bm, open, closing, cursor, alive, held, ptr, expect, unsaved>>

-----------------------------------------------------------------------------

Init ==
  /\ \E pool \in [Slots -> GarbageEntries], disk \in InitialDisks :
       /\ bm = [free_list |-> [i \in 1 .. PoolSize |-> i - 1],
                used_list |-> <<>>,
                buffer_pool |-> pool,
                hash_table |-> [k \in Key |-> -1],
                disk |-> disk]
       /\ expect = [k \in Key |-> disk[k]]
  /\ open = {}
  /\ closing = {}
  /\ cursor = 0
  /\ alive = TRUE
  /\ held = [k \in Key |-> 0]
  /\ ptr = [k \in Key |-> -1]
  /\ unsaved = {}

Ready(fd) == alive /\ closing = {} /\ fd \in open

\* An exception nobody catches ends the process.
Terminate ==
  /\ alive' = FALSE
  /\ UNCHANGED <<bm, open, closing, cursor, callers>>

\* The process exits with no file open.
Exit == alive /\ open = {} /\ Terminate

\* open(2) in io_manager::open_file.  The entries of a closed file keep its
\* number in their fd field, which is never reset, and flush_pages tells the
\* slots of a file by that field alone: without FdReuse the number is one no
\* entry carries.
OpenFile(fd) ==
  /\ alive /\ closing = {}
  /\ fd \in KernelFds \ open
  /\ FdReuse \/ \A s \in Slots : bm.buffer_pool[s].fd # fd
  /\ open' = open \cup {fd}
  /\ UNCHANGED <<bm, closing, cursor, alive, callers>>

\* The caller now has the data pointer of the slot the page is in.
Pinned(fd, page) ==
  /\ held' = [held EXCEPT ![<<fd, page>>] = @ + 1]
  /\ ptr' = [ptr EXCEPT ![<<fd, page>>] = find(bm'.hash_table, fd, page)]
  /\ UNCHANGED <<open, closing, cursor, alive, unsaved>>

GetHit(fd, page, multiple_pins) ==
  /\ Resident(bm, fd, page)
  /\ multiple_pins \/ ~(bm.buffer_pool[find(bm.hash_table, fd, page)].pin > 0)
  /\ held[<<fd, page>>] < MaxPins
  /\ bm' = get_hit(bm, fd, page)
  /\ Pinned(fd, page)
  /\ UNCHANGED expect

GetMiss(fd, page) ==
  LET data == read_page(internal_alloc(bm).disk, fd, page)
  IN /\ ~Resident(bm, fd, page)
     /\ CanAlloc(bm)
     /\ data # NoPage
     /\ held[<<fd, page>>] < MaxPins
     /\ bm' = get_miss(bm, fd, page, data)
     /\ Pinned(fd, page)
     /\ UNCHANGED expect

\* read_page throws and get_next_page or get_prev_page swallows it.
GetFails(fd, page) ==
  /\ ~Resident(bm, fd, page)
  /\ CanAlloc(bm)
  /\ ReadMayFail \/ read_page(internal_alloc(bm).disk, fd, page) = NoPage
  /\ bm' = internal_alloc(bm)
  /\ UNCHANGED <<open, closing, cursor, alive, callers>>

\* A throw of get_page that leaves everything as it was: every slot pinned,
\* or the page pinned and multiple_pins false.
GetThrows(fd, page, multiple_pins) ==
  /\ \/ ~Resident(bm, fd, page) /\ ~CanAlloc(bm)
     \/ /\ Resident(bm, fd, page)
        /\ ~multiple_pins
        /\ bm.buffer_pool[find(bm.hash_table, fd, page)].pin > 0
  /\ Terminate

\* file_handle only asks for pages its header says exist.
GetPage(fd, page, multiple_pins) ==
  /\ Ready(fd)
  /\ expect[<<fd, page>>] # NoPage
  /\ \/ GetHit(fd, page, multiple_pins)
     \/ GetMiss(fd, page)
     \/ GetFails(fd, page)
     \/ GetThrows(fd, page, multiple_pins)

\* A resident page yields nullptr, which file_handle::allocate_page writes
\* through.  The fresh page's bytes are not on disk until it is marked dirty.
AllocatePage(fd, page) ==
  /\ Ready(fd)
  /\ IF Resident(bm, fd, page) \/ ~CanAlloc(bm)
     THEN Terminate
     ELSE /\ held[<<fd, page>>] < MaxPins
          /\ bm' = allocate_page(bm, fd, page)
          /\ held' = [held EXCEPT ![<<fd, page>>] = @ + 1]
          /\ ptr' = [ptr EXCEPT ![<<fd, page>>] = Victim(bm)]
          /\ expect' = [expect EXCEPT ![<<fd, page>>] =
                          bm.buffer_pool[Victim(bm)].data]
          /\ unsaved' = unsaved \cup {<<fd, page>>}
          /\ UNCHANGED <<open, closing, cursor, alive>>

\* The caller writes through the data pointer it was given.
WriteData(fd, page, data) ==
  LET k == <<fd, page>>
  IN /\ Ready(fd)
     /\ held[k] > 0
     /\ bm' = [bm EXCEPT !.buffer_pool[ptr[k]].data = data]
     /\ expect' = [expect EXCEPT ![k] = data]
     /\ unsaved' = unsaved \cup {k}
     /\ UNCHANGED <<open, closing, cursor, alive, held, ptr>>

MarkDirty(fd, page) ==
  /\ Ready(fd)
  /\ IF ~Resident(bm, fd, page)
     THEN Terminate
     ELSE /\ bm' = mark_dirty(bm, fd, page)
          /\ unsaved' = unsaved \ {<<fd, page>>}
          /\ UNCHANGED <<open, closing, cursor, alive, held, ptr, expect>>

\* A caller marks what it wrote dirty before it gives back the last pin.
UnpinPage(fd, page) ==
  LET k == <<fd, page>>
      pin == bm.buffer_pool[find(bm.hash_table, fd, page)].pin
  IN /\ Ready(fd)
     /\ IF ~Resident(bm, fd, page) \/ pin = 0
        THEN Terminate
        ELSE /\ pin = 1 => k \notin unsaved
             /\ bm' = unpin_page(bm, fd, page)
             /\ held' = [held EXCEPT ![k] = @ - 1]
             /\ ptr' = [ptr EXCEPT ![k] = IF held[k] = 1 THEN -1 ELSE @]
             /\ UNCHANGED <<open, closing, cursor, alive, expect, unsaved>>

ForcePage(fd, page) ==
  /\ Ready(fd)
  /\ bm' = force_page(bm, fd, page)
  /\ UNCHANGED <<open, closing, cursor, alive, callers>>

\* Mutant: the file is closed before its pages are flushed.
FlushBegin_closed(fd) ==
  /\ Ready(fd)
  /\ open' = open \ {fd}
  /\ closing' = {fd}
  /\ cursor' = 0
  /\ UNCHANGED <<bm, alive, callers>>

\* io_manager::close_file: flush_pages, one turn of the loop at a time, and
\* close(2) at the end.
FlushBegin(fd) ==
  /\ Ready(fd)
  /\ closing' = {fd}
  /\ cursor' = 0
  /\ UNCHANGED <<bm, open, alive, callers>>

FlushSlot(fd) ==
  /\ alive /\ closing = {fd} /\ cursor < PoolSize
  /\ LET e == bm.buffer_pool[cursor]
     IN IF e.fd = fd /\ e.pin > 0
        THEN Terminate
        ELSE /\ bm' = IF e.fd = fd THEN flush_slot(bm, cursor) ELSE bm
             /\ cursor' = cursor + 1
             /\ UNCHANGED <<open, closing, alive, callers>>

FlushEnd(fd) ==
  /\ alive /\ closing = {fd} /\ cursor = PoolSize
  /\ closing' = {}
  /\ open' = open \ {fd}
  /\ UNCHANGED <<bm, cursor, alive, callers>>

Terminated == ~alive /\ UNCHANGED vars

Next ==
  \/ \E fd \in Fds : OpenFile(fd) \/ FlushBegin(fd) \/ FlushSlot(fd) \/ FlushEnd(fd)
  \/ \E fd \in Fds, page \in Pages :
       \/ \E multiple_pins \in BOOLEAN : GetPage(fd, page, multiple_pins)
       \/ AllocatePage(fd, page)
       \/ \E data \in Content : WriteData(fd, page, data)
       \/ MarkDirty(fd, page)
       \/ UnpinPage(fd, page)
  \/ \E fd \in Fds, page \in ForcePages : ForcePage(fd, page)
  \/ Exit
  \/ Terminated

Spec == Init /\ [][Next]_vars

-----------------------------------------------------------------------------
(* Properties *)

\* Every piece of state has its C++ type.
TypeOK ==
  /\ bm \in BufferState
  /\ open \subseteq Fds
  /\ closing \subseteq open
  /\ cursor \in 0 .. PoolSize
  /\ alive \in BOOLEAN
  /\ held \in [Key -> Int]
  /\ ptr \in [Key -> Slots \cup {-1}]
  /\ expect \in [Key -> Content \cup {NoPage}]
  /\ unsaved \subseteq Key

\* free_list_ and used_list_ share the slots out: every slot is on exactly
\* one of them, once.  A slot on both, or twice on one, would be handed to two
\* pages; a slot on neither is lost for good.
SlotPartition ==
  /\ IsInjective(bm.free_list)
  /\ IsInjective(bm.used_list)
  /\ Range(bm.free_list) \cap Range(bm.used_list) = {}
  /\ Range(bm.free_list) \cup Range(bm.used_list) = Slots

\* What hash_table_ says of a page is what the slot says of itself, and the
\* slot is in use: a lookup never returns another page's bytes.
HashAgrees ==
  \A k \in Key :
    LET slot == bm.hash_table[k]
    IN slot # -1 =>
         /\ slot \in Range(bm.used_list)
         /\ <<bm.buffer_pool[slot].fd, bm.buffer_pool[slot].page>> = k

\* A page some caller has pinned is still in the slot whose pointer the caller
\* was given, whatever was loaded, evicted or flushed since, and its pin count
\* is the number of pins not yet given back.
PinsHonoured ==
  \A k \in Key :
    /\ held[k] >= 0
    /\ held[k] > 0 =>
         /\ bm.hash_table[k] = ptr[k]
         /\ bm.hash_table[k] # -1
    /\ bm.hash_table[k] # -1 => bm.buffer_pool[bm.hash_table[k]].pin = held[k]

\* internal_alloc takes no slot from a page that is pinned: when it finds none
\* else it throws (the comment there names no_buf_error).  So the entry behind
\* the pointer a caller holds is still the entry of the caller's page.  It fails
\* with FdReuse: flush_pages frees a slot a second time, and the second owner
\* of the slot takes it from the first.
PinnedInPlace ==
  \A k \in Key : held[k] > 0 =>
    LET entry == bm.buffer_pool[ptr[k]] IN <<entry.fd, entry.page>> = k

\* The bytes of a page as get_page would deliver them now.
Bytes(k) ==
  IF bm.hash_table[k] # -1 THEN bm.buffer_pool[bm.hash_table[k]].data
  ELSE bm.disk[k]

\* No update is lost and no page gets another page's bytes: through any number
\* of evictions, reloads, forces and flushes a page holds what its callers last
\* wrote to it.
NoLostUpdate == \A k \in Key : Bytes(k) = expect[k]

\* Once close_file has returned, the file itself holds every page's last bytes.
ClosedIsDurable ==
  \A k \in Key : k[1] \notin open => bm.disk[k] = expect[k]
=============================================================================
