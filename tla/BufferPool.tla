------------------------------ MODULE BufferPool ------------------------------
(***************************************************************************)
(* The page buffer of alphadb: io/buffer_manager.cc with its slot index    *)
(* io/hash_table.cc, as operators on the buffer manager's state.  One call *)
(* of a member function is one operator from a state to a state, so that   *)
(* file_handle, which makes several calls inside one of its own, can       *)
(* compose them.  BufferManager.tla runs these operators under an          *)
(* arbitrary client.                                                       *)
(*                                                                         *)
(* A state b has the fields                                                *)
(*   free_list, used_list   the two std::list<int> of slots                *)
(*   buffer_pool            the array of buffer_entry                      *)
(*   hash_table             (fd, page) -> slot, -1 when absent             *)
(*   disk                   what the files behind the descriptors hold     *)
(* used_map_ only caches the position of a slot in used_list, and is left  *)
(* out: `remove' finds the position itself.                                *)
(*                                                                         *)
(* Block `page' of a file lives at offset page * buffer_size_ + 4096, so   *)
(* block -1 is the file header.  A page's bytes are one element of         *)
(* Content; NoPage marks a block the file does not have yet.               *)
(***************************************************************************)
EXTENDS Integers, Sequences, FiniteSetsExt

CONSTANTS
  PoolSize,   \* pool_size_
  Fds,        \* descriptor numbers
  Pages,      \* page numbers in use
  Content,    \* what a block can hold
  Zero,       \* a block of zero bytes
  NoPage      \* a block past the end of the file

ASSUME PoolAssumption ==
  /\ PoolSize \in Nat \ {0}
  /\ Pages \subseteq Nat
  /\ Zero \in Content
  /\ NoPage \notin Content

ALL_PAGES == -1
Slots == 0 .. PoolSize - 1
Key == Fds \X Pages
Block == Fds \X (Pages \cup {-1})
Entry == [fd: Fds, page: Pages, pin: Int, dirty: BOOLEAN, data: Content]

BufferState ==
  [free_list: Seq(Slots), used_list: Seq(Slots),
   buffer_pool: [Slots -> Entry], hash_table: [Key -> Slots \cup {-1}],
   disk: [Block -> Content \cup {NoPage}]]

-----------------------------------------------------------------------------
(* hash_table.cc *)

find(h, fd, page) == h[<<fd, page>>]

hash_insert(h, fd, page, slot) ==
  IF find(h, fd, page) # -1 THEN h ELSE [h EXCEPT ![<<fd, page>>] = slot]

hash_remove(h, fd, page) == [h EXCEPT ![<<fd, page>>] = -1]

-----------------------------------------------------------------------------
(* Private members of buffer_manager *)

\* erase of the list node of the slot, if it has one.
remove(list, slot) ==
  LET At == {i \in 1 .. Len(list) : list[i] = slot}
  IN IF At = {} THEN list
     ELSE SubSeq(list, 1, Min(At) - 1) \o SubSeq(list, Min(At) + 1, Len(list))

insert_used(list, slot) == <<slot>> \o list

insert_free(list, slot) == <<slot>> \o list

\* remove(slot); insert_used(slot)
to_front(list, slot) == insert_used(remove(list, slot), slot)

\* A block inside the file that was never written is a hole and reads as
\* zeros; one past the last block is a short read, here NoPage.
read_page(disk, fd, page) ==
  IF /\ disk[<<fd, page>>] = NoPage
     /\ \E q \in Pages : q > page /\ disk[<<fd, q>>] # NoPage
  THEN Zero
  ELSE disk[<<fd, page>>]

write_page(disk, fd, page, data) == [disk EXCEPT ![<<fd, page>>] = data]

init_page_info(pool, fd, page, slot) ==
  [pool EXCEPT ![slot] =
     [fd |-> fd, page |-> page, pin |-> 1, dirty |-> FALSE, data |-> @.data]]

\* Mutant: the scan ignores the pin counts.
Unpinned_any(b) == 1 .. Len(b.used_list)

\* Positions of used_list that the scan from the back may stop at.
Unpinned(b) ==
  {i \in 1 .. Len(b.used_list) : b.buffer_pool[b.used_list[i]].pin = 0}

CanAlloc(b) == b.free_list # <<>> \/ Unpinned(b) # {}

\* The slot internal_alloc hands out: the first free one, else the last
\* unpinned one of used_list.
Victim(b) ==
  IF b.free_list # <<>> THEN Head(b.free_list)
  ELSE b.used_list[Max(Unpinned(b))]

\* Mutants: the victim is not written back; its page stays in hash_table_; a
\* free slot is not entered in used_list_.
internal_alloc_no_write(b) ==
  IF b.free_list # <<>>
  THEN [b EXCEPT !.free_list = Tail(@), !.used_list = insert_used(@, Victim(b))]
  ELSE LET e == b.buffer_pool[Victim(b)]
       IN [b EXCEPT !.hash_table = hash_remove(@, e.fd, e.page),
                    !.used_list = to_front(@, Victim(b))]

internal_alloc_keeps_hash(b) ==
  LET slot == Victim(b)
      e == b.buffer_pool[slot]
  IN IF b.free_list # <<>>
     THEN [b EXCEPT !.free_list = Tail(@), !.used_list = insert_used(@, slot)]
     ELSE [b EXCEPT
            !.disk = IF e.dirty THEN write_page(@, e.fd, e.page, e.data) ELSE @,
            !.used_list = to_front(@, slot)]

\* Written back when dirty; the entry itself keeps its old fields.
internal_alloc(b) ==
  LET slot == Victim(b)
      e == b.buffer_pool[slot]
  IN IF b.free_list # <<>>
     THEN [b EXCEPT !.free_list = Tail(@),
                    !.used_list = insert_used(@, slot)]
     ELSE [b EXCEPT
            !.disk = IF e.dirty THEN write_page(@, e.fd, e.page, e.data) ELSE @,
            !.hash_table = hash_remove(@, e.fd, e.page),
            !.used_list = to_front(@, slot)]

-----------------------------------------------------------------------------
(* Public members of buffer_manager *)

Resident(b, fd, page) == find(b.hash_table, fd, page) # -1

\* get_page on a resident page: pinned once more, most recently used.
get_hit(b, fd, page) ==
  LET slot == find(b.hash_table, fd, page)
  IN [b EXCEPT !.buffer_pool[slot].pin = @ + 1,
               !.used_list = to_front(@, slot)]

\* get_page on an absent page whose block could be read as `data'.
get_miss(b, fd, page, data) ==
  LET slot == Victim(b)
      a == internal_alloc(b)
  IN [a EXCEPT
       !.hash_table = hash_insert(@, fd, page, slot),
       !.buffer_pool =
         init_page_info([@ EXCEPT ![slot].data = data], fd, page, slot)]

\* allocate_page on an absent page: no read, the bytes are the slot's old ones.
allocate_page(b, fd, page) ==
  LET slot == Victim(b)
      a == internal_alloc(b)
  IN [a EXCEPT !.hash_table = hash_insert(@, fd, page, slot),
               !.buffer_pool = init_page_info(@, fd, page, slot)]

\* Mutant: the page is only moved to the front.
mark_dirty_not(b, fd, page) ==
  [b EXCEPT !.used_list = to_front(@, find(b.hash_table, fd, page))]

mark_dirty(b, fd, page) ==
  LET slot == find(b.hash_table, fd, page)
  IN [b EXCEPT !.buffer_pool[slot].dirty = TRUE,
               !.used_list = to_front(@, slot)]

unpin_page(b, fd, page) ==
  LET slot == find(b.hash_table, fd, page)
  IN [b EXCEPT !.buffer_pool[slot].pin = @ - 1,
               !.used_list = IF b.buffer_pool[slot].pin = 1
                             THEN to_front(@, slot) ELSE @]

\* The dirty slots force_page(fd, page) visits.
Forced(b, fd, page) ==
  {s \in Range(b.used_list) :
     /\ b.buffer_pool[s].fd = fd
     /\ b.buffer_pool[s].page = page \/ page = ALL_PAGES
     /\ b.buffer_pool[s].dirty}

\* The block written is the argument `page', also when that is ALL_PAGES;
\* of several slots the last of used_list remains on disk.
force_page(b, fd, page) ==
  LET F == Forced(b, fd, page)
      last == Max({i \in 1 .. Len(b.used_list) : b.used_list[i] \in F})
  IN IF F = {} THEN b
     ELSE [b EXCEPT
            !.disk = write_page(@, fd, page, b.buffer_pool[b.used_list[last]].data),
            !.buffer_pool = [s \in Slots |->
               IF s \in F THEN [@[s] EXCEPT !.dirty = FALSE] ELSE @[s]]]

\* Mutants: dirty is cleared without a write; the slot stays in used_list_.
flush_slot_no_write(b, i) ==
  LET e == b.buffer_pool[i]
  IN [b EXCEPT !.buffer_pool[i].dirty = FALSE,
               !.hash_table = hash_remove(@, e.fd, e.page),
               !.used_list = remove(@, i),
               !.free_list = insert_free(@, i)]

flush_slot_still_used(b, i) ==
  LET e == b.buffer_pool[i]
  IN [b EXCEPT
       !.disk = IF e.dirty THEN write_page(@, e.fd, e.page, e.data) ELSE @,
       !.buffer_pool[i].dirty = FALSE,
       !.hash_table = hash_remove(@, e.fd, e.page),
       !.free_list = insert_free(@, i)]

\* One turn of the loop of flush_pages, for a slot i of fd that is unpinned.
\* The entry keeps its fd.
flush_slot(b, i) ==
  LET e == b.buffer_pool[i]
  IN [b EXCEPT
       !.disk = IF e.dirty THEN write_page(@, e.fd, e.page, e.data) ELSE @,
       !.buffer_pool[i].dirty = FALSE,
       !.hash_table = hash_remove(@, e.fd, e.page),
       !.used_list = remove(@, i),
       !.free_list = insert_free(@, i)]
=============================================================================
