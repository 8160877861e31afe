------------------------------ MODULE FileHandle ------------------------------
(***************************************************************************)
(* Paged files: io/file_handle.cc and io/io_manager.cc over the buffer     *)
(* pool of BufferPool.tla.  A file has a header with the number of pages   *)
(* and the head of the list of disposed pages; the list runs through the   *)
(* pages' own headers.                                                     *)
(*                                                                         *)
(* A block's bytes are a pair of words.  A page is <<next_free, body>>,    *)
(* the file header, block -1, is <<first_free, page_num>>.  The blocks of  *)
(* a file are in bm.disk under its descriptor while it is open and in      *)
(* store under its name while it is closed; a file is open once at a time. *)
(***************************************************************************)
EXTENDS FilePages

CONSTANTS
  Files,       \* file names
  NoFile,      \* the file behind a descriptor that is not open
  KernelFds,   \* the numbers open(2) may return
  Bodies,      \* what callers write to a page, 0 for a page of zeros
  MaxPages,    \* bound: pages of a file
  MaxPins,     \* bound: pins a page may have at a time
  ForcePages   \* arguments callers give to force_page

ASSUME FileAssumption ==
  /\ NoFile \notin Files
  /\ KernelFds \subseteq Fds /\ KernelFds # Fds
  /\ 0 \in Bodies
  /\ MaxPages \in Nat \ {0}
  /\ Pages = 0 .. MaxPages - 1
  /\ (Pages \cup {PAGE_LIST_END, PAGE_USED}) \X (Bodies \cup 0 .. MaxPages)
       \subseteq Content
  /\ ForcePages \subseteq Pages \cup {ALL_PAGES}

VARIABLES
  bm,       \* the buffer manager, with the files it reads and writes
  store,    \* the blocks of a closed file, all NoPage if there is none
  name,     \* the file a descriptor's file_handle has open
  header,   \* header_ of that handle
  changed,  \* descriptors whose handle has header_changed_ set
  alive     \* FALSE once an exception has ended the process

\* What the callers know; no code reads these.
VARIABLES
  uses,     \* allocations of a page minus its disposals
  body      \* what was last written to a page

callers == <<uses, body>>
vars == <<bm, store, name, header, changed, alive, uses, body>>

FileHeader ==
  [first_free: Pages \cup {PAGE_LIST_END, PAGE_USED}, page_num: Nat]
Absent == [p \in Pages \cup {-1} |-> NoPage]

-----------------------------------------------------------------------------
NoHeader == [first_free |-> PAGE_LIST_END, page_num |-> 0]
open == {fd \in KernelFds : name[fd] # NoFile}
Closed(f) == \A fd \in open : name[fd] # f
Exists(f) == ~Closed(f) \/ store[f] # Absent
Ready(fd) == alive /\ fd \in open
is_valid_page(fd, page) == page >= 0 /\ page < header[fd].page_num

Init ==
  /\ bm = [free_list |-> [i \in 1 .. PoolSize |-> i - 1],
           used_list |-> <<>>,
           buffer_pool |-> [s \in Slots |->
              [fd |-> CHOOSE fd \in Fds : fd \notin KernelFds, page |-> 0,
               pin |-> 0, dirty |-> FALSE, data |-> Zero]],
           hash_table |-> [k \in Key |-> -1],
           disk |-> [k \in Block |-> NoPage]]
  /\ store = [f \in Files |-> Absent]
  /\ name = [fd \in KernelFds |-> NoFile]
  /\ header = [fd \in KernelFds |-> NoHeader]
  /\ changed = {}
  /\ alive = TRUE
  /\ uses = [k \in Files \X Pages |-> 0]
  /\ body = [k \in Files \X Pages |-> 0]

\* An exception nobody catches ends the process.
Terminate ==
  /\ alive' = FALSE
  /\ UNCHANGED <<bm, store, name, header, changed, callers>>

\* io_manager::create_file; O_EXCL refuses a file that exists.
CreateFile(f) ==
  /\ alive
  /\ IF Exists(f) THEN Terminate
     ELSE /\ store' = [store EXCEPT ![f][-1] = <<PAGE_LIST_END, 0>>]
          /\ UNCHANGED <<bm, name, header, changed, alive, callers>>

\* io_manager::open_file.  As in BufferManager.tla without FdReuse, open(2)
\* returns a number no entry carries.
OpenFile(f, fd) ==
  /\ alive /\ Closed(f)
  /\ fd \notin open
  /\ \A s \in Slots : bm.buffer_pool[s].fd # fd
  /\ IF ~Exists(f) THEN Terminate
     ELSE /\ name' = [name EXCEPT ![fd] = f]
          /\ header' = [header EXCEPT ![fd] = [first_free |-> store[f][-1][1],
                                               page_num |-> store[f][-1][2]]]
          /\ bm' = [bm EXCEPT !.disk = [k \in Block |->
                      IF k[1] = fd THEN store[f][k[2]] ELSE @[k]]]
          /\ store' = [store EXCEPT ![f] = Absent]
          /\ UNCHANGED <<changed, alive, callers>>

\* Mutants: the header is not written; header_changed_ stays set.
save_header_not(fd) == bm
header_saved_not(fd) == changed

\* The header write flush_pages and force_page begin with.
save_header(fd) ==
  IF fd \in changed
  THEN [bm EXCEPT !.disk = write_page(@, fd, -1,
          <<header[fd].first_free, header[fd].page_num>>)]
  ELSE bm

header_saved(fd) == changed \ {fd}

\* io_manager::close_file: flush_pages throws when a page is still pinned.
CloseFile(fd) ==
  LET flushed == flush_pages(save_header(fd), fd)
  IN /\ Ready(fd)
     /\ IF \E s \in Slots : bm.buffer_pool[s].fd = fd /\ bm.buffer_pool[s].pin > 0
        THEN Terminate
        ELSE /\ store' = [store EXCEPT ![name[fd]] =
                            [p \in Pages \cup {-1} |-> flushed.disk[<<fd, p>>]]]
             /\ bm' = [flushed EXCEPT !.disk = [k \in Block |->
                         IF k[1] = fd THEN NoPage ELSE @[k]]]
             /\ name' = [name EXCEPT ![fd] = NoFile]
             /\ header' = [header EXCEPT ![fd] = NoHeader]
             /\ changed' = header_saved(fd)
             /\ UNCHANGED <<alive, callers>>

\* io_manager::destroy_file, which callers use on closed files.
DestroyFile(f) ==
  /\ alive /\ Closed(f)
  /\ IF ~Exists(f) THEN Terminate
     ELSE /\ store' = [store EXCEPT ![f] = Absent]
          /\ uses' = [k \in Files \X Pages |-> IF k[1] = f THEN 0 ELSE uses[k]]
          /\ body' = [k \in Files \X Pages |-> IF k[1] = f THEN 0 ELSE body[k]]
          /\ UNCHANGED <<bm, name, header, changed, alive>>

\* file_handle::allocate_page.
AllocatePage(fd) ==
  LET h == header[fd]
      reuse == h.first_free # PAGE_LIST_END
      page == IF reuse THEN h.first_free ELSE h.page_num
      got == IF reuse THEN get_page(bm, fd, page) ELSE allocate_page(bm, fd, page)
      fresh == put(got, fd, page, <<PAGE_USED, 0>>)
  IN /\ Ready(fd)
     /\ page < MaxPages
     /\ IF \/ reuse /\ ~CanGet(bm, fd, page, TRUE)
           \/ ~reuse /\ (Resident(bm, fd, page) \/ ~CanAlloc(bm))
        THEN Terminate
        ELSE /\ header' = [header EXCEPT ![fd] =
                  IF reuse THEN [h EXCEPT !.first_free = Data(got, fd, page)[1]]
                  ELSE [h EXCEPT !.page_num = @ + 1]]
             /\ changed' = changed \cup {fd}
             /\ bm' = mark_dirty(fresh, fd, page)
             /\ uses' = [uses EXCEPT ![<<name[fd], page>>] = @ + 1]
             /\ body' = [body EXCEPT ![<<name[fd], page>>] = 0]
             /\ UNCHANGED <<store, name, alive>>

\* file_handle::dispose_page.
DisposePage(fd, page) ==
  LET got == get_page(bm, fd, page)
      freed == put(got, fd, page, <<header[fd].first_free, Data(got, fd, page)[2]>>)
  IN /\ Ready(fd)
     /\ IF \/ ~is_valid_page(fd, page)
           \/ ~CanGet(bm, fd, page, FALSE)
           \/ ~page_used(got, fd, page)
        THEN Terminate
        ELSE /\ bm' = unpin_page(mark_dirty(freed, fd, page), fd, page)
             /\ header' = [header EXCEPT ![fd].first_free = page]
             /\ changed' = changed \cup {fd}
             /\ uses' = [uses EXCEPT ![<<name[fd], page>>] = @ - 1]
             /\ body' = [body EXCEPT ![<<name[fd], page>>] = 0]
             /\ UNCHANGED <<store, name, alive>>

\* The page a caller was given has one more pin, within the bound.
Gave(fd, r) ==
  /\ r.page # -1 => r.pool.buffer_pool[Slot(r.pool, fd, r.page)].pin <= MaxPins
  /\ bm' = r.pool
  /\ UNCHANGED <<store, name, header, changed, alive, callers>>

GetThisPage(fd, page) ==
  LET r == get_this_page(bm, fd, page)
  IN /\ Ready(fd)
     /\ IF ~is_valid_page(fd, page) \/ r.page = -1 THEN Terminate
        ELSE Gave(fd, r)

\* A caller that walks a file goes on after the exception at its end.
GetNextPage(fd, current) ==
  /\ Ready(fd)
  /\ IF current # -1 /\ ~is_valid_page(fd, current) THEN Terminate
     ELSE Gave(fd, get_next_page(bm, fd, header[fd].page_num, current))

GetPrevPage(fd, current) ==
  /\ Ready(fd)
  /\ IF current # header[fd].page_num /\ ~is_valid_page(fd, current) THEN Terminate
     ELSE Gave(fd, get_prev_page(bm, fd, current))

\* A caller that holds the page writes to it and calls mark_dirty.
WritePage(fd, page, data) ==
  /\ Ready(fd) /\ is_valid_page(fd, page)
  /\ Resident(bm, fd, page) /\ bm.buffer_pool[Slot(bm, fd, page)].pin > 0
  /\ bm' = mark_dirty(put(bm, fd, page, <<Data(bm, fd, page)[1], data>>), fd, page)
  /\ body' = [body EXCEPT ![<<name[fd], page>>] = data]
  /\ UNCHANGED <<store, name, header, changed, alive, uses>>

UnpinPage(fd, page) ==
  /\ Ready(fd)
  /\ IF \/ ~is_valid_page(fd, page)
        \/ ~Resident(bm, fd, page)
        \/ bm.buffer_pool[Slot(bm, fd, page)].pin = 0
     THEN Terminate
     ELSE /\ bm' = unpin_page(bm, fd, page)
          /\ UNCHANGED <<store, name, header, changed, alive, callers>>

ForcePage(fd, page) ==
  /\ Ready(fd)
  /\ bm' = force_page(save_header(fd), fd, page)
  /\ changed' = header_saved(fd)
  /\ UNCHANGED <<store, name, header, alive, callers>>

Terminated == ~alive /\ UNCHANGED vars

Next ==
  \/ \E f \in Files : CreateFile(f) \/ DestroyFile(f)
  \/ \E f \in Files, fd \in KernelFds : OpenFile(f, fd)
  \/ \E fd \in KernelFds :
       \/ CloseFile(fd)
       \/ AllocatePage(fd)
       \/ \E page \in Pages :
            \/ DisposePage(fd, page)
            \/ GetThisPage(fd, page)
            \/ \E data \in Bodies : WritePage(fd, page, data)
            \/ UnpinPage(fd, page)
       \/ \E current \in -1 .. MaxPages : GetNextPage(fd, current)
       \/ \E current \in 0 .. MaxPages : GetPrevPage(fd, current)
       \/ \E page \in ForcePages : ForcePage(fd, page)
  \/ Terminated

Spec == Init /\ [][Next]_vars

-----------------------------------------------------------------------------
(* Properties *)

\* Every piece of state has its C++ type.
TypeOK ==
  /\ bm \in BufferState
  /\ store \in [Files -> [Pages \cup {-1} -> Content \cup {NoPage}]]
  /\ name \in [KernelFds -> Files \cup {NoFile}]
  /\ header \in [KernelFds -> FileHeader]
  /\ changed \subseteq open
  /\ alive \in BOOLEAN
  /\ uses \in [Files \X Pages -> Int]
  /\ body \in [Files \X Pages -> Bodies]

\* The header a file has now, or will have when it is opened.
Header(f) ==
  IF Closed(f) THEN [first_free |-> store[f][-1][1], page_num |-> store[f][-1][2]]
  ELSE header[CHOOSE fd \in open : name[fd] = f]

\* The bytes of a page as get_page delivers them now, or will then.
Bytes(f, page) ==
  IF Closed(f) THEN store[f][page]
  ELSE LET fd == CHOOSE d \in open : name[d] = f
       IN IF Resident(bm, fd, page) THEN Data(bm, fd, page)
          ELSE read_page(bm.disk, fd, page)

\* No page has two owners at a time, and none is disposed of twice.
OneOwner ==
  \A k \in Files \X Pages :
    /\ uses[k] \in {0, 1}
    /\ alive /\ uses[k] = 1 => Exists(k[1]) /\ k[2] < Header(k[1]).page_num

\* The chain from first_free through next_free runs once through exactly the
\* pages nobody owns and ends: no disposed page is lost and none in use is on
\* it, through evictions, and over close_file and open_file.
FreeListExact ==
  alive => \A f \in Files :
    Exists(f) =>
      LET Free == {p \in Pages : p < Header(f).page_num /\ uses[<<f, p>>] = 0}
      IN \E m \in 0 .. MaxPages : \E order \in Bijection(1 .. m, Free) :
           LET chain == Append(order, PAGE_LIST_END)
           IN /\ Header(f).first_free = chain[1]
              /\ \A i \in DOMAIN order : Bytes(f, order[i])[1] = chain[i + 1]

\* A page in use is marked as such and holds what its owner last wrote, also
\* when the file is closed or opened again.
OwnedIntact ==
  alive => \A k \in Files \X Pages :
    uses[k] = 1 => Bytes(k[1], k[2]) = <<PAGE_USED, body[k]>>

\* get_next_page and get_prev_page find the nearest page in use on their side,
\* as long as one buffer is not pinned; with every buffer pinned they pass over
\* the pages that are not resident.
ScanFinds ==
  alive => \A fd \in open :
    CanAlloc(bm) =>
      LET n == header[fd].page_num
          Used == {p \in Pages : uses[<<name[fd], p>>] = 1}
      IN \A current \in -1 .. n :
           LET After == {p \in Used : p > current}
               Before == {p \in Used : p < current}
           IN /\ current < n => get_next_page(bm, fd, n, current).page
                                  = (IF After = {} THEN -1 ELSE Min(After))
              /\ current >= 0 => get_prev_page(bm, fd, current).page
                                   = (IF Before = {} THEN -1 ELSE Max(Before))

\* force_page(ALL_PAGES) leaves every page of the file on disk.
ForceSavesAll ==
  [][\A fd \in open : ForcePage(fd, ALL_PAGES) =>
       \A p \in Pages : p < header[fd].page_num =>
         bm'.disk[<<fd, p>>] = Bytes(name[fd], p)]_vars
=============================================================================
