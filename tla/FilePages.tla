------------------------------ MODULE FilePages ------------------------------
(***************************************************************************)
(* What io/file_handle.cc does with the pages of a file through the buffer *)
(* pool, as operators from a pool to a pool.  A page's first word is the   *)
(* next_free of its page_header; the file header is block -1.              *)
(* FileHandle.tla runs them under any caller, Database.tla under the       *)
(* tables and indexes.                                                     *)
(***************************************************************************)
EXTENDS BufferPool

PAGE_LIST_END == -1
PAGE_USED == -2

-----------------------------------------------------------------------------
(* get_page for callers that need not tell its paths apart *)

Slot(b, fd, page) == find(b.hash_table, fd, page)
Data(b, fd, page) == b.buffer_pool[Slot(b, fd, page)].data
put(b, fd, page, data) == [b EXCEPT !.buffer_pool[Slot(b, fd, page)].data = data]

CanGet(b, fd, page, multiple_pins) ==
  IF Resident(b, fd, page)
  THEN multiple_pins \/ ~(b.buffer_pool[Slot(b, fd, page)].pin > 0)
  ELSE CanAlloc(b) /\ read_page(internal_alloc(b).disk, fd, page) # NoPage

get_page(b, fd, page) ==
  IF Resident(b, fd, page) THEN get_hit(b, fd, page)
  ELSE get_miss(b, fd, page, read_page(internal_alloc(b).disk, fd, page))

\* What a throwing get_page leaves behind: a slot taken, if it got that far.
get_failed(b, fd, page) ==
  IF ~Resident(b, fd, page) /\ CanAlloc(b) THEN internal_alloc(b) ELSE b

\* flush_pages of the buffer manager, the whole loop.
flush_pages(b, fd) ==
  LET after[i \in 0 .. PoolSize] ==
        IF i = 0 THEN b
        ELSE LET c == after[i - 1]
             IN IF c.buffer_pool[i - 1].fd = fd THEN flush_slot(c, i - 1) ELSE c
  IN after[PoolSize]

-----------------------------------------------------------------------------
(* file_handle, const members: the pool afterwards and the page, -1 if thrown *)

\* Mutant: every page passes for one in use.
page_used_any(b, fd, page) == TRUE

\* The page's header says it is in use.
page_used(b, fd, page) == Data(b, fd, page)[1] = PAGE_USED

\* Mutant: a page found free keeps the pin.
get_this_page_pinned(b, fd, page) ==
  IF ~CanGet(b, fd, page, TRUE)
  THEN [pool |-> get_failed(b, fd, page), page |-> -1]
  ELSE LET got == get_page(b, fd, page)
       IN [pool |-> got, page |-> IF page_used(got, fd, page) THEN page ELSE -1]

get_this_page(b, fd, page) ==
  IF ~CanGet(b, fd, page, TRUE)
  THEN [pool |-> get_failed(b, fd, page), page |-> -1]
  ELSE LET got == get_page(b, fd, page)
       IN IF page_used(got, fd, page)
          THEN [pool |-> got, page |-> page]
          ELSE [pool |-> unpin_page(got, fd, page), page |-> -1]

\* get_next_page and get_prev_page: the first page of `candidates' that
\* get_this_page delivers; what it throws on the way is swallowed.
scan(b, fd, candidates) ==
  LET after[i \in 0 .. Len(candidates)] ==
        IF i = 0 THEN [pool |-> b, page |-> -1]
        ELSE LET r == after[i - 1]
             IN IF r.page # -1 THEN r ELSE get_this_page(r.pool, fd, candidates[i])
  IN after[Len(candidates)]

get_next_page(b, fd, page_num, current) ==
  scan(b, fd, [i \in 1 .. page_num - current - 1 |-> current + i])

get_prev_page(b, fd, current) ==
  scan(b, fd, [i \in 1 .. current |-> current - i])
=============================================================================
