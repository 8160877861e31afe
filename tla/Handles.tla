------------------------------- MODULE Handles -------------------------------
(***************************************************************************)
(* Tables and indexes as files: table/table_manager.cc, table_handle.cc,   *)
(* index/b+tree/index_manager.cc and index_handle.cc over file_handle and  *)
(* the buffer pool.                                                        *)
(*                                                                         *)
(* A call is an operator on a state s of fields                            *)
(*   ok   FALSE once an exception is on its way out of the call            *)
(*   b    the buffer pool                                                  *)
(*   h    the file_handle: fd, header_ (first_free, page_num),             *)
(*        header_changed_ (changed) and file_is_open_ (open)               *)
(* Every block is three words.  The file header is <<first_free, page_num, *)
(* 0>>; a page is its next_free and the two words callers put behind it:   *)
(* in page 0 of a table, table_header.first_free and the number of columns *)
(* at the head of the schema; in page 0 of an index nothing of interest.   *)
(*                                                                         *)
(* table_format's header and slot array are members nobody sets, so that   *)
(* put and remove answer anything and write, if they do, to the body of    *)
(* the page (TableFormat.tla has them on a header that is set); the words  *)
(* here are not touched by them.                                           *)
(***************************************************************************)
EXTENDS FilePages

CONSTANTS MaxPages    \* bound: pages of a file

ASSUME HandlesAssumption == MaxPages \in Nat /\ Pages = 0 .. MaxPages - 1

\* The call goes on as t if the guard holds, else it throws.
Step(s, guard, t) == IF s.ok /\ guard THEN t ELSE [s EXCEPT !.ok = FALSE]

is_valid_page(h, page) == h.open /\ page >= 0 /\ page < h.page_num

-----------------------------------------------------------------------------
(* file_handle *)

open_file(b, fd) ==
  [ok |-> TRUE, b |-> b,
   h |-> [fd |-> fd, first_free |-> b.disk[<<fd, -1>>][1],
          page_num |-> b.disk[<<fd, -1>>][2], changed |-> FALSE, open |-> TRUE]]

\* The page allocate_page hands out.
NextPage(h) == IF h.first_free # PAGE_LIST_END THEN h.first_free ELSE h.page_num

\* A first_free of PAGE_USED, read from a page force_page did not save, is an
\* offset lseek refuses.
file_allocate_page(s) ==
  LET reuse == s.h.first_free # PAGE_LIST_END
      page == NextPage(s.h)
      got == IF reuse THEN get_page(s.b, s.h.fd, page) ELSE allocate_page(s.b, s.h.fd, page)
      can == IF reuse THEN page >= 0 /\ CanGet(s.b, s.h.fd, page, TRUE)
             ELSE ~Resident(s.b, s.h.fd, page) /\ CanAlloc(s.b)
  IN Step(s, s.h.open /\ can,
       [s EXCEPT !.b = mark_dirty(put(got, s.h.fd, page, <<PAGE_USED, 0, 0>>), s.h.fd, page),
                 !.h.changed = TRUE,
                 !.h.first_free = IF reuse THEN Data(got, s.h.fd, page)[1] ELSE @,
                 !.h.page_num = IF reuse THEN @ ELSE @ + 1])

file_get_this_page(s, page) ==
  LET r == get_this_page(s.b, s.h.fd, page)
  IN Step(s, is_valid_page(s.h, page) /\ r.page # -1, [s EXCEPT !.b = r.pool])

file_mark_dirty(s, page) ==
  Step(s, is_valid_page(s.h, page) /\ Resident(s.b, s.h.fd, page),
       [s EXCEPT !.b = mark_dirty(@, s.h.fd, page)])

file_unpin_page(s, page) ==
  Step(s, /\ is_valid_page(s.h, page) /\ Resident(s.b, s.h.fd, page)
          /\ s.b.buffer_pool[Slot(s.b, s.h.fd, page)].pin # 0,
       [s EXCEPT !.b = unpin_page(@, s.h.fd, page)])

\* A store through the pointer to a page that is pinned.
file_store(s, page, w, v) ==
  Step(s, TRUE, [s EXCEPT !.b = put(@, s.h.fd, page, <<PAGE_USED, w, v>>)])

file_dispose_page(s, page) ==
  LET got == get_page(s.b, s.h.fd, page)
      freed == put(got, s.h.fd, page, [Data(got, s.h.fd, page) EXCEPT ![1] = s.h.first_free])
  IN Step(s, /\ is_valid_page(s.h, page) /\ CanGet(s.b, s.h.fd, page, FALSE)
             /\ page_used(got, s.h.fd, page),
          [s EXCEPT !.b = unpin_page(mark_dirty(freed, s.h.fd, page), s.h.fd, page),
                    !.h.first_free = page, !.h.changed = TRUE])

\* Mutant: the header stays in memory.
save_header_not(s) == [s EXCEPT !.h.changed = FALSE]

\* The header write that flush_pages and force_page begin with.
save_header(s) ==
  IF ~s.h.changed THEN s
  ELSE [s EXCEPT !.b.disk = write_page(@, s.h.fd, -1, <<s.h.first_free, s.h.page_num, 0>>),
                 !.h.changed = FALSE]

force_all_pages(s) ==
  LET t == save_header(s)
  IN Step(s, s.h.open, [t EXCEPT !.b = force_page(@, s.h.fd, ALL_PAGES)])

close_file(s) ==
  LET t == save_header(s)
  IN Step(s, s.h.open /\ \A i \in Slots :
                ~(s.b.buffer_pool[i].fd = s.h.fd /\ s.b.buffer_pool[i].pin > 0),
          [t EXCEPT !.b = flush_pages(@, s.h.fd), !.h.open = FALSE])

-----------------------------------------------------------------------------
(* table_manager and table_handle *)

\* What write_schema leaves where the number of columns belongs: the offset is
\* not advanced past it, so the length of the first column's name.
write_schema(names) == IF names = <<>> THEN 0 ELSE names[1]

create_table(s, names) ==
  LET made == file_allocate_page(s)
      written == file_store(made, 0, -1, write_schema(names))
  IN close_file(file_unpin_page(file_mark_dirty(written, 0), 0))

\* Mutant: page 0 stays pinned.
open_table_pinned(s) == file_get_this_page(s, 0)

open_table(s) == file_unpin_page(file_get_this_page(s, 0), 0)

\* The table_header written back is the one read, num_pages apart.
close_table(s) ==
  LET got == file_get_this_page(s, 0)
  IN force_all_pages(file_unpin_page(file_mark_dirty(got, 0), 0))

\* first_free is -1 in every table_header, so that the search ends at once.
get_next_free(s) == file_allocate_page(s)

\* The page comes pinned from allocate_page and is pinned and unpinned once more.
insert_record(s) ==
  LET page == NextPage(s.h)
  IN file_unpin_page(file_get_this_page(get_next_free(s), page), page)

get_record(s, page) == file_unpin_page(file_get_this_page(s, page), page)

delete_record(s, page) == file_unpin_page(file_get_this_page(s, page), page)

\* `removed': what delete_record returned.
update_record(s, page, removed) ==
  LET t == delete_record(s, page)
  IN IF t.ok /\ removed THEN insert_record(t) ELSE t

-----------------------------------------------------------------------------
(* index_manager and index_handle *)

create_index(s) ==
  LET made == file_allocate_page(s)
      written == file_store(made, 0, 0, 0)
  IN close_file(file_unpin_page(file_mark_dirty(written, 0), 0))

open_index(s) == file_unpin_page(file_get_this_page(s, 0), 0)

close_index(s) == close_file(s)

index_allocate_page(s) == file_allocate_page(s)

\* num_pages, which create_index does not set, counts down; 0 fails the assertion.
index_dispose_page(s, page, num_pages) ==
  LET t == file_dispose_page(s, page) IN Step(t, num_pages - 1 > 0, t)

index_pin_page(s, page) == file_get_this_page(s, page)

\* The argument is not used.
index_unpin_page(s, page) == file_unpin_page(s, 0)

index_force_pages(s) == force_all_pages(s)

index_mark_dirty(s, page) == file_mark_dirty(s, page)
=============================================================================
