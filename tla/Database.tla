------------------------------ MODULE Database ------------------------------
(***************************************************************************)
(* db/alphadb.cc and transaction/txn_manager.cc over Handles.tla: any      *)
(* sequence of database commands, of calls of the table and index managers *)
(* and of calls through the handles the two caches keep.  All of it runs   *)
(* in the dispatcher's thread, so a call is one step.  Nothing catches an  *)
(* exception: the process ends (alive = FALSE).                            *)
(*                                                                         *)
(* open(2) returns the lowest number that is free, as the kernel does, so  *)
(* that numbers do come back here.                                         *)
(*                                                                         *)
(* DB_BASE_DIR is "~/", which chdir(2) takes literally: a directory named  *)
(* ~ below the current one.  There are Levels such directories, one inside *)
(* the other, below the one the server is started in.  The directory <<d>> *)
(* is the d-th of them, <<d, name>> the database of that name in it.  The  *)
(* shell of drop_db's rm takes ~ for the home directory; none of these is  *)
(* below that one.                                                         *)
(*                                                                         *)
(* A table_handle refers to the file_handle local to open_table, which is  *)
(* gone when the handle is used.  The model takes it as still there; that  *)
(* the process may as well end needs no action, since a behaviour may stop *)
(* anywhere.  The same goes for what read_schema does with a table of one  *)
(* column or more.                                                         *)
(***************************************************************************)
EXTENDS Handles, FiniteSets

CONSTANTS
  KernelFds,  \* the numbers open(2) returns: 0 .. n
  Names,      \* names of tables and databases
  IndexNos,   \* numbers of the indexes of a table, as in their file's name
  Schemas,    \* column name lengths of the tables
  Junk,       \* what an uninitialised num_pages may hold
  Levels,     \* directories named ~
  OldDbs,     \* databases of an earlier run of the server
  MaxFiles,   \* bound: paths at which files are made
  MaxPins,    \* bound: pins of a page
  MaxCalls,   \* bound: calls made
  MaxDrops    \* bound: files of one name unlinked

NoFile == <<>>
Dirs == {<<d>> : d \in 1 .. Levels} \cup {<<d, n>> : d \in 1 .. Levels, n \in Names}
Paths == [dir: Dirs, name: Names, kind: {"table"} \cup IndexNos]
Caches == {"alphadb", "txn"}

ASSUME DatabaseAssumption ==
  /\ KernelFds \subseteq Fds /\ KernelFds # Fds /\ KernelFds \subseteq Nat
  /\ "-1" \in IndexNos /\ Levels \in Nat \ {0} /\ OldDbs \subseteq Dirs /\ MaxFiles \in Nat /\ MaxDrops \in Nat /\ MaxPins \in Nat

VARIABLES
  bm,           \* the buffer pool, with the blocks of the open files
  store,        \* the blocks of a file that is not open, Absent if there is none
  file,         \* the file behind a descriptor: its path and how many files of
                \*   that path were unlinked before it was made
  dropped,      \* path -> files of that path unlinked
  tables,       \* tables_ of alphadb and of txn_manager: <<cache, name>> -> handle
  indexes,      \* indexes_ of txn_manager: name -> handle
  cwd,          \* the current directory
  current_dir,  \* current_dir_ without DB_BASE_DIR: the names appended to it
  db_opened,    \* names for which db_opened_ is true
  dbs,          \* the databases there are
  alive,        \* the process runs
  calls,        \* history: the number of calls made
  lapses        \* history: the first to occur of "forced" (force_page wrote over
                \*   a file header), "unlinked" (a file was unlinked while open)
                \*   and "moved" (the directory changed while a table was open)

dirs == <<cwd, current_dir, db_opened, dbs>>
vars == <<bm, store, file, dropped, tables, indexes, dirs, alive, calls, lapses>>

Absent == [p \in Pages \cup {-1} |-> NoPage]
NoHandle == [fd |-> -1, first_free |-> PAGE_LIST_END, page_num |-> 0,
             changed |-> FALSE, open |-> FALSE]

Init ==
  /\ bm = [free_list |-> [i \in 1 .. PoolSize |-> i - 1], used_list |-> <<>>,
           buffer_pool |-> [s \in Slots |->
              [fd |-> CHOOSE fd \in Fds : fd \notin KernelFds, page |-> 0,
               pin |-> 0, dirty |-> FALSE, data |-> Zero]],
           hash_table |-> [k \in Key |-> -1], disk |-> [k \in Block |-> NoPage]]
  /\ store = [p \in Paths |-> Absent] /\ dropped = [p \in Paths |-> 0]
  /\ file = [fd \in KernelFds |-> NoFile]
  /\ tables = [k \in Caches \X Names |-> NoHandle]
  /\ indexes = [n \in Names |-> NoHandle]
  /\ cwd = <<1>> /\ current_dir = <<>> /\ db_opened = {} /\ dbs = OldDbs
  /\ alive = TRUE /\ calls = 0 /\ lapses = {}

-----------------------------------------------------------------------------
(* Files *)

At(n, kind) == [dir |-> cwd, name |-> n, kind |-> kind]
Current(p) == <<p, dropped[p]>>
Behind(f) == {fd \in KernelFds : file[fd] = f}
Exists(p) == store[p] # Absent \/ Behind(Current(p)) # {}
Free == Behind(NoFile)
Room(p) == Cardinality({q \in Paths : Exists(q) \/ dropped[q] > 0} \cup {p}) <= MaxFiles

\* The bytes of block q of the file p names now.
OnDisk(p, q) ==
  IF Behind(Current(p)) = {} THEN store[p][q]
  ELSE bm.disk[<<CHOOSE fd \in Behind(Current(p)) : TRUE, q>>]

Lapse(l) == lapses' = IF lapses = {} THEN l ELSE lapses

\* The disk when descriptor fd has the given blocks.
With(b, fd, blocks) ==
  [b EXCEPT !.disk = [k \in Block |-> IF k[1] = fd THEN blocks[k[2]] ELSE @[k]]]
BlocksOf(b, fd) == [q \in Pages \cup {-1} |-> b.disk[<<fd, q>>]]

\* Descriptors of one file see the same blocks.
Shared(b) ==
  LET written(k) == {j \in Block : /\ {j[1], k[1]} \subseteq KernelFds \ Free /\ j[2] = k[2]
                                   /\ file[j[1]] = file[k[1]] /\ b.disk[j] # bm.disk[j]}
  IN IF b.disk = bm.disk THEN b
     ELSE [b EXCEPT !.disk = [k \in Block |-> IF written(k) = {} THEN @[k]
                                               ELSE @[CHOOSE j \in written(k) : TRUE]]]

\* An exception nobody catches ends the process.
Terminate ==
  /\ alive' = FALSE
  /\ UNCHANGED <<bm, store, file, dropped, tables, indexes, dirs, lapses>>


\* What a call on a handle that stays open leaves behind, or its exception.
Ends(s) == ~s.ok /\ Terminate

\* io_manager::create_file and open_file of a new file; O_EXCL refuses another.
creating(p) ==
  [open_file(With(bm, Min(Free), [Absent EXCEPT ![-1] = <<PAGE_LIST_END, 0, 0>>]), Min(Free))
     EXCEPT !.ok = ~Exists(p)]

\* s: the call that made the file and closed it.
Created(p, s) ==
  /\ store' = [store EXCEPT ![p] = BlocksOf(s.b, s.h.fd)]
  /\ bm' = Shared(With(s.b, s.h.fd, Absent))
  /\ UNCHANGED <<file, dropped, tables, indexes, dirs, alive, lapses>>

\* io_manager::open_file.
opening(p) ==
  IF Exists(p) THEN open_file(With(bm, Min(Free), [q \in Pages \cup {-1} |-> OnDisk(p, q)]), Min(Free))
  ELSE [ok |-> FALSE, b |-> bm, h |-> NoHandle]

Opened(p, s) ==
  /\ file' = [file EXCEPT ![s.h.fd] = Current(p)]
  /\ store' = [store EXCEPT ![p] = Absent]
  /\ bm' = Shared(s.b)
  /\ UNCHANGED <<dropped, dirs, alive, lapses>>

Used(s) == bm' = Shared(s.b) /\ UNCHANGED <<store, file, dropped, dirs, alive>>

\* io_manager::destroy_file.
Unlink(P) ==
  /\ store' = [p \in Paths |-> IF p \in P THEN Absent ELSE store[p]]
  /\ dropped' = [p \in Paths |-> IF p \in P THEN dropped[p] + 1 ELSE dropped[p]]
  /\ Lapse(IF \E p \in P : Behind(Current(p)) # {} THEN {"unlinked"} ELSE {})

-----------------------------------------------------------------------------
(* Tables and indexes are made, dropped, found in a cache or opened *)

CreateTable(n, names) ==
  LET s == create_table(creating(At(n, "table")), names)
  IN alive /\ Free # {} /\ Room(At(n, "table")) /\ (Ends(s) \/ (s.ok /\ Created(At(n, "table"), s)))

index_file(n, no) == At(n, no)

CreateIndex(n, no) ==
  LET s == create_index(creating(index_file(n, no)))
  IN alive /\ Free # {} /\ Room(index_file(n, no)) /\ (Ends(s) \/ (s.ok /\ Created(index_file(n, no), s)))

\* DROP: the table, then its index -1; if either is missing, unlink throws.
Drop(n) ==
  LET P == {At(n, "table"), index_file(n, "-1")}
  IN /\ alive /\ \A p \in P : dropped[p] < MaxDrops
     /\ IF \A p \in P : Exists(p)
        THEN Unlink(P) /\ UNCHANGED <<bm, file, tables, indexes, dirs, alive>>
        ELSE Terminate

\* txn_manager::get_table for a name it does not have.
GetTable(n) ==
  LET p == At(n, "table")
      s == open_table(opening(p))
  IN /\ alive /\ Free # {} /\ tables[<<"txn", n>>] = NoHandle
     /\ \/ Ends(s)
        \/ s.ok /\ Opened(p, s) /\ tables' = [tables EXCEPT ![<<"txn", n>>] = s.h] /\ UNCHANGED indexes

\* INSERT into a table alphadb has not opened.
InsertOpens(n) ==
  LET p == At(n, "table")
      s == insert_record(open_table(opening(p)))
  IN /\ alive /\ Free # {} /\ tables[<<"alphadb", n>>] = NoHandle
     /\ \/ Ends(s)
        \/ s.ok /\ Opened(p, s) /\ tables' = [tables EXCEPT ![<<"alphadb", n>>] = s.h] /\ UNCHANGED indexes

\* txn_manager::get_index looks only for the table's name.
GetIndex(n, no) ==
  LET p == index_file(n, no)
      s == open_index(opening(p))
  IN /\ alive /\ Free # {} /\ indexes[n] = NoHandle
     /\ \/ Ends(s)
        \/ s.ok /\ Opened(p, s) /\ indexes' = [indexes EXCEPT ![n] = s.h] /\ UNCHANGED tables

-----------------------------------------------------------------------------
(* Calls through cached handles *)

S(h) == [ok |-> TRUE, b |-> bm, h |-> h]

OnTable(k, s, lapse) ==
  /\ alive /\ tables[k] # NoHandle
  /\ \/ Ends(s)
     \/ /\ s.ok /\ Used(s) /\ tables' = [tables EXCEPT ![k] = s.h]
        /\ Lapse(lapse) /\ UNCHANGED indexes

Insert(k) == OnTable(k, insert_record(S(tables[k])), {})
GetRecord(k, page) == OnTable(k, get_record(S(tables[k]), page), {})
DeleteRecord(k, page) == OnTable(k, delete_record(S(tables[k]), page), {})
UpdateRecord(k, page, removed) == OnTable(k, update_record(S(tables[k]), page, removed), {})
CloseTable(k) == OnTable(k, close_table(S(tables[k])), {"forced"})

\* DELETE: the record deleted is rid{-1, -1}.
Delete(n) == DeleteRecord(<<"alphadb", n>>, -1)

OnIndex(n, s, lapse) ==
  /\ alive /\ indexes[n] # NoHandle
  /\ \/ Ends(s)
     \/ /\ s.ok /\ Used(s) /\ indexes' = [indexes EXCEPT ![n] = s.h]
        /\ Lapse(lapse) /\ UNCHANGED tables

Pins(b, fd, page) == IF Resident(b, fd, page) THEN b.buffer_pool[Slot(b, fd, page)].pin ELSE 0

AllocateIndexPage(n) == OnIndex(n, index_allocate_page(S(indexes[n])), {})
DisposeIndexPage(n, page, junk) == OnIndex(n, index_dispose_page(S(indexes[n]), page, junk), {})
PinIndexPage(n, page) ==
  /\ indexes[n].open => Pins(bm, indexes[n].fd, page) < MaxPins
  /\ OnIndex(n, index_pin_page(S(indexes[n]), page), {})
UnpinIndexPage(n, page) == OnIndex(n, index_unpin_page(S(indexes[n]), page), {})
ForceIndexPages(n) == OnIndex(n, index_force_pages(S(indexes[n])), {"forced"})
MarkIndexDirty(n, page) == OnIndex(n, index_mark_dirty(S(indexes[n]), page), {})

\* index_manager::close_index.  The handle stays in the cache.
CloseIndex(n) ==
  LET h == indexes[n]
      s == close_index(S(h))
      p == file[h.fd][1]
  IN /\ alive /\ h # NoHandle
     /\ \/ Ends(s)
        \/ /\ s.ok /\ indexes' = [indexes EXCEPT ![n] = s.h]
           /\ file' = [file EXCEPT ![h.fd] = NoFile]
           /\ store' = IF file[h.fd] = Current(p) THEN [store EXCEPT ![p] = BlocksOf(s.b, h.fd)] ELSE store
           /\ bm' = With(s.b, h.fd, Absent)
           /\ UNCHANGED <<dropped, tables, dirs, alive, lapses>>

-----------------------------------------------------------------------------
(* Databases are directories *)

\* Where chdir(DB_BASE_DIR + names) leads: the current directory if it fails.
chdir(names) ==
  LET d == cwd[1] + 1
  IN IF Len(cwd) # 1 \/ d > Levels THEN cwd
     ELSE IF names = <<>> THEN <<d>>
     ELSE IF Len(names) = 1 /\ <<d, names[1]>> \in dbs THEN <<d, names[1]>>
     ELSE cwd

Moves(to) ==
  /\ cwd' = to
  /\ Lapse(IF to # cwd /\ \E k \in DOMAIN tables : tables[k] # NoHandle THEN {"moved"} ELSE {})
  /\ UNCHANGED <<bm, store, file, dropped, tables, indexes, alive>>

\* mkdir is tried only if chdir succeeded, and may find the name taken.
CreateDb(n) ==
  /\ alive /\ Moves(chdir(<<>>))
  /\ dbs' = IF cwd' # cwd THEN dbs \cup {<<cwd'[1], n>>} ELSE dbs
  /\ UNCHANGED <<current_dir, db_opened>>

\* The name stays in current_dir_ when chdir fails.
OpenDb(n) ==
  /\ alive /\ n \notin db_opened /\ Len(current_dir) < 2
  /\ current_dir' = Append(current_dir, n)
  /\ Moves(chdir(current_dir'))
  /\ db_opened' = IF cwd' # cwd THEN db_opened \cup {n} ELSE db_opened
  /\ UNCHANGED dbs

CloseDb(n) ==
  /\ alive /\ n \in db_opened
  /\ current_dir' = <<>> /\ Moves(chdir(<<>>))
  /\ db_opened' = IF cwd' # cwd THEN db_opened \ {n} ELSE db_opened
  /\ UNCHANGED dbs

\* drop_db closes the database; its rm looks in the home directory.
DropDb(n) == CloseDb(n)

-----------------------------------------------------------------------------
\* SELECT, UPDATE and SHOW change nothing.
ServeCommand(n) ==
  CreateDb(n) \/ InsertOpens(n) \/ Insert(<<"alphadb", n>>) \/ Delete(n) \/ Drop(n)

Next ==
  calls < MaxCalls /\ calls' = calls + 1 /\ \E n \in Names :
    \/ ServeCommand(n)
    \/ OpenDb(n) \/ CloseDb(n) \/ DropDb(n)
    \/ \E names \in Schemas : CreateTable(n, names)
    \/ \E no \in IndexNos : GetIndex(n, no) \/ CreateIndex(n, no)
    \/ GetTable(n) \/ AllocateIndexPage(n) \/ ForceIndexPages(n) \/ CloseIndex(n)
    \/ \E page \in Pages :
         \/ PinIndexPage(n, page) \/ UnpinIndexPage(n, page) \/ MarkIndexDirty(n, page)
         \/ \E junk \in Junk : DisposeIndexPage(n, page, junk)
    \/ \E c \in Caches :
         \/ Insert(<<c, n>>) \/ CloseTable(<<c, n>>)
         \/ \E page \in Pages :
              \/ GetRecord(<<c, n>>, page) \/ DeleteRecord(<<c, n>>, page)
              \/ \E removed \in BOOLEAN : UpdateRecord(<<c, n>>, page, removed)

Spec == Init /\ [][Next]_vars

-----------------------------------------------------------------------------
(* Properties *)

\* The indexes that were opened and closed.  flush_pages frees slots by the number
\* an entry still carries (buffer_manager.cc:232).  When two indexes are closed,
\* two slots carry numbers that open(2) will return, and a file that gets the
\* number of one and the slot of the other frees both when it is closed.
ClosedIndexes == {n \in Names : indexes[n] # NoHandle /\ ~indexes[n].open}
NumbersTold == alive /\ Cardinality(ClosedIndexes) <= 1

\* A slot of the pool is on exactly one of the two lists, with the numbers
\* open(2) really returns, until a second index is closed: creating, opening and
\* dropping tables and indexes, in any order, never frees a slot twice, since
\* every file that is closed has one page in the pool (index_handle unpins page
\* 0 only), and the slot freed last is the first to be taken.
SlotsKept ==
  NumbersTold =>
    \A i \in Slots :
      Cardinality({j \in DOMAIN (bm.free_list \o bm.used_list) :
                     (bm.free_list \o bm.used_list)[j] = i}) = 1

\* Between calls the header page of a table is unpinned and every page that an
\* insert made has exactly one pin, the one get_next_free's allocate_page took
\* (table_handle.cc:87): so there are never more such pages than slots, and no
\* sequence of lookups, reads, deletes and closes adds or loses a pin.
PinsAccounted ==
  NumbersTold =>
    \A k \in DOMAIN tables : tables[k] # NoHandle =>
      \A page \in 0 .. tables[k].page_num - 1 :
        Pins(bm, tables[k].fd, page) = (IF page = 0 THEN 0 ELSE 1)

\* The name of a table means one file: the handle a cache has for the name is
\* that of the file the name means in the current directory, and a file that is
\* not open has a header that counts its page 0 and a page 0 in use, so that
\* open_table succeeds; unless the directory was changed under an open table,
\* the table dropped while open, or force_page(ALL_PAGES) called
\* (table_manager.cc:59).
NameFinds ==
  NumbersTold /\ lapses = {} =>
    \A n \in Names :
      LET p == At(n, "table") IN
      /\ \A c \in Caches : tables[<<c, n>>] # NoHandle =>
           file[tables[<<c, n>>].fd] = Current(p)
      /\ Exists(p) => /\ OnDisk(p, -1)[2] >= 1
                      /\ OnDisk(p, 0)[1] = PAGE_USED
=============================================================================
