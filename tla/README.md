# A TLA+ model of alphadb

alphadb is a small relational database in C++: paged files behind a buffer
pool, tables and B+ tree indexes on top of them, a lock manager, an event loop
with a thread pool, RPC over it, and a Raft server. This directory holds TLA+
modules for it, TLC configurations that check them on small instances, and
proofs that TLAPS checks for all instances.

The C++ under `src/` is the reference. Every definition keeps the name of the
function it stands for where TLA+ allows it; `PROJECT.json` gives the lines.

## The system

| Part | Source | Module | State |
|---|---|---|---|
| buffer manager, page index | `io/buffer_manager.*`, `io/hash_table.*` | `BufferPool`, `BufferManager` | modelled, proved |
| paged files | `io/file_handle.*`, `io/io_manager.*` | `FilePages`, `FileHandle` | modelled |
| thread pool | `network/thread_pool.*` | `ThreadPool`, `TaskQueue` | modelled, refinement, proved |
| dispatcher, timers | `network/dispatcher.*` | `Dispatcher` over `TaskQueue` | modelled, composed, proved |
| ring buffer, varint coding | `network/buffer.*`, `coding.*` | `RingBuffer` | partly |
| connections, channels, RPC client | `network/conn.*`, `channel.*`, `rpc/rpc_conn.*`, `rpc/codec.*` | `RpcConn` | partly: the client's end |
| lock manager | `transaction/lock_*` | `LockManager` | modelled, proved |
| Raft | `consensus/raft/*` | `RaftServer` | modelled: one server, proved |
| tables and indexes as files | `table/table_manager.*`, `table_handle.*`, `index/b+tree/index_manager.*`, `index_handle.*` | `FilePages`, `Handles` | modelled |
| database, commands, transactions' caches | `db/alphadb.*`, `transaction/txn_manager.*` | `Database` over `Handles` | modelled, composed |
| slotted page, rows, table scan | `table/table_format.*`, `row.*`, `table_iterator.*` | `TableFormat` | operators, proved |
| comparison, criteria, index node, index scan | `io/iterator.*`, `index/b+tree/index_format.*`, `index_iterator.*` | `Scan`, `LeafSearch` | operators and search, proved |
| B+ tree | `index/b+tree/b_plus_tree.*` | `TreeDescent` | partly: the descents, proved |
| RPC server, sockets, pollers | `network/rpc/rpc_server.*`, `server.*`, `poller.*` | | as input |
| two-phase and optimistic managers, Paxos | `transaction/twopl*`, `occ*`, `consensus/paxos/*` | | no bodies to model |
| SQL front end | `sql/*` | | generated code and plain data |

How they interact: `main.cc` starts a server whose connections pass commands to
`alphadb`; tables and indexes keep their records in pages of a `file_handle`;
every `file_handle` of an `io_manager` shares one `buffer_manager` of two slots
(`io/io_manager.h:9`). Connections and timers run in the `dispatcher`, which
hands expired timers to the `thread_pool`. Raft sends its messages through
`rpc_conn` and keeps time with the dispatcher.

Much of the code is unfinished: members that no constructor sets, functions
that end without a result, handlers that lock a mutex twice. The models keep
this. Memory that is read before it is set holds any value; a function without
a result returns any; an access that may end the process may always do so,
which needs no action, because a behaviour may stop anywhere. Where a promise
of the code fails, a history variable `lapses` records what went wrong, and the
property says what holds as long as that has not happened. The lapses are
listed in each module; each of them does occur in the runs, except `nested` of
the lock manager, which takes two items.

## The modules

**BufferPool** is the buffer manager's state as a record (`free_list`,
`used_list`, `buffer_pool`, `hash_table`, and the `disk` it reads and writes)
and one operator per member function. `hash_table` is the map from (fd, page) to
slot that the bucket chains implement, -1 for absent. `used_map_` holds the
positions of the slots of `used_list_` and has no counterpart: as long as no
slot is listed twice it changes how fast `remove` is, not what it does. Page
contents are members of a small set; blocks are numbered so that -1 is the file
header, where offset `page * buffer_size + 4096` is 0.

**BufferManager** is that pool under any sequence of calls. The program uses the
io layer from one thread, so a call is one step; only the loop of `flush_pages`
takes a step per slot. Four variables describe the callers and are read by
no code: `held` (pins they have), `ptr` (the slot they got a pointer to),
`expect` (the bytes they last put there) and `unsaved` (bytes changed
since the last `mark_dirty`). An exception nobody catches ends the process
(`alive = FALSE`); the only `catch` blocks on this path are in `get_next_page`
and `get_prev_page`, so a failed read (`GetFails`) leaves the process running.
Two constants select environments:

- `ReadMayFail`: `read(2)` may fail at any time, not only past the end of file;
- `FdReuse`: `open(2)` may return a number some buffer entry still carries.

**FilePages** has what `file_handle` does with the pages of a file, as operators
on the pool. **FileHandle** puts `file_handle` and `io_manager` over it: create,
open, close, destroy, allocate, dispose, the three ways to get a page, write,
unpin and force. The block of a page is `<<next_free, body>>`, that of the
header `<<first_free, page_num>>`, so that a page written over the header really
changes the header. The blocks of a closed file are kept under its name, those
of an open one under its descriptor. `WritePage` is what callers do: store
through the pointer and `mark_dirty`. `uses` and `body` are the callers'
view.

**ThreadPool** has a process per worker, per caller of `enqueue` and for the
destructor. A critical section is one step; what happens after the unlock
(`notify_one`, `notify_all`, running the task, `join`) is a step of its own.
The condition variable wakes waiters without cause too (`SpuriousWakeup`).
**TaskQueue** is what the pool promises, without threads: tasks start in the
order they were accepted, each once, and the pool is gone only after all have
finished. `Implements` is the refinement.

**Dispatcher** is the thread in `loop()`, callers of `run_at`, `run_every`,
`cancel` and `exit`, and `TaskQueue` for the thread pool: what `ThreadPool` was
shown to implement is what the dispatcher builds on. Only `handle_timeout` and
`exit` take `mutex_`, so `handle_timeout` takes a step to enqueue the first
timer and one to erase the first timer, and the callers' steps fall in between.
The poller watches the wake-up pipe (kqueue) or does not (epoll); `Init` takes
either. Lapses: `begin` (the first timer changed between enqueue and erase, so
that another one is erased), `late` (a repeatable task ran so late that its
next time was past), `dangling` (a repeatable task was erased while its closure
was queued or about to run).

**LockManager** has a thread per transaction. A section under one mutex is one
step; `add`, the push, the wait, the notification, the unlocked test of
`wait_list` and `remove` are steps of their own. `own` is what the callers hold.
Lapses: `entry` (a new entry's item or count is not what it should be),
`record` (an unlock found no record to remove: it looks for one in
`current_lock_mode`, which a shared grant does not set), `freed` (an entry was
deleted with records or in use), `upgrade` (a transaction locked what it owned
already) and `nested` (it asked for a lock while it owned another).

**RingBuffer** is the index arithmetic of `buffer` and the varint coding, with
bytes of few values and a machine word of few values, so that the wrap of
`unget` is the real one. **RpcConn** is the client's end of a connection: a
caller (a step per `put` and per `write(2)`), the dispatcher's thread in
`handle_read` and the read callback, and the timers of the calls: the dispatcher's
thread hands an expired one to the thread pool, which runs `cancel`. A timer that
the Raft server takes back is one that never expires. `handle_read`
asks for as many bytes as the buffer already holds, so that what is decoded is
not what was sent: decoded numbers are arbitrary, the indices exact. Lapses:
`overrun` (a copy past the end of the ring), `filled` (bytes put without room),
`spin` (`is_ready` waits for ever in the dispatcher's thread).

**RaftServer** is one server. The encoders of `rpc_args.cc` write every field of
a message to the same place, so all fields that arrive are one number nobody
sent; the peers are therefore whatever may arrive, duplicated, late or never
asked for. Handlers hold `mutex_` and call functions that lock it again: with a
`std::mutex` the server is `stuck` there, with a mutex that lets its owner in
(`relock`) the protocol behind goes on. `Init` takes either, so that the
properties are shown of the code as it is and of the code with that one change.
`Crash` loses all that `shutdown` did not write; `Start` reads the file, with
whatever a failed read leaves: the size of the log is never read, so that a log of
any length comes out of it. Words, ints and chars have their widths, as constants
(`ULONG`, `UINT`, `UCHAR`): a number on the wire is cut to a char where it is the
reply of a vote and to an int where it becomes a term or a vote. Two lapses
are variables of their own. `overlap`: two clients were inside
`apply_to_statemachine`, which takes no lock. `narrowed`: `convert_to(role, int)`
(`raft_server.cc:81`) has just cut a term. A request of a newer term that does not fit
an int, 2^32 + 1 say, makes the server's term 1, where `raft_server.h:38` says that it
"increases monotonically", and the vote of the old term is forgotten; `VoteStays` and
`GrowsMonotonically` are about all other steps, and fail without the exception.

**Handles** has the calls of the table and index managers and of their handles
over `FilePages`, as operators on a pool and a handle; **Database** runs them:
any sequence of `serve_command`, `create_db`, `open_db`, `close_db`, `drop_db`,
of the managers' calls and of calls through the handles that `alphadb` and
`txn_manager` cache. It adds what files are: names in directories, the working
directory that `chdir` changes, unlinked files that are still open, and
`open(2)` returning the lowest free number, so that numbers do come back here.
Lapses: `forced` (`force_page(ALL_PAGES)` wrote over a header), `unlinked` (a
file was dropped while open), `moved` (the directory changed under an open
table).

**TableFormat** and **Scan** are pure: the slotted page, the coding of a column and
the iterator of a table; comparison, criteria, the node of the B+ tree and the
iterator of an index. They have no constants and no behaviour, and are used by
theorems only. **LeafSearch** is `find_in_leaf` and **TreeDescent** the three
descents of the tree, a step per turn of the loop, for nodes and trees of every
size.

The `MC` modules give the constants their small values.

## The runs

| Run | Checks | States |
|---|---|---|
| `buffer_pool` | pinned pages stay put; no update is lost over eviction; a closed file is complete on disk | 1,229,022 |
| `buffer_pool_faults` | types; each slot on one list; index and entries agree | 151,614 |
| `fd_reuse` | the same pool when descriptor numbers come back: **violated** | 16-step trace |
| `file_handle` | one owner per page; the free list is exact; scans find every page in use | 189,302 |
| `file_contents` | types; pages in use keep their bytes | 61,414 |
| `force_all_pages` | `force_page(ALL_PAGES)` saves the file: **violated** | 5-step trace |
| `thread_pool` | types; no lost wakeup; a task is in one place; every accepted task runs; the destructor returns; refinement of `TaskQueue` | 4,115 |
| `dispatcher` | types; no timer is late by more than one poll; a cancelled timer does not run; every timer runs; `exit` ends the loop | 418,000 |
| `lock_manager` | types; no conflicting owners; no lost wakeup; grants in the order of the list; no starvation | 316,376 |
| `rpc_conn` | types; calls reach the socket whole and in order; a callback runs at most once and not after a cancel; every call has one fate, and none waits once its timer has run | 1,321,774 |
| `raft_server` | types; a vote stays and terms grow unless a term is cut; commits grow and are in the log; entries are applied once and in order | 891,097 |
| `database` | until a second index is closed: every slot on one list; pins accounted for; a name means one file | 139,242 |

### Two disagreements

`force_page(ALL_PAGES)` (`io/buffer_manager.cc:152`) writes each dirty page to
the block of its *argument*. For -1 that is the file header: the pages of the
file land on offset 0, one over the other, are marked clean and never reach
their own blocks. The default argument in `io/file_handle.h:54` and the callers
(`table_manager::close_table`, `index_handle::force_pages`) mean all pages of
the file. The other runs of the io layer call `force_page` with a page; in
`database` it is called as the program does, and recorded as a lapse.

`flush_pages` (`io/buffer_manager.cc:232`) finds a file's slots by `entry.fd`,
which nothing resets. `open(2)` returns the lowest free number, so a file that
is closed, opened again and closed with fewer pages touched than the first time
has an old slot on `free_list_` twice, and `internal_alloc` gives it to a second
page while the first is pinned. It takes a file closed with two unpinned slots.
In the database, with the numbers `open(2)` really returns, one index that is
closed does no harm: of files in use only indexes are closed, and
`index_handle::unpin_page` unpins page 0 whatever page it is given, so that an
index with a second page cannot be closed at all, and one with a single page
frees a single slot, which is the first to be taken again. It takes a second
closed index. Create two indexes, open each, close each and create a table: its
file has the number of the first index and the slot of the second, and closing it
frees both slots. The properties of `database` therefore hold
as long as at most one index was closed (`NumbersTold`), and the run has two names so
that the second one does happen.

**What the passing runs of `BufferManager` and `FileHandle` and the proofs show is
for `FdReuse = FALSE`**, that is, for `open(2)` returning numbers that no entry
carries; `FileHandle` has the same guard. With reuse the properties fail, and
then nothing can be said of the pool, so the assumption is a premise of each
theorem and not left to the reader.

### Bounds, and why they are enough

- `PoolSize = 2` is the size the program configures; `file_contents` uses 1, so
  that each change of page evicts.
- Two descriptors with two pages each in `buffer_pool`: four pages compete for
  two slots, so there are evictions of clean and of dirty pages, full pools of
  pinned pages, and a file closed while another has slots in use.
- One file of three pages in `file_handle`: a free list of length three can be
  built, taken down and rebuilt in every order while at most two pages are
  resident. Three descriptor numbers let a file be closed and opened again at
  any time with fresh numbers (two slots carry at most two old ones).
- `MaxPins` is 2 where pin counts matter (one pin more than a flag could
  count) and 1 in `file_handle`, where the question is who owns a page.
- Two workers, two callers and three tasks: a queue longer than the number of
  workers, two notifications in flight, a worker asleep while the other works.

- `dispatcher`: three timers, set now or two ticks ahead, one poll being one
  tick: a timer can be put before the first one while that is being handled, a
  repeatable task can come round twice, and there is time after the last timer.
- `lock_manager`: three transactions, one item, two addresses for entries, three
  calls of `lock`: a shared and an exclusive waiter behind an owner, and an
  entry deleted and made anew at the same or the other address. Everything hashes
  to one bucket.
- `rpc_conn`: a ring of six bytes and three calls of up to three bytes each, so
  that the third goes around the end or meets a full ring; two events.
- `raft_server`: words of four bits, ints of three and chars of two; one peer, two
  clients, the numbers 0, 1, 2 and 9, which as an int is 1; a log of two entries,
  two starts, four timers in the first process (election, retry, heartbeat and
  what a heartbeat sets) and two in the second: an older, an equal and a newer
  term for each message, a restart from each file, and two clients that overlap.
- `database`: two names, of tables, indexes and databases, two directories
  inside each other, three descriptors and the pool of two slots, seven calls:
  enough to create, open, fill, close, drop and create again, in either
  directory, and to close two indexes and take their numbers again.


Descriptors and names are only compared, so permuting them is a sound symmetry; no run
with symmetry checks liveness.

### Fairness

Weak fairness of the steps of threads that have begun something, and nothing
else; nobody is obliged to make a call.

- `ThreadPool`: each worker's, each caller's and the destructor's steps. It says
  that the scheduler runs every runnable thread, that a mutex is granted in the
  end, and that tasks end. A spurious wakeup is never assumed. `Join` ends with
  no caller inside `enqueue`: to destroy an object while a member function runs
  in it is an error of the caller.
- `Dispatcher`: the loop, the clock, the wake-up write of an `exit` begun, the
  pool's start of a task and the end of each task.
- `LockManager`: each transaction's steps inside `lock` and `unlock`, and an
  owner unlocks in the end; without that no request could be promised anything.

The other specifications state no fairness and no liveness.

### What the models take for granted

- Operations of `std::map` are atomic, though run without a lock.
- Memory that was freed, or a reference to a local that is gone, still reads as
  it was, or the process ends: a `repeatable_task` that was erased, a
  `lock_entry` that was deleted, the `file_handle` local to `open_table` that a
  `table_handle` refers to, the parameters of `call()` that its task refers to.
- What `table_format` writes through offsets nobody set goes to the body of a
  page, not to the words the file layer uses.
- The home directory, where `drop_db`'s `rm` looks, is not below the directories
  named `~` that `chdir` goes to.
- Registering the handlers returns: `rpc::hash` (`rpc.cc:29`) has no end for a name that
  is not empty. Some lines of `raft_server.cc` and `rpc_conn.cc` do not compile
  as written (a capture list, a missing argument); they are read as meant.
- A candidate exists only because `role_` is not initialised: no code calls
  `convert_to(role::candidate)`.

## The proofs

Every theorem is for all values of the constants: any pool size, any number of
files, pages, threads, transactions, timers, peers. All rest on the assumptions
named next to the constants (`PoolAssumption`, `ManagerAssumption`,
`ThreadPoolAssumption`, `RaftAssumption`, `TableAssumption`, `JunkAssumption`,
`DispatcherAssumption`), which say what kind of thing a constant is and that
bounds leave room to begin, and TLC evaluates them in the runs. Two of them say a
little more: transactions, peers and clients are finite sets, because a count of
owners, votes or callers is a number of the code.

### Buffer manager: `BufferPoolProofs`, `BufferManagerProofs`

`BufferPoolProofs` has what each operation does to the pool: lemmas
about `remove`, `to_front` and the victim search on lists without repetition, then
one lemma per operation, that it keeps

    PoolInv: types, free_list and used_list partition the slots, and the index
             leads only to slots in use that hold the page looked up.

`BufferManagerProofs` lifts them to all behaviours with the inductive invariant

    IInv == ~FdReuse /\ TypeOK /\ PoolInv(bm) /\ FlushMeetsUsed

`SlotPartition` is not inductive by itself: a turn of the flush loop frees slot
`i` because its entry carries the file's number, whether or not the slot is in
use. `FlushMeetsUsed` supplies the missing fact, that a slot carrying the
number of an open file is in use until the loop has passed it. Opening a file
keeps it only under `~FdReuse`; every other action keeps it because an entry
changes its number only when its slot is taken into use.

Its second part is about bytes and pins. The invariant `CInv` adds to `IInv`
that the pool is *faithful*: every slot in use is the one the index leads to for
its page, and of every page the entry's pin count is the number of pins the
callers hold, a held page is in the slot its callers point at, the entry has the
bytes last written, the block on disk has them unless the entry is dirty or its
holder has not said `mark_dirty` yet, and only held pages are in that state.

| Theorem | States |
|---|---|
| `TypeCorrect` | `~FdReuse /\ Spec => []TypeOK` |
| `SlotsPartitioned` | `~FdReuse /\ Spec => []SlotPartition` |
| `HashSound` | `~FdReuse /\ Spec => []HashAgrees` |
| `PinsAreHonoured` | `H /\ Spec => []PinsHonoured` |
| `NoUpdateIsLost` | `H /\ Spec => []NoLostUpdate` |
| `ClosedFilesAreDurable` | `H /\ Spec => []ClosedIsDurable` |
| `PinnedStaysInPlace` | `H /\ Spec => []PinnedInPlace` |

where `H` is `~FdReuse /\ ~ReadMayFail /\ ALL_PAGES \notin ForcePages`. Each
hypothesis is a defect of the code met above or below, and none can be left out.
With reused numbers `PinnedInPlace` fails (run `fd_reuse`). With
`force_page(ALL_PAGES)` updates land in the header (run `force_all_pages`). A
read that fails leaves its slot in use and not indexed, still holding the old
page's dirty bytes, which a later eviction writes over newer ones. The first
three theorems hold with failing reads and with `ALL_PAGES`.

### Thread pool: `ThreadPoolProofs`

For any number of workers (at least one), callers and tasks. The inductive
invariant is

    Inv == TypeOK /\ Threads /\ NoLostWakeup /\ Places

`NoLostWakeup` alone is not inductive: a `notify_one` that finds nobody waiting
keeps it only because no worker returns before the queue is empty and `working_`
is false, which is in `Threads`. `Places` is `OnePlace` without cardinalities: the
queue and the workers' hands hold a task at most once, and hold it just while its
future is pending.

| Theorem | States |
|---|---|
| `TypeCorrect` | `Spec => []TypeOK` |
| `WakeupsKept` | `Spec => []NoLostWakeup` |
| `TaskInOnePlace` | `Spec => []OnePlace` |
| `PoolImplements` | `Spec => Abstract!Init /\ [][Abstract!Next]_(Abstract!vars)`: the safety part of `Implements` |

### Dispatcher: `DispatcherProofs`

For any timeouts, delays and interval, any number of timers and both pollers.

    Inv == Typed /\ PoolOK /\ Fresh /\ Linked /\ Settled /\ Punctual

- `Punctual` carries `BoundedLateness` around the loop: nothing is due when
  `loop_once` begins, the poll ends at most `DEFAULT_TIMEOUTS` after that, and a
  timer set meanwhile lies ahead unless `late` is recorded. The value of
  `next_timeout_` does not occur in it, which is why the unlocked updates do no harm.
- `Fresh` and `Linked` say what the numbers mean: `time_seq_` is past every number
  in use, a task's number is no timer's, and of the timers of a task just one will
  make the next one, the one its `repeatable_task` knows. Without the last part
  `cancel` of a task could leave a timer behind.
- `Settled` is the part that the lapses void: a timer that was enqueued is the one
  `handle_timeout` is about to erase, and nothing cancelled is set, or in the pool
  and about to repeat.
- `PoolOK` is what is needed of the pool: a task queued or running is pending.

| Theorem | States |
|---|---|
| `TypeCorrect` | `Spec => []TypeOK` |
| `LatenessBounded` | `Spec => []BoundedLateness` |
| `CancelsHold` | `Spec => []CancelHolds` |

### Lock manager: `LockManagerProofs`, `LockSafetyProofs`

For any transactions, items, hash function, addresses and contents of new entries.
`LockManagerProofs` has what the list operations do (`without`, the search along a
chain, the place of a transaction's record) and the invariant

    ShapeInv == heap \in [Addrs -> Entry] /\ Chained /\ Threaded

the chains hold live entries and share none, and threads have pointers and
arguments where they use them. It needs no hypothesis on lapses. `LockSafetyProofs` adds,
while no lapse but `nested` has occurred: one entry serves an item (`Single`),
threads inside `lock` and `unlock` have it (`AtEntry`), who asks does not own
(`Asking`), who owns has a granted record (`Backed`), whoever sleeps although
the predicate holds is about to be notified (`Woken`), and of each list (`Listed`):
nobody has two records, what is granted is one exclusive record at the head or
shared ones from the head on, a record tells where its thread is, and
`shared_lock_cnt` is the number of shared grants. `NoConflict` follows from
`Backed`, `Single` and `Listed`. `Woken` needs the order of the list and the exact
count: a release notifies only when the count falls to 0, and nobody behind
the sharers could go on before that.

| Theorem | States |
|---|---|
| `TypeCorrect` | `Spec => []TypeOK` |
| `NothingOvertakes` | `Spec => GrantsInOrder` |
| `MutualExclusion` | `Spec => []NoConflict` |
| `NoWakeupIsLost` | `Spec => []NoLostWakeup` |

### Raft: `RaftServerProofs`

For any number of peers and clients, any log and any numbers on the wire, with
either mutex. Each helper that computes the next state of a handler keeps the term
or raises it, and keeps the vote within a term (`Keeps`); the handlers are
compositions of them. The inductive invariant adds to `CommitInLog` the types it
needs, that the file holds a term `shutdown` wrote, and that a server that is down
has committed nothing, which `Start` needs as the log of the new process may be
empty. `Keeps` excepts the step in which a term is cut, and the widths are any that
a word is no narrower than an int. That `update_commit_index` finds a greatest index rests on the
well-foundedness of the naturals. `AppliedInOrder` needs two more invariants. One
says where the single client inside `apply_to_statemachine` is and what it has
counted already (`ApplyInv`). The other, of the types, counts with overlapping
clients too: `last_applied_` is ahead of the entries applied by the number of clients
between the increment and the call or its undoing, so that it cannot fall below 0.

| Theorem | States |
|---|---|
| `TypeCorrect` | `Spec => []TypeOK` |
| `CommittedInLog` | `Spec => []CommitInLog` |
| `AppliesInOrder` | `Spec => []AppliedInOrder` |
| `VoteKept` | `Spec => VoteStays` |
| `Monotonic` | `Spec => GrowsMonotonically` |

### Tables and indexes: `TableIndexProofs`

These parts have no constants and no assumption.

*The slotted page.* A page is laid out when its slots point at tuples that
follow one another down from the end of the page and the free space is what is
left between. From this a tuple ends where the one before it begins, and the
16 bits of a length do not wrap.

| Theorem | States |
|---|---|
| `TuplesApart` | on a laid-out page `get` reads bytes of its own tuple only |
| `RemoveLast` | removing the last tuple keeps the page laid out and frees its bytes and its slot |
| `RemoveOther` | removing another one takes the last slot away instead: what `remove` shifts is not the slot array |
| `PutNeverAppends` | `put` never reaches its branch for a new largest tuple |
| `NoTypeDecoded`, `TagForgetsColumn` | the tag of a column decodes to no type (`\|` for `&`) and does not tell the first eight columns apart |
| `NextStaysPut` | `table_iterator::next` returns where it stands, or not at all |

*Comparison and scans.* The comparison of the code is a strict weak order on every
type but `CHAR` (where it compares pointers), NaN set apart; the first differing
byte of two strings is the least element of a set of naturals. From this:

| Theorem | States |
|---|---|
| `StopMissesNothing` | when `can_stop_now` ends a scan of sorted keys, no key still to come fits |
| `ScanIsEmpty` | all the same a scan of an index is empty: `next_is_null_` is set from the start and nothing clears it |
| `ChildInRange` | `find_in_internal` leads to a child of the node |
| `ChildByPointer` | it is the right one in the order of the key *pointers*, but for keys that lie below the array of the keys, which line 119 takes for small |

*The search in a leaf.* The inductive invariant says that the keys left of `left`
are less than the one looked for and those right of `right` greater, if the node is
sorted, and that the bounds are inside the node. `Spec => []Finds` (`SearchCorrect`)
and `Spec => [][Narrows]_vars` (`SearchEnds`) follow: the search is right, and as
every turn looks at fewer slots, it ends.

*The descents.* The inductive invariant counts the pins: one on each level
passed. `DescentHolds`: a descent never unpins a node's page, since
`index_handle::unpin_page` unpins page 0 whatever it is given, so that it needs a
slot per level of a pool of two. `DescentPassesLeaves`: a completed descent of a
tree of more than one level returns a node from below the leaves.

### What is only model-checked, and what is only proved

- Liveness (`NoStarvation`, `EveryTimerRuns`, `ExitEnds` and those
  of the thread pool) and the fairness part of `Implements`: TLAPS has no rule for
  them.
- `FileHandle` and `Database`. `scan` and `flush_pages` are recursive functions over
  the pages of a file and the slots of the pool; what they return can be proved as for
  `without` of the lock manager, where induction over the list is done by looking at
  the least place where the claim fails, and has not been carried to the files.
- `RpcConn`: `StreamWhole` compares what the socket got with the coding of the
  numbers sent, byte by byte, around the end of the ring.
- Only proved, without a run: `TableFormat`, `Scan`, `LeafSearch` and
  `TreeDescent`, whose inputs are unbounded.

## What is not modelled

- Crashes. Nothing in the program recovers a file, so a crash between the write
  of the header and the writes of the pages leaves them inconsistent; there is
  no promise to check.
- Failing writes, and a failing `lseek`: they end the process through an
  uncaught exception.
- Copies of a `file_handle` in `FileHandle`. They share the pool and not the
  header. `Handles` and `Database` have the copies the tables and indexes make.
- What happens after a failed read is checked for the consistency of the lists
  and of the index only. The evicted entry stays behind, marked dirty, and may be
  written once more over its old block; the properties about contents are
  checked without read failures.
- The bucket chains of `hash_table` and their pointers.
- Inserting and removing in the B+ tree: `insert`, `remove`, `split`,
  `coalesce`, `redistribute` and the moves between nodes. A node is made of
  members of `index_format` that nobody sets (header, rids, keys, type and key
  length), `height_` of the tree is not set either, `move_half_to` has a second
  loop that counts up while it tests `>=` and never ends, and
  `insert_node_after` inserts nothing. There is no state that these functions
  could be said to change, so a model would be of another program. What can be said
  of them for a node that is given is in `Scan` and `LeafSearch`.
- `index_iterator::next` as a behaviour: `next_is_null_` is true from the start, so it
  always returns the null rid. `Scan` has its parts.
- Elections among several Raft servers, and whether a leader is ever elected:
  no field of a message survives the wire. That a crash keeps the vote is said
  in `raft_server.h:36` ("updated on stable storage before responding to RPCs") and
  not done: only `shutdown` writes the file. `VoteStays` is for a running server.
- The RPC server: its handlers are found by `rpc::hash`, which does not return.
- The poller's calls of epoll and kqueue, sockets, and the client program.
- Paxos and the two-phase and optimistic transaction managers: no bodies.
- The SQL front end: generated code and plain data; `serve_command` takes any
  statement. Exceptions: classes without state.

## Plan

- Proofs for `RpcConn` (`CallbackOnce` first, which is about who takes a future out
  of the map and not about bytes), then for `FileHandle` over the lemmas of
  `BufferPoolProofs`.
- The B+ tree, once its nodes are kept in pages.
- Several Raft servers, once messages carry their fields.

To run a check: `tlc -config BufferManager.cfg MCBufferManager` (a configuration
belongs to the module of its name, with `MC` before it where there is one; the
three others of the buffer manager and the file handle name theirs in
`PROJECT.json`), and `tlapm BufferManagerProofs.tla` for the proofs.
