------------------------------ MODULE RpcConn ------------------------------
(***************************************************************************)
(* network/rpc/rpc_conn.cc on network/conn.cc and network/channel.cc: the  *)
(* client's end of an RPC connection.  Three threads use it:               *)
(*   - a caller, one at a time, since raft_server calls with its mutex_    *)
(*     held: the constructor, then call(), a step per put and per write(2);*)
(*   - the dispatcher's, in loop_once: handle_read and the read callback,  *)
(*     and after them handle_timeout, which queues the timers that are due;*)
(*   - one of the pool's, in a timer's task: cancel().                     *)
(*                                                                         *)
(* The poller is kqueue's (epoll's never learns of a channel).  There      *)
(* READ_EVENT is -1, so enable_read sets every bit: both filters are       *)
(* added, and loop_once calls handle_read for each event, never            *)
(* handle_write.                                                           *)
(*                                                                         *)
(* handle_read asks read(2) for as many bytes as read_buf_ holds, not as   *)
(* it has room for, so that what is decoded from it is not what was        *)
(* received: decoded numbers are arbitrary here, the indices exact.  The   *)
(* task of call() refers to call()'s parameters, which are gone when it    *)
(* runs; the model takes them as still there.  std::map's operations are   *)
(* taken as atomic, locked or not.                                         *)
(***************************************************************************)
EXTENDS RingBuffer, FiniteSets

CONSTANTS
    MaxCalls,   \* bound: calls made
    ArgLen,     \* bytes of a call's encoded fields
    EntryLen,   \* bytes of the log entries append_entries carries
    MaxReads    \* bound: events handled

ASSUME ConnAssumption ==
    MaxCalls \in Nat /\ ArgLen \in Nat /\ EntryLen \in Nat
    /\ ArgLen + EntryLen < Low /\ MaxReads \in Nat /\ MaxCalls <= MaxNum

Ids == 0 .. MaxCalls - 1
Methods == {"request_vote", "append_entries"}
Junk == 2 * Low     \* a byte from outside the buffer

VARIABLES
    events,     \* channel's filters with the poller: read, write
    read_cb,    \* which read callbacks are set: channel's and conn's
    alive,      \* the process runs
    caller,     \* where the caller is
    rpc_id, write_buf, data,    \* the caller's part; data: bytes of write_buf_
    sent,       \* history: bytes the socket has taken
    made,       \* history: the methods called, in order
    futures, poll, read_buf, rpcid, reads,  \* the dispatcher's part; rpcid: a local,
                                            \*   0 when there is none
    timers,     \* ids whose cancelling timer the dispatcher has
    queued,     \* ids whose cancelling task is with the pool
    expired,    \* history: ids that cancel() was called for
    cancelled,  \* history: ids that cancel() took out of futures_
    called,     \* history: ids whose callback ran, in order
    lapses      \* history: "overrun" (access past the buffer's end), "filled"
                \*   (bytes put without room), "spin" (is_ready waits for ever).
                \*   After the first two the bytes are not followed any more.

setup == <<events, read_cb>>
writer == <<caller, rpc_id, write_buf, data, sent, made>>
reader == <<poll, read_buf, rpcid, reads>>
timing == <<timers, queued, expired, cancelled>>
vars == <<setup, alive, writer, reader, futures, timing, called, lapses>>

Init ==
    /\ events = {} /\ read_cb = {} /\ alive = TRUE
    /\ caller = "channel" /\ rpc_id = 0 /\ write_buf = Empty
    /\ data = [i \in Indices |-> Junk] /\ sent = <<>> /\ made = <<>>
    /\ futures = {} /\ poll = "wait" /\ read_buf = Empty /\ rpcid = 0 /\ reads = 0
    /\ timers = {} /\ queued = {} /\ expired = {} /\ cancelled = {} /\ called = <<>> /\ lapses = {}

-----------------------------------------------------------------------------
(* The constructor: the filters are set before the callback is stored.      *)

\* update_channel adds the filters of the bits set and deletes the others.
update_channel(bits) == events' = bits

SetUp(at, to, ev, cb) ==
    /\ alive /\ caller = at
    /\ caller' = to /\ update_channel(events \cup ev) /\ read_cb' = read_cb \cup cb
    /\ UNCHANGED <<alive, rpc_id, write_buf, data, sent, made, reader, futures, timing, called, lapses>>

EnableRead == SetUp("channel", "store", {"read", "write"}, {})
StoreReadCb == SetUp("store", "write", {}, {"channel"})
EnableWrite == SetUp("write", "rpc", {"write"}, {})
OnRead == SetUp("rpc", "idle", {}, {"conn"})

-----------------------------------------------------------------------------
(* call *)

\* The bytes of write_buf_ as size() and tail_ describe them.
Content == [i \in 1 .. size(write_buf) |-> data[(write_buf.tail + i - 1) % MaxSize]]

\* memcpy of s to head_ does not go around the ring.
copied(s) == [i \in Indices |-> IF i \in write_buf.head .. write_buf.head + Len(s) - 1
                                THEN s[i - write_buf.head + 1] ELSE data[i]]
put_lapses(s) ==
    (IF write_buf.head + Len(s) > MaxSize THEN {"overrun"} ELSE {}) \cup
    (IF size(write_buf) + Len(s) >= MaxSize THEN {"filled"} ELSE {})

\* The bytes afterwards: in the buffer, at the socket, and whose they are.
Bytes(d, t, m, more) ==
    /\ lapses' = lapses \cup more
    /\ IF lapses' \cap {"overrun", "filled"} = {}
       THEN data' = d /\ sent' = t /\ made' = m
       ELSE data' = [i \in Indices |-> Junk] /\ sent' = <<>> /\ made' = <<>>

Put(s, ring, m, at, to) ==
    /\ alive /\ caller = at /\ caller' = to
    /\ write_buf' = ring /\ Bytes(copied(s), sent, m, put_lapses(s))
    /\ UNCHANGED <<setup, alive, reader, futures, timing, called>>
PutBytes(n, at, to) ==
    Put([i \in 1 .. n |-> 0], put(write_buf, n), made, at, to) /\ UNCHANGED rpc_id
PutChar(n, at, to) ==
    Put(<<n>>, put_char(write_buf), made, at, to) /\ UNCHANGED rpc_id

\* marshal: the id, then the arguments.  request_vote_args are their length, cut
\* to a char, and the bytes; append_entries_args are the length of fields and
\* entries together, the number of entries, the fields and the entries.
MarshalId(method) ==
    /\ rpc_id < MaxCalls /\ rpc_id' = rpc_id + 1
    /\ Put(encode_uint[rpc_id], put(write_buf, Len(encode_uint[rpc_id])), Append(made, method), "idle", method)
VoteLength == PutChar(ArgLen, "request_vote", "bytes")
VoteBytes == PutBytes(ArgLen, "bytes", "send")
EntriesLength == PutChar(ArgLen + EntryLen, "append_entries", "count")
EntriesCount == PutChar(IF EntryLen = 0 THEN 0 ELSE 1, "count", "fields")
EntriesFields == PutBytes(ArgLen, "fields", "entries")
EntriesBytes == PutBytes(EntryLen, "entries", "send")

\* send_output: write(2) takes w of the bytes from tail_ on, as if they were
\* contiguous.
taken_all(w) == size(write_buf)
taken(w) == w
Write(w) ==
    /\ alive /\ caller = "send" /\ w \in 1 .. size(write_buf)
    /\ "filled" \notin lapses       \* bound: a full ring is written for ever
    /\ Bytes(data,
             sent \o [i \in 1 .. w |-> IF write_buf.tail + i > MaxSize THEN Junk
                                       ELSE data[write_buf.tail + i - 1]],
             made,
             IF write_buf.tail + size(write_buf) > MaxSize THEN {"overrun"} ELSE {})
    /\ write_buf' = advance_get(write_buf, taken(w))
    /\ UNCHANGED <<setup, alive, caller, rpc_id, reader, futures, timing, called>>

\* EAGAIN, another error, or nothing left to write: bytes may stay behind.
WriteEnds ==
    /\ alive /\ caller = "send" /\ caller' = "register"
    /\ UNCHANGED <<setup, alive, rpc_id, write_buf, data, sent, made, reader, futures, timing, called, lapses>>

\* The future; and with the id that call() returns the raft server sets a timer
\* to cancel the call.  One that it takes back when its role changes is one that
\* never expires.
Register ==
    /\ alive /\ caller = "register" /\ caller' = "idle"
    /\ futures' = futures \cup {rpc_id - 1}
    /\ timers' = timers \cup {rpc_id - 1}
    /\ UNCHANGED <<setup, alive, rpc_id, write_buf, data, sent, made, reader, queued, expired, cancelled, called, lapses>>

cancel_not(i) == futures
cancel(i) == futures \ {i}
Cancel(i) ==
    /\ alive /\ i \in queued /\ queued' = queued \ {i}
    /\ futures' = cancel(i) /\ expired' = expired \cup {i}
    /\ cancelled' = IF i \in futures THEN cancelled \cup {i} ELSE cancelled
    /\ UNCHANGED <<setup, alive, writer, reader, timers, called, lapses>>

-----------------------------------------------------------------------------
(* The dispatcher's thread *)

Quiet == UNCHANGED <<setup, writer, timing>>

\* handle_timeout comes after the events of a turn of loop_once, in the same thread.
HandleTimeout(i) ==
    /\ alive /\ poll = "wait" /\ i \in timers
    /\ timers' = timers \ {i} /\ queued' = queued \cup {i}
    /\ UNCHANGED <<setup, alive, writer, reader, futures, expired, cancelled, called, lapses>>

\* loop_once hands an event to the channel; an empty std::function throws.
Event ==
    /\ alive /\ poll = "wait" /\ events # {} /\ reads < MaxReads
    /\ reads' = reads + 1
    /\ alive' = ("channel" \in read_cb)
    /\ poll' = IF "channel" \in read_cb THEN "read" ELSE "wait"
    /\ UNCHANGED <<read_buf, rpcid, futures, called, lapses>> /\ Quiet

\* One turn of handle_read's loop: r bytes, or an error that is neither EINTR
\* nor EAGAIN and moves head_ by -1.
ReadTurn ==
    /\ alive /\ poll = "read"
    /\ \E r \in 1 .. size(read_buf) \cup {Word - 1} :
         /\ read_buf' = advance_put(read_buf, r)
         /\ lapses' = IF r # Word - 1 /\ read_buf.head + r > MaxSize
                      THEN lapses \cup {"overrun"} ELSE lapses
    /\ UNCHANGED <<alive, poll, rpcid, reads, futures, called>> /\ Quiet

\* Nothing to read, or end of file.
ReadEnds ==
    /\ alive /\ poll = "read" /\ poll' = IF "conn" \in read_cb THEN "ready" ELSE "wait"
    /\ UNCHANGED <<alive, read_buf, rpcid, reads, futures, called, lapses>> /\ Quiet

\* is_ready for a number len of n bytes at tail_: a negative sum is a large size_t.
is_ready(len, n) == len + n < 0 \/ len + n >= size(read_buf)

\* The read callback of the constructor, up to its unlocked find.
Decode ==
    /\ alive /\ poll = "ready"
    /\ \E u \in 0 .. MaxNum :
         LET n == Len(encode_uint[u]) IN
         IF is_ready(decode_varint(u), n)
         THEN /\ rpcid' = (IF u \in futures THEN u ELSE 0) /\ read_buf' = advance_get(read_buf, n)
              /\ poll' = IF u \in futures THEN "found" ELSE "wait"
              /\ UNCHANGED lapses
         ELSE /\ poll' = "spin" /\ lapses' = lapses \cup {"spin"}
              /\ UNCHANGED <<rpcid, read_buf>>
    /\ UNCHANGED <<alive, reads, futures, called>> /\ Quiet

\* Under the lock: if the id has gone since, operator[] makes an empty function,
\* whose call throws.
erase_not(i) == futures
erase(i) == futures \ {i}
Take ==
    /\ alive /\ poll = "found"
    /\ futures' = erase(rpcid)
    /\ alive' = (rpcid \in futures)
    /\ poll' = IF rpcid \in futures THEN "call" ELSE "wait"
    /\ rpcid' = IF rpcid \in futures THEN rpcid ELSE 0
    /\ UNCHANGED <<read_buf, reads, called, lapses>> /\ Quiet

\* The task: unmarshal decodes a reply of n bytes and puts it back, since n is
\* never the expected length 0; then the callback.  Both replies are two numbers.
request_vote_reply(b, n) == unget(get(b, 2), n + 2)
append_entries_reply(b, n) == request_vote_reply(b, n)
unmarshal(b, n) == {request_vote_reply(b, n), append_entries_reply(b, n)}
Callback ==
    /\ alive /\ poll = "call" /\ poll' = "wait" /\ rpcid' = 0
    /\ called' = Append(called, rpcid)
    /\ \E u \in 0 .. MaxNum : read_buf' \in unmarshal(read_buf, Len(encode_uint[u]))
    /\ UNCHANGED <<alive, reads, futures, lapses>> /\ Quiet

-----------------------------------------------------------------------------
Caller ==
    \/ EnableRead \/ StoreReadCb \/ EnableWrite \/ OnRead
    \/ VoteLength \/ VoteBytes \/ EntriesLength \/ EntriesCount \/ EntriesFields \/ EntriesBytes
    \/ WriteEnds \/ Register
    \/ \E w \in 1 .. MaxSize : Write(w)
Poller == Event \/ ReadTurn \/ ReadEnds \/ Decode \/ Take \/ Callback

Next ==
    \/ (\E method \in Methods : MarshalId(method)) \/ Caller \/ Poller
    \/ \E i \in Ids : HandleTimeout(i) \/ Cancel(i)

Spec == Init /\ [][Next]_vars

-----------------------------------------------------------------------------
(* Properties *)

\* The indices stay inside the buffers, whatever is put, written, read and put
\* back (all of buffer.cc is modulo max_size_); the rest has its type.
TypeOK ==
    /\ write_buf \in Ring /\ read_buf \in Ring
    /\ data \in [Indices -> 0 .. Junk] /\ sent \in Seq(0 .. Junk)
    /\ made \in Seq(Methods) /\ called \in Seq(Ids)
    /\ \A ids \in {futures, timers, queued, expired, cancelled} : ids \subseteq Ids
    /\ alive \in BOOLEAN /\ lapses \subseteq {"overrun", "filled", "spin"}
    /\ events \subseteq {"read", "write"} /\ read_cb \subseteq {"channel", "conn"}
    /\ caller \in {"channel", "store", "write", "rpc", "idle", "bytes", "count", "fields",
                  "entries", "send", "register"} \cup Methods
    /\ poll \in {"wait", "read", "ready", "spin", "found", "call"}

\* What the socket has taken and what write_buf_ still holds are together the
\* messages of the calls made, whole and in the order of their ids, over partial
\* writes, writes given up at EAGAIN and the way around the ring, as long as no
\* put met the end of the ring or a full one.
header(i) == IF made[i + 1] = "request_vote" THEN 1 ELSE 2
message_len(i) == IF made[i + 1] = "request_vote" THEN ArgLen ELSE ArgLen + EntryLen
StreamWhole ==
    LET stream == sent \o Content
        from[i \in 0 .. rpc_id] ==
            IF i = 0 THEN 0
            ELSE from[i - 1] + Len(encode_uint[i - 1]) + header(i - 1) + message_len(i - 1)
    IN (lapses \cap {"overrun", "filled"} = {} /\ caller \in {"idle", "send", "register"}) =>
         /\ Len(stream) = from[rpc_id]
         /\ \A i \in 0 .. rpc_id - 1 :
              LET m == SubSeq(stream, from[i] + 1, from[i + 1])
              IN decode_uvarint(m) = i /\ m[bytes(m) + 1] = Len(m) - bytes(m) - header(i)

\* The callback of a call runs at most once, and not at all once cancel() has
\* found the call, even if the dispatcher's thread looked the id up before
\* (find is outside the lock, rpc_conn.cc:20).
CallbackOnce ==
    /\ \A i, j \in 1 .. Len(called) : called[i] = called[j] => i = j
    /\ \A i \in 1 .. Len(called) : called[i] \notin cancelled

\* Every call that was registered has one fate: it waits in futures_, or the
\* dispatcher's thread has taken it out to run its callback, or has run it, or
\* cancel() has taken it out.  None is lost or taken by the answer to another
\* call, and none waits once its timer's task has run, not even if the reply
\* came before the call was registered (rpc_conn.cc:47) and was dropped, or was
\* being handled when the timer expired.
registered ==
    {i \in Ids : i < rpc_id /\ (i = rpc_id - 1 => caller = "idle")}
fates == <<futures, IF poll = "call" THEN {rpcid} ELSE {}, {called[k] : k \in DOMAIN called}, cancelled>>
OneFate ==
    alive => /\ \A i \in registered : Cardinality({f \in DOMAIN fates : i \in fates[f]}) = 1
             /\ expired \cap futures = {}
=============================================================================
