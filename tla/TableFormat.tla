------------------------------ MODULE TableFormat ------------------------------
(***************************************************************************)
(* The slotted page of a table (table_format), the byte form of a row      *)
(* (row) and the scan of a table (table_iterator).                         *)
(*                                                                         *)
(* The constructor of table_format sets base and end and leaves the        *)
(* header, offsets and cmptr as the memory happens to be.  The operators   *)
(* here take a page on which they have values: f.count, f.free_lower and   *)
(* f.free_upper are the header and f.offsets is the memory the slot array  *)
(* lies in, two bytes to a word, read by the code at indices below 0 too.  *)
(* offsets and base are taken to be the same address, as in the diagram of *)
(* table_format.h.  Positions of bytes are counted from base.              *)
(***************************************************************************)
EXTENDS Integers

\* sizeof(slot_ptr_t) and the values of such a word.
SlotSize == 2
Words == {w \in Nat : w < 65536}

INDEX_PAGE_SIZE == 4096 - 16 - 4

Pages == [count : Int, free_lower : Int, free_upper : Int, offsets : [Int -> Words]]

\* The length of tuple i.
length(f, i) ==
  IF i = 0 THEN INDEX_PAGE_SIZE - f.offsets[0] ELSE f.offsets[i - 1] - f.offsets[i]

\* The bytes get copies out; none when it returns false.
get(f, ptr) ==
  IF ptr >= f.count
    THEN {}
    ELSE f.offsets[ptr] .. f.offsets[ptr] + (length(f, ptr) % 65536) - 1

free_space(f) == f.free_upper - f.free_lower

\* The results find can have, where less[i] says whether compare finds the
\* tuple at i less than the new one.  The loop counts down from 0, so nothing
\* but a tuple found less ends it, and slots before the array are looked at;
\* with no such slot the search leaves the memory of the process.
find(f, less) ==
  IF f.count <= 0
    THEN {-1}
    ELSE {i \in Int : i <= 0 /\ less[i] /\ \A j \in i + 1 .. 0 : ~ less[j]}

\* The slot array after a tuple of the given size is put at the end: the new
\* offset is written as an int, over two slots.
appended(f, size) ==
  LET newoffset == f.offsets[f.count - 1] - size
  IN [f.offsets EXCEPT ![f.count] = newoffset % 65536,
                       ![f.count + 1] = (newoffset \div 65536) % 65536]

\* The slot array after slots i .. count - 1 have moved up by one.
inserted(f, size, i) ==
  [k \in Int |->
     CASE k = i -> (f.offsets[f.count - 1] - size) % 65536
       [] k \in i + 1 .. f.count -> f.offsets[k - 1]
       [] OTHER -> f.offsets[k]]

\* The page after put, i being what find returned.  The moves of the tuples' bytes
\* (table_format.cc:47-51) are left out: for i <= 0 their length depends on what
\* lies before the slot array, and a negative one is undefined.
put(f, size, i) ==
  IF SlotSize + size > free_space(f)
    THEN f
    ELSE [count |-> f.count + 1,
          free_lower |-> f.free_lower + SlotSize,
          free_upper |-> f.free_upper - size,
          offsets |-> IF i = f.count THEN appended(f, size) ELSE inserted(f, size, i)]

\* The bytes remove overwrites: tuple ptr is copied towards the end of the
\* page, and then bytes of the tuples below over its old place.
overwritten(f, ptr) ==
  IF ptr >= f.count - 1
    THEN {}
    ELSE LET move_end == IF ptr - 1 > 0 THEN f.offsets[ptr - 1] ELSE INDEX_PAGE_SIZE
             len == move_end - f.offsets[ptr]
         IN (move_end .. move_end + len - 1)
              \cup (f.offsets[ptr] .. f.offsets[ptr] + (f.count - ptr - 1) * SlotSize - 1)

\* The page after remove; on a page that is laid out both moves are of bytes
\* above the slot array.
remove(f, ptr) ==
  IF ptr >= f.count
    THEN f
    ELSE [f EXCEPT !.free_lower = @ - SlotSize,
                   !.free_upper = @ + f.offsets[ptr - 1] - f.offsets[ptr],
                   !.count = @ - 1]

-----------------------------------------------------------------------------
(* Rows *)

\* Bit k of x, and the bitwise or of two numbers below 8.
bit(x, k) == (x \div k) % 2
or3(x, y) ==
  LET one(k) == IF bit(x, k) = 1 \/ bit(y, k) = 1 THEN k ELSE 0
  IN one(1) + one(2) + one(4)

\* The bytes of a value of column type 1 .. 6, where text is strlen(data).
value_size(type, text) ==
  CASE type = 1 -> 4
    [] type = 2 -> 8
    [] type = 3 -> 4
    [] type = 4 -> 8
    [] type = 5 -> 1
    [] type = 6 -> 4 + text
    [] OTHER -> 0

\* The first byte of a column, the char id >> 3 | type, and the number of bytes
\* it takes.
encode_column(type, id, text) ==
  LET high == id \div 8
      or == (high - (high % 8)) + or3(high % 8, type)
  IN [tag |-> ((or + 128) % 256) - 128,
      len |-> 1 + value_size(type, text)]

\* What decode_column makes of a byte: the column and the type it takes it for,
\* b | 0x07.  A type not in 1 .. 6 leaves the function without a result.
decode_column(b) ==
  [column_id |-> b \div 8, type |-> (b - (b % 8)) + 7]

\* Whether decode returns for a row that begins with byte b: decode_column moves
\* its own copy of the pointer, so the loop sees the same byte again and again.
decode_returns(b) == b = 0

-----------------------------------------------------------------------------
(* table_iterator *)

\* Where the iterator is after the constructor, begin and reset.
iterator_start(first_page) == [page |-> first_page, slot |-> 0]
iterator_begin == [page |-> -1, slot |-> -1]

\* The answers fit can give for a tuple that begins with byte b: none when
\* decode does not return.  An empty row leaves the vector of values as reserve
\* made it, so a criterion is evaluated on memory nobody wrote.
fit(b, cs) ==
  IF ~ decode_returns(b) THEN {} ELSE IF cs = {} THEN {TRUE} ELSE BOOLEAN

\* Where now_ goes when the tuple does not fit.
step(now, cnt, next_free) ==
  IF now.slot < cnt - 1
    THEN [page |-> now.page, slot |-> now.slot + 1]
    ELSE [page |-> next_free, slot |-> 0]

\* The positions now_ goes through from now on; the header is the one read
\* before the loop, whatever page now_ is on.
Walks(now, cnt, next_free) ==
  {walk \in [Nat -> [page : Int, slot : Int]] :
     walk[0] = now /\ \A k \in Nat : walk[k + 1] = step(walk[k], cnt, next_free)}

\* The positions next can return on such a walk, where fits[k] is what fit
\* answers in round k; none if it never returns.
next(walk, fits) ==
  {walk[k] : k \in {n \in Nat : fits[n] /\ \A j \in 0 .. n - 1 : ~ fits[j]}}
=============================================================================
