----------------------------- MODULE RingBuffer -----------------------------
(***************************************************************************)
(* network/buffer.cc and network/coding.cc: the ring buffer's indices as a *)
(* record and one operator per member function, and variable-length        *)
(* numbers.  Indices are computed as in the code, the wrong cases          *)
(* included: put of several bytes and advance_get leave full_ alone, and   *)
(* unsigned differences wrap at Word before they are taken modulo MaxSize. *)
(* The constructor's memset(&buf_, ..) clears the object and not the       *)
(* bytes; the model starts from what the initialisers say.                 *)
(***************************************************************************)
EXTENDS Integers, Sequences

CONSTANTS
    MaxSize,    \* max_size_, 0xFFFF in the program
    Word,       \* size_t wraps here; 2^64 % 0xFFFF = 1, hence the assumption
    Low,        \* a byte of a varint carries a digit below Low (0x80)
    MaxNum      \* bound: largest number encoded

ASSUME RingAssumption ==
    /\ MaxSize \in Nat \ {0} /\ Word \in Nat /\ Word > 2 * MaxSize /\ Word % MaxSize = 1
    /\ Low \in Nat /\ Low > 1 /\ MaxNum \in Nat

Indices == 0 .. MaxSize - 1
Ring == [head : Indices, tail : Indices, full : BOOLEAN]
Empty == [head |-> 0, tail |-> 0, full |-> FALSE]

size(b) == IF b.full THEN MaxSize
           ELSE IF b.head >= b.tail THEN b.head - b.tail
           ELSE MaxSize - (b.tail - b.head)

wrap_not(i) == i % Word
wrap(i) == (i % Word) % MaxSize

advance_put(b, n) == [b EXCEPT !.head = wrap(@ + n)]
advance_get(b, n) == [b EXCEPT !.tail = wrap(@ + n)]

\* put(char) makes room by dropping the oldest byte.
put_char(b) ==
    LET h == wrap(b.head + 1)
        t == IF b.full THEN wrap(b.tail + 1) ELSE b.tail
    IN [head |-> h, tail |-> t, full |-> h = t]
put(b, n) == advance_put(b, n)

get(b, n) == IF size(b) < n THEN b ELSE [advance_get(b, n) EXCEPT !.full = FALSE]
unget(b, n) == IF b.full \/ size(b) < n THEN b ELSE advance_get(b, Word - n)

-----------------------------------------------------------------------------
(* Varints *)

\* encode_uint: digits from the lowest, Low added to all but the last.
encode_uint[n \in 0 .. MaxNum] ==
    IF n < Low THEN <<n>> ELSE <<(n % Low) + Low>> \o encode_uint[n \div Low]

\* The number of bytes decode_uvarint reads from s, and the number it returns.
bytes(s) == CHOOSE k \in 1 .. Len(s) : s[k] < Low /\ \A j \in 1 .. k - 1 : s[j] >= Low
decode_uvarint(s) ==
    LET val[k \in 0 .. bytes(s)] ==
          IF k = 0 THEN 0 ELSE val[k - 1] + (s[k] % Low) * Low ^ (k - 1)
    IN val[bytes(s)]

\* decode_varint: the number whose zigzag code is n.
decode_varint(n) == IF n % 2 = 1 THEN -(n \div 2) - 1 ELSE n \div 2
=============================================================================
