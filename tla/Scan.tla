---------------------------------- MODULE Scan ----------------------------------
(***************************************************************************)
(* Looking values up: comparator, criterion, the node of the B+ tree       *)
(* (index_format) and the scan of an index (index_iterator).               *)
(*                                                                         *)
(* A value is what the code may see of it: num, the number behind the      *)
(* pointer (nan when it is a NaN), text, the bytes behind it, and at, the  *)
(* pointer itself.  A result left undefined by the code, a function that   *)
(* ends without return, is a set of possible results.                      *)
(***************************************************************************)
EXTENDS Integers

Values == [num : Int, nan : BOOLEAN, text : [Nat -> Nat], at : Int]

data_types == {"INT", "LONG", "FLOAT", "DOUBLE", "CHAR", "VARCHAR"}
criterion_types ==
  {"NOT_EQUAL", "EQUAL", "LESS_THAN", "LESS_EQUAL", "GREATER_THAN", "GREATER_EQUAL"}

-----------------------------------------------------------------------------
(* comparator *)

\* strncmp(a, b, n) < 0: at the first difference within n bytes, and before the
\* end of the strings, a has the lesser byte.
strncmp_less(a, b, n) ==
  \E k \in 0 .. n - 1 : a[k] < b[k] /\ \A j \in 0 .. k - 1 : a[j] = b[j] /\ a[j] # 0

\* reinterpret_cast<char>(p): the low byte of the pointer, not what it points to.
low_byte(p) == ((p + 128) % 256) - 128

\* The operator < on two values of a type; false when one is not a number.
Less(type, a, b, n) ==
  CASE type \in {"INT", "LONG"} -> a.num < b.num
    [] type \in {"FLOAT", "DOUBLE"} -> ~ a.nan /\ ~ b.nan /\ a.num < b.num
    [] type = "CHAR" -> low_byte(a.at) < low_byte(b.at)
    [] type = "VARCHAR" -> strncmp_less(a.text, b.text, n)
    [] OTHER -> FALSE

\* The sign of the result; 0 for values that do not compare and for types that
\* are not known.
compare(type, a, b, n) ==
  IF Less(type, a, b, n) THEN -1 ELSE IF Less(type, b, a, n) THEN 1 ELSE 0

-----------------------------------------------------------------------------
(* criterion: the value a row has is compared with c.val *)

Equal(type, a, b, n) ==
  /\ type \in {"FLOAT", "DOUBLE"} => ~ a.nan /\ ~ b.nan
  /\ ~ Less(type, a, b, n) /\ ~ Less(type, b, a, n)

\* LESS_THAN, GREATER_THAN and EQUAL, on a known type.
basic_eval(c, critype, buf) ==
  CASE critype = "LESS_THAN" -> Less(c.type, buf, c.val, c.length)
    [] critype = "GREATER_THAN" -> Less(c.type, c.val, buf, c.length)
    [] critype = "EQUAL" -> Equal(c.type, buf, c.val, c.length)

\* The results internal_eval can have; any, when it reaches its end.
internal_eval(c, critype, buf) ==
  CASE critype = "NOT_EQUAL" \/ c.type \notin data_types -> BOOLEAN
    [] critype = "GREATER_EQUAL" ->
         {basic_eval(c, "GREATER_THAN", buf) \/ basic_eval(c, "EQUAL", buf)}
    [] critype = "LESS_EQUAL" ->
         {basic_eval(c, "LESS_THAN", buf) \/ basic_eval(c, "EQUAL", buf)}
    [] OTHER -> {basic_eval(c, critype, buf)}

eval(c, buf) == internal_eval(c, c.critype, buf)

-----------------------------------------------------------------------------
(* index_format: count, the rids and the keys of a node *)

\* The slot and the rid search finds: the first key that is the same pointer.
search(f, key) ==
  {<<i, f.rids[i]>> : i \in {k \in 0 .. f.count - 1 :
     f.keys[k].at = key.at /\ \A j \in 0 .. k - 1 : f.keys[j].at # key.at}}

\* The slots the loop of find_in_internal stops at: the pointers are compared,
\* and the second test is of the address of the array.
stops_at(f, key) ==
  {i \in 0 .. f.count - 2 : key.at <= f.keys[i].at /\ f.keys_at <= f.keys[i].at}

\* The child of a node with at least one; with none, count - 1 wraps and the
\* loop leaves the array.
find_in_internal(f, key) ==
  IF stops_at(f, key) = {}
    THEN f.count - 1
    ELSE LET ret == CHOOSE i \in stops_at(f, key) : \A j \in stops_at(f, key) : i <= j
         IN IF key.at = f.keys[ret].at THEN ret + 1 ELSE ret

\* sizeof(rid) + DEFAULT_KEY_SIZE
EntrySize == 8 + 4

\* insert when find_in_leaf has returned i.  Only i = -1 gets past the test, so
\* the rids move up by one from the place before the first on, and id is written
\* before them.
insert(f, id, i) ==
  IF i # -1
    THEN f
    ELSE [f EXCEPT !.rids = [k \in DOMAIN @ |-> CASE k = -1 -> id
                                                  [] k \in 0 .. f.count -> @[k - 1]
                                                  [] OTHER -> @[k]],
                   !.count = @ + 1,
                   !.free_start = @ + EntrySize,
                   !.free_space = @ - EntrySize]

\* What remove leaves at slot i and after it: bytes of keys, since the second
\* memmove copies from remove_key_begin.
KeyBytes == "bytes of keys"

\* remove(index), and remove(key, id) with the slot find_in_leaf has returned.
remove_slot(f, i) ==
  [f EXCEPT !.rids = [k \in DOMAIN @ |-> IF k \in i .. f.count - 2 THEN KeyBytes ELSE @[k]],
            !.count = @ - 1,
            !.free_start = @ - EntrySize,
            !.free_space = @ + EntrySize]

remove_index(f, index) == IF index >= f.count THEN f ELSE remove_slot(f, index)

remove_key(f, i) == IF i = -1 THEN f ELSE remove_slot(f, i)

-----------------------------------------------------------------------------
(* index_iterator, over leaves numbered from 1 to n, those the searches for the
   smallest and the largest leaf give; at is what find_leaf_node gives for the value
   of the criterion.  Nothing says that these are the right ones: see TreeDescent. *)

\* The leaves the constructor may begin at; any, when it does not set start_.
start(c, desc, at, n) ==
  CASE c.critype \in {"GREATER_EQUAL", "GREATER_THAN"} -> IF desc THEN {n} ELSE {at}
    [] c.critype \in {"LESS_EQUAL", "LESS_THAN"} -> {1}
    [] OTHER -> 1 .. n

\* The leaf it ends at; 0 is a null pointer.
end(c, desc, at, n) ==
  CASE c.critype \in {"GREATER_EQUAL", "GREATER_THAN"} -> IF desc THEN {at} ELSE {n}
    [] c.critype \in {"LESS_EQUAL", "LESS_THAN"} -> {at}
    [] c.critype = "EQUAL" -> {0}
    [] OTHER -> 0 .. n

\* The iterator the constructor makes, size being the size of the leaf it
\* begins at.
iterator(leaf, last, desc, size) ==
  [start |-> leaf, end |-> last, descending |-> desc,
   slot |-> IF desc THEN size - 2 ELSE 0,
   found_one |-> FALSE, next_is_null |-> TRUE]

\* The tests of can_stop_now.
past(c, desc, now) ==
  LET cmp == compare(c.type, now, c.val, c.length)
  IN \/ c.critype = "EQUAL" /\ cmp # 0
     \/ c.critype = "GREATER_EQUAL" /\ cmp < 0 /\ desc
     \/ c.critype = "GREATER_THAN" /\ cmp <= 0 /\ desc
     \/ c.critype = "LESS_EQUAL" /\ cmp > 0 /\ ~ desc
     \/ c.critype = "LESS_THAN" /\ cmp >= 0 /\ ~ desc

\* Nothing is returned when none of the tests holds.
can_stop_now(c, desc, now) ==
  CASE c.critype = "NOT_EQUAL" -> {FALSE}
    [] c.critype # "NOT_EQUAL" /\ past(c, desc, now) -> {TRUE}
    [] OTHER -> BOOLEAN

\* Whether next may go on from key k to the following one.
passes(c, it, k) ==
  FALSE \in eval(c, k) /\ (it.found_one => FALSE \in can_stop_now(c, it.descending, k))

\* The ways a pass over one leaf can end: at a key that fits, at one that ends
\* the scan, or at the leaf's last rid, which leads to the next leaf.
visit(c, it, keys, size) ==
  LET slots == it.slot .. size - 2
      reached == {j \in slots \cup {size - 1} : \A k \in it.slot .. j - 1 : passes(c, it, keys[k])}
  IN {<<"found", j>> : j \in {j \in reached \cap slots : TRUE \in eval(c, keys[j])}}
       \cup {<<"stop", j>> : j \in {j \in reached \cap slots :
                /\ FALSE \in eval(c, keys[j])
                /\ it.found_one /\ TRUE \in can_stop_now(c, it.descending, keys[j])}}
       \cup {<<"leaf", j>> : j \in reached \ slots}

\* One turn of the loop of next at a leaf: the rid it returns, if any, the
\* iterator, and the rid it goes on with.  Every call begins at start_ again,
\* with the slot of the call before.
turn(c, it, leaf, keys, size, link) ==
  LET it1 == [it EXCEPT !.next_is_null = @ \/ leaf = it.end]
      ends(v) ==
        CASE v[1] = "found" ->
               [ret |-> <<leaf, v[2]>>, it |-> [it1 EXCEPT !.slot = v[2], !.found_one = TRUE]]
          [] v[1] = "stop" -> [ret |-> <<-2, -2>>, it |-> [it1 EXCEPT !.slot = v[2]]]
          [] v[1] = "leaf" -> [ret |-> <<>>, it |-> [it1 EXCEPT !.slot = link.slot]]
  IN {ends(v) : v \in visit(c, it, keys, size)}

\* next ends at once when next_is_null_ is set, which it is from the start.
next_rid(c, it, leaf, keys, size, link) ==
  IF it.next_is_null
    THEN {[ret |-> <<-1, -1>>, it |-> it]}
    ELSE turn(c, it, leaf, keys, size, link)
=============================================================================
