---------------------------- MODULE TableIndexProofs ----------------------------
(***************************************************************************)
(* What is proved of the pages of a table and of its index: the slotted    *)
(* page of TableFormat, the order and the scans of Scan, the binary search *)
(* of LeafSearch and the descents of TreeDescent.                          *)
(***************************************************************************)
EXTENDS LeafSearch, TableFormat, WellFoundedInduction, TLAPS

(***************************************************************************)
(* The order compare defines, and the scans that rely on it.               *)
(***************************************************************************)

\* The types whose values compare by what the pointers point to.
Ordered == {"INT", "LONG", "FLOAT", "DOUBLE", "VARCHAR"}

\* The values that compare: those that are numbers.
Numbers == {v \in Values : ~ v.nan}

\* A set of numbers has a least one.
LEMMA Smallest ==
  ASSUME NEW S, S \subseteq Nat, S # {}
  PROVE  \E m \in S : \A j \in S : m <= j
<1>1. PICK m \in S : \A j \in S : ~ (<<j, m>> \in OpToRel(<, Nat))
  BY WFMin, NatLessThanWellFounded, Zenon
<1>2. \A j \in S : ~ (j < m)
  BY <1>1, Zenon DEF OpToRel
<1> QED BY <1>2

\* strncmp never finds two strings each less than the other.
LEMMA StrAsymmetric ==
  ASSUME NEW a \in [Nat -> Nat], NEW b \in [Nat -> Nat], NEW n \in Nat,
         strncmp_less(a, b, n), strncmp_less(b, a, n)
  PROVE  FALSE
<1>1. PICK k \in 0 .. n - 1 : a[k] < b[k] /\ \A j \in 0 .. k - 1 : a[j] = b[j] /\ a[j] # 0
  BY DEF strncmp_less
<1>2. PICK m \in 0 .. n - 1 : b[m] < a[m] /\ \A j \in 0 .. m - 1 : b[j] = a[j] /\ b[j] # 0
  BY DEF strncmp_less
<1>3. a[k] \in Nat /\ b[k] \in Nat /\ a[m] \in Nat /\ b[m] \in Nat
  OBVIOUS
<1>4. CASE k < m
  BY <1>1, <1>2, <1>3, <1>4
<1>5. CASE m < k
  BY <1>1, <1>2, <1>3, <1>5
<1>6. CASE k = m
  BY <1>1, <1>2, <1>3, <1>6
<1> QED BY <1>4, <1>5, <1>6

\* What is less than b is less than everything that is not: strncmp orders the
\* strings by their first n bytes.
LEMMA StrWeakOrder ==
  ASSUME NEW a \in [Nat -> Nat], NEW b \in [Nat -> Nat], NEW c \in [Nat -> Nat],
         NEW n \in Nat, strncmp_less(a, b, n), ~ strncmp_less(c, b, n)
  PROVE  strncmp_less(a, c, n)
<1>1. PICK k \in 0 .. n - 1 : a[k] < b[k] /\ \A j \in 0 .. k - 1 : a[j] = b[j] /\ a[j] # 0
  BY DEF strncmp_less
<1> DEFINE D == {m \in 0 .. k : c[m] # b[m]}
<1>2. CASE D = {}
  <2>1. \A m \in 0 .. k : c[m] = b[m]
    BY <1>2
  <2>2. a[k] < c[k] /\ \A j \in 0 .. k - 1 : a[j] = c[j] /\ a[j] # 0
    BY <1>1, <2>1
  <2> QED BY <1>1, <2>2 DEF strncmp_less
<1>3. CASE D # {}
  <2>1. PICK m \in D : \A j \in D : m <= j
    <3>1. D \subseteq Nat
      OBVIOUS
    <3> HIDE DEF D
    <3> QED BY <1>3, <3>1, Smallest, Zenon
  <2>2. m \in 0 .. k /\ c[m] # b[m] /\ \A j \in 0 .. m - 1 : c[j] = b[j]
    BY <2>1
  <2>3. \A j \in 0 .. m - 1 : a[j] = b[j] /\ a[j] # 0
    BY <1>1, <2>2
  <2>4. \A j \in 0 .. m - 1 : c[j] = b[j] /\ c[j] # 0 /\ a[j] = c[j]
    BY <2>2, <2>3
  <2>5. m \in 0 .. n - 1 /\ c[m] \in Nat /\ b[m] \in Nat /\ a[m] \in Nat
    BY <2>2
  <2>6. ~ (c[m] < b[m])
    BY <2>4, <2>5 DEF strncmp_less
  <2>7. a[m] <= b[m]
    BY <1>1, <2>2, <2>5
  <2>8. a[m] < c[m]
    <3>1. ASSUME NEW x \in Nat, NEW y \in Nat, NEW z \in Nat, z # y, ~ (z < y), x <= y
          PROVE  x < z
      BY <3>1
    <3> QED BY <2>2, <2>5, <2>6, <2>7, <3>1, Zenon
  <2> QED BY <2>3, <2>4, <2>5, <2>8 DEF strncmp_less
<1> QED BY <1>2, <1>3

\* On numbers the order compare reads is asymmetric, and what is less than b is
\* less than everything that is not.
LEMMA WeakOrder ==
  ASSUME NEW type \in Ordered, NEW n \in Nat,
         NEW a \in Numbers, NEW b \in Numbers, NEW c \in Numbers
  PROVE  /\ ~ (Less(type, a, b, n) /\ Less(type, b, a, n))
         /\ Less(type, a, b, n) /\ ~ Less(type, c, b, n) => Less(type, a, c, n)
<1>1. a.num \in Int /\ b.num \in Int /\ c.num \in Int
      /\ a.text \in [Nat -> Nat] /\ b.text \in [Nat -> Nat] /\ c.text \in [Nat -> Nat]
      /\ ~ a.nan /\ ~ b.nan /\ ~ c.nan
  BY DEF Numbers, Values
<1>2. CASE type \in {"INT", "LONG"}
  <2>1. \A x, y : Less(type, x, y, n) <=> x.num < y.num
    BY <1>2 DEF Less
  <2> QED BY <1>1, <2>1
<1>3. CASE type \in {"FLOAT", "DOUBLE"}
  <2>1. \A x, y : Less(type, x, y, n) <=> ~ x.nan /\ ~ y.nan /\ x.num < y.num
    BY <1>3 DEF Less
  <2> QED BY <1>1, <2>1
<1>4. CASE type = "VARCHAR"
  <2>1. \A x, y : Less(type, x, y, n) <=> strncmp_less(x.text, y.text, n)
    BY <1>4 DEF Less
  <2> QED BY <1>1, <2>1, StrAsymmetric, StrWeakOrder, Zenon
<1> QED BY <1>2, <1>3, <1>4 DEF Ordered

\* Two values compare or they do not.
LEMMA LessBoolean ==
  ASSUME NEW type \in Ordered, NEW n, NEW a, NEW b
  PROVE  Less(type, a, b, n) \in BOOLEAN
<1>1. CASE type \in {"INT", "LONG"}
  <2>1. Less(type, a, b, n) = (a.num < b.num)
    BY <1>1, Zenon DEF Less
  <2> QED BY <2>1
<1>2. CASE type \in {"FLOAT", "DOUBLE"}
  <2>1. Less(type, a, b, n) = (~ a.nan /\ ~ b.nan /\ a.num < b.num)
    BY <1>2, Zenon DEF Less
  <2> QED BY <2>1
<1>3. CASE type = "VARCHAR"
  <2>1. Less(type, a, b, n) = strncmp_less(a.text, b.text, n)
    BY <1>3 DEF Less
  <2> QED BY <2>1 DEF strncmp_less
<1> QED BY <1>1, <1>2, <1>3 DEF Ordered

\* A criterion of a scan.
Criteria ==
  [type : Ordered, critype : criterion_types \ {"NOT_EQUAL"}, val : Numbers, length : Nat]

\* What eval answers, in terms of the order.
LEMMA EvalMeans ==
  ASSUME NEW c \in Criteria, NEW v \in Numbers
  PROVE  LET lt == Less(c.type, v, c.val, c.length)
             gt == Less(c.type, c.val, v, c.length)
         IN eval(c, v) = {CASE c.critype = "EQUAL" -> ~ lt /\ ~ gt
                            [] c.critype = "LESS_THAN" -> lt
                            [] c.critype = "LESS_EQUAL" -> lt \/ (~ lt /\ ~ gt)
                            [] c.critype = "GREATER_THAN" -> gt
                            [] c.critype = "GREATER_EQUAL" -> gt \/ (~ lt /\ ~ gt)}
<1> DEFINE lt == Less(c.type, v, c.val, c.length)
           gt == Less(c.type, c.val, v, c.length)
<1>1. c.type \in Ordered /\ c.critype \in criterion_types \ {"NOT_EQUAL"}
      /\ ~ v.nan /\ ~ c.val.nan
  BY DEF Criteria, Numbers
<1>2. c.type \in data_types
  BY <1>1 DEF Ordered, data_types
<1>3. /\ basic_eval(c, "LESS_THAN", v) = lt
      /\ basic_eval(c, "GREATER_THAN", v) = gt
      /\ basic_eval(c, "EQUAL", v) = (~ lt /\ ~ gt)
  BY <1>1, Zenon DEF basic_eval, Equal
<1> HIDE DEF lt, gt
<1>4. CASE c.critype = "EQUAL"
  BY <1>2, <1>3, <1>4 DEF eval, internal_eval, lt, gt
<1>5. CASE c.critype = "LESS_THAN"
  BY <1>2, <1>3, <1>5 DEF eval, internal_eval, lt, gt
<1>6. CASE c.critype = "LESS_EQUAL"
  BY <1>2, <1>3, <1>6, Zenon DEF eval, internal_eval, lt, gt
<1>7. CASE c.critype = "GREATER_THAN"
  BY <1>2, <1>3, <1>7 DEF eval, internal_eval, lt, gt
<1>8. CASE c.critype = "GREATER_EQUAL"
  BY <1>2, <1>3, <1>8, Zenon DEF eval, internal_eval, lt, gt
<1> QED BY <1>1, <1>4, <1>5, <1>6, <1>7, <1>8 DEF criterion_types

\* y does not come before x in the order of the scan.
NotBefore(c, desc, x, y) ==
  IF desc THEN ~ Less(c.type, x, y, c.length) ELSE ~ Less(c.type, y, x, c.length)

\* A scan that stops because one of the tests of can_stop_now holds has missed
\* nothing: after a key f that fits and a later key p that is past the range, no
\* key q still to come fits.
THEOREM StopMissesNothing ==
  ASSUME NEW c \in Criteria, NEW desc \in BOOLEAN,
         NEW f \in Numbers, NEW p \in Numbers, NEW q \in Numbers,
         NotBefore(c, desc, f, p), NotBefore(c, desc, p, q),
         TRUE \in eval(c, f), past(c, desc, p)
  PROVE  eval(c, q) = {FALSE}
<1> DEFINE lt(v) == Less(c.type, v, c.val, c.length)
           gt(v) == Less(c.type, c.val, v, c.length)
<1>1. /\ c.type \in Ordered /\ c.length \in Nat /\ c.val \in Numbers
      /\ c.critype \in criterion_types \ {"NOT_EQUAL"}
  BY DEF Criteria
<1>2. \A v \in Numbers : ~ (lt(v) /\ gt(v)) /\ lt(v) \in BOOLEAN /\ gt(v) \in BOOLEAN
  <2>1. \A x, y : Less(c.type, x, y, c.length) \in BOOLEAN
    BY <1>1, LessBoolean
  <2> QED BY <1>1, <2>1, WeakOrder
<1>3. /\ compare(c.type, p, c.val, c.length) = IF lt(p) THEN -1 ELSE IF gt(p) THEN 1 ELSE 0
  BY DEF compare
<1>4. CASE ~ desc
  <2>1. ~ Less(c.type, q, p, c.length) /\ ~ Less(c.type, p, f, c.length)
    BY <1>4 DEF NotBefore
  <2>2. gt(p) => gt(q)
    BY <1>1, <2>1, WeakOrder
  <2>3. lt(q) => lt(p)
    <3>1. Less(c.type, q, c.val, c.length) /\ ~ Less(c.type, p, c.val, c.length)
            => Less(c.type, q, p, c.length)
      BY <1>1, WeakOrder
    <3> QED BY <2>1, <3>1
  <2>4. lt(p) => lt(f)
    <3>1. Less(c.type, p, c.val, c.length) /\ ~ Less(c.type, f, c.val, c.length)
            => Less(c.type, p, f, c.length)
      BY <1>1, WeakOrder
    <3> QED BY <2>1, <3>1
  <2> HIDE DEF lt, gt
  <2>5. /\ c.critype = "EQUAL" => (lt(p) \/ gt(p))
        /\ c.critype = "LESS_EQUAL" => gt(p)
        /\ c.critype = "LESS_THAN" => ~ lt(p)
        /\ c.critype # "GREATER_EQUAL" /\ c.critype # "GREATER_THAN"
    BY <1>2, <1>3, <1>4 DEF past
  <2>6. CASE c.critype = "EQUAL"
    <3>1. eval(c, f) = {~ lt(f) /\ ~ gt(f)} /\ eval(c, q) = {~ lt(q) /\ ~ gt(q)}
      BY <2>6, EvalMeans DEF lt, gt
    <3> QED BY <1>2, <2>2, <2>4, <2>5, <2>6, <3>1, Zenon
  <2>7. CASE c.critype = "LESS_EQUAL"
    <3>1. eval(c, q) = {lt(q) \/ (~ lt(q) /\ ~ gt(q))}
      BY <2>7, EvalMeans DEF lt, gt
    <3> QED BY <1>2, <2>2, <2>5, <2>7, <3>1, Zenon
  <2>8. CASE c.critype = "LESS_THAN"
    <3>1. eval(c, q) = {lt(q)}
      BY <2>8, EvalMeans DEF lt, gt
    <3> QED BY <1>2, <2>3, <2>5, <2>8, <3>1, Zenon
  <2> QED BY <1>1, <2>5, <2>6, <2>7, <2>8, Zenon DEF criterion_types
<1>5. CASE desc
  <2>1. ~ Less(c.type, p, q, c.length) /\ ~ Less(c.type, f, p, c.length)
    BY <1>5 DEF NotBefore
  <2>2. lt(p) => lt(q)
    <3>1. ~ lt(q) /\ lt(p) => Less(c.type, p, q, c.length)
      BY <1>1, WeakOrder
    <3> QED BY <2>1, <3>1
  <2>3. gt(q) => gt(p)
    <3>1. gt(q) /\ ~ Less(c.type, p, q, c.length) => gt(p)
      BY <1>1, WeakOrder
    <3> QED BY <2>1, <3>1
  <2>4. gt(p) => gt(f)
    <3>1. gt(p) /\ ~ Less(c.type, f, p, c.length) => gt(f)
      BY <1>1, WeakOrder
    <3> QED BY <2>1, <3>1
  <2> HIDE DEF lt, gt
  <2>5. /\ c.critype = "EQUAL" => (lt(p) \/ gt(p))
        /\ c.critype = "GREATER_EQUAL" => lt(p)
        /\ c.critype = "GREATER_THAN" => ~ gt(p)
        /\ c.critype # "LESS_EQUAL" /\ c.critype # "LESS_THAN"
    BY <1>2, <1>3, <1>5 DEF past
  <2>6. CASE c.critype = "EQUAL"
    <3>1. eval(c, f) = {~ lt(f) /\ ~ gt(f)} /\ eval(c, q) = {~ lt(q) /\ ~ gt(q)}
      BY <2>6, EvalMeans DEF lt, gt
    <3> QED BY <1>2, <2>2, <2>4, <2>5, <2>6, <3>1, Zenon
  <2>7. CASE c.critype = "GREATER_EQUAL"
    <3>1. eval(c, q) = {gt(q) \/ (~ lt(q) /\ ~ gt(q))}
      BY <2>7, EvalMeans DEF lt, gt
    <3> QED BY <1>2, <2>2, <2>5, <2>7, <3>1, Zenon
  <2>8. CASE c.critype = "GREATER_THAN"
    <3>1. eval(c, q) = {gt(q)}
      BY <2>8, EvalMeans DEF lt, gt
    <3> QED BY <1>2, <2>3, <2>5, <2>8, <3>1, Zenon
  <2> QED BY <1>1, <2>5, <2>6, <2>7, <2>8, Zenon DEF criterion_types
<1> QED BY <1>4, <1>5, Zenon

\* A scan of the index is empty, for every criterion and direction and whatever
\* leaf find_leaf_node gave the constructor: next_is_null_ is set from the start,
\* so that each call of next returns the null rid and leaves the iterator as it is.
THEOREM ScanIsEmpty ==
  ASSUME NEW c, NEW desc \in BOOLEAN, NEW at, NEW n,
         NEW first \in start(c, desc, at, n), NEW last \in end(c, desc, at, n),
         NEW size, NEW leaf, NEW keys, NEW link
  PROVE  LET it == iterator(first, last, desc, size)
         IN  next_rid(c, it, leaf, keys, size, link) = {[ret |-> <<-1, -1>>, it |-> it]}
BY DEF iterator, next_rid

-----------------------------------------------------------------------------
(* find_in_internal *)

\* The node of the B+ tree: pointers to the keys, and the address of the array
\* of those pointers.
Node(f) == f.count \in Nat \ {0} /\ f.keys_at \in Int /\ \A i \in Int : f.keys[i].at \in Int

\* A node with children leads to one of them.
THEOREM ChildInRange ==
  ASSUME NEW f, Node(f), NEW key, key.at \in Int
  PROVE  find_in_internal(f, key) \in 0 .. f.count - 1
<1> DEFINE S == stops_at(f, key)
<1>1. f.count \in Nat \ {0}
  BY DEF Node
<1>2. S \subseteq 0 .. f.count - 2
  BY DEF stops_at
<1> HIDE DEF S
<1>3. CASE S = {}
  BY <1>1, <1>3 DEF find_in_internal, S
<1>4. CASE S # {}
  <2>1. S \subseteq Nat
    BY <1>1, <1>2
  <2>2. \E i \in S : \A j \in S : i <= j
    BY <1>4, <2>1, Smallest, Zenon
  <2> DEFINE ret == CHOOSE i \in S : \A j \in S : i <= j
  <2>3. ret \in S
    BY <2>2
  <2> HIDE DEF ret
  <2>4. find_in_internal(f, key) = ret \/ find_in_internal(f, key) = ret + 1
    BY <1>4, Zenon DEF find_in_internal, S, ret
  <2> QED BY <1>1, <1>2, <2>3, <2>4
<1> QED BY <1>3, <1>4

\* What the child is, in the order of the key pointers and without any order of
\* the keys: a key to its left is not greater than the one looked for, or lies
\* below the array, which the second test of the loop passes over
\* (index_format.cc:119); and a child before the last is that of the first key
\* that is greater and not below the array, or comes behind the same pointer.
THEOREM ChildByPointer ==
  ASSUME NEW f, Node(f), NEW key, key.at \in Int
  PROVE  LET child == find_in_internal(f, key) IN
         /\ \A i \in 0 .. child - 1 : f.keys[i].at <= key.at \/ f.keys[i].at < f.keys_at
         /\ child < f.count - 1 =>
              \/ key.at < f.keys[child].at /\ f.keys_at <= f.keys[child].at
              \/ child > 0 /\ key.at = f.keys[child - 1].at
<1> DEFINE S == stops_at(f, key)
           at(i) == f.keys[i].at
           child == find_in_internal(f, key)
<1>1. f.count \in Nat \ {0} /\ f.keys_at \in Int /\ key.at \in Int /\ \A i \in Int : at(i) \in Int
  BY DEF Node
<1>2. S = {i \in 0 .. f.count - 2 : key.at <= at(i) /\ f.keys_at <= at(i)}
  BY DEF stops_at
<1> HIDE DEF S
<1>3. CASE S = {}
  <2>1. child = f.count - 1
    BY <1>3 DEF find_in_internal, S
  <2> HIDE DEF at, child
  <2>2. \A i \in 0 .. f.count - 2 : at(i) < key.at \/ at(i) < f.keys_at
    BY <1>1, <1>2, <1>3
  <2>3. \A i \in 0 .. child - 1 : at(i) <= key.at \/ at(i) < f.keys_at
    BY <1>1, <2>1, <2>2
  <2>4. ~ (child < f.count - 1)
    BY <1>1, <2>1
  <2> QED BY <2>3, <2>4 DEF at, child
<1>4. CASE S # {}
  <2>1. S \subseteq Nat
    BY <1>1, <1>2
  <2>2. \E i \in S : \A j \in S : i <= j
    BY <1>4, <2>1, Smallest, Zenon
  <2> DEFINE ret == CHOOSE i \in S : \A j \in S : i <= j
  <2>3. ret \in S /\ \A j \in S : ret <= j
    BY <2>2
  <2> HIDE DEF ret
  <2>4. child = IF key.at = at(ret) THEN ret + 1 ELSE ret
    BY <1>4 DEF find_in_internal, S, ret
  <2> HIDE DEF at, child
  <2>5. ret \in 0 .. f.count - 2 /\ key.at <= at(ret) /\ f.keys_at <= at(ret)
    BY <1>2, <2>3
  <2>6. \A i \in 0 .. ret - 1 : at(i) < key.at \/ at(i) < f.keys_at
    BY <1>1, <1>2, <2>3, <2>5
  <2>7. /\ \A i \in 0 .. child - 1 : at(i) <= key.at \/ at(i) < f.keys_at
        /\ \/ key.at < at(child) /\ f.keys_at <= at(child)
           \/ child > 0 /\ key.at = at(child - 1)
    <3>1. CASE key.at = at(ret)
      BY <1>1, <2>4, <2>5, <2>6, <3>1
    <3>2. CASE key.at # at(ret)
      <4>1. child = ret /\ at(ret) \in Int
        BY <1>1, <2>4, <2>5, <3>2
      <4>2. key.at < at(child) /\ f.keys_at <= at(child)
        BY <1>1, <2>5, <3>2, <4>1
      <4>3. \A i \in 0 .. ret - 1 : at(i) <= key.at \/ at(i) < f.keys_at
        BY <1>1, <2>5, <2>6
      <4>4. \A i \in 0 .. child - 1 : at(i) <= key.at \/ at(i) < f.keys_at
        BY <4>1, <4>3, Zenon
      <4> QED BY <4>2, <4>4, Zenon
    <3> QED BY <3>1, <3>2
  <2> QED BY <2>7 DEF at, child
<1> QED BY <1>3, <1>4

-----------------------------------------------------------------------------

(*****************************************************************************)
(* The binary search of find_in_leaf is right, for nodes of any size.        *)
(*****************************************************************************)

\* What the search knows: the key is not before left and not after right.
Inv ==
  /\ call \in Calls
  /\ left \in Nat /\ right \in Int /\ right <= call.count - 2
  /\ pc \in {"loop", "done"} /\ result \in Int
  /\ result # -1 => result \in 0 .. call.count - 2 /\ matches(result)
  /\ pc = "done" /\ result = -1 => left > right
  /\ Sorted =>
       /\ \A i \in 0 .. call.count - 2 : i < left => Less(call.type, call.keys[i], call.key, call.length)
       /\ \A i \in 0 .. call.count - 2 : i > right => Less(call.type, call.key, call.keys[i], call.length)

\* mid lies between left and right.
LEMMA MidBetween ==
  ASSUME Inv, left <= right
  PROVE  mid \in 0 .. call.count - 2 /\ left <= mid /\ mid <= right
<1>1. left \in Nat /\ right \in Int /\ right <= call.count - 2 /\ call.count \in Int
  BY DEF Inv, Calls
<1>2. ASSUME NEW x \in Nat, NEW y \in Int, x <= y
      PROVE  (x + y) \div 2 \in Int /\ x <= (x + y) \div 2 /\ (x + y) \div 2 <= y
  BY <1>2
<1>3. mid \in Int /\ left <= mid /\ mid <= right
  BY <1>1, <1>2 DEF mid
<1> QED BY <1>1, <1>3

\* In a sorted node all keys before a lesser one are less than the key looked
\* for, and all keys after a greater one are greater.
LEMMA SortedSides ==
  ASSUME call \in Calls, Sorted,
         NEW m \in 0 .. call.count - 2, NEW i \in 0 .. call.count - 2
  PROVE  /\ Less(call.type, call.keys[m], call.key, call.length) /\ i <= m
              => Less(call.type, call.keys[i], call.key, call.length)
         /\ Less(call.type, call.key, call.keys[m], call.length) /\ m <= i
              => Less(call.type, call.key, call.keys[i], call.length)
<1>1. call.type \in Ordered /\ call.length \in Nat /\ call.count \in Int
  BY DEF Sorted, Ordered, Calls
<1>2. call.key \in Numbers /\ call.keys[m] \in Numbers /\ call.keys[i] \in Numbers
  BY DEF Calls, Sorted, Numbers
<1>3. i < m => ~ Less(call.type, call.keys[m], call.keys[i], call.length)
  BY DEF Sorted
<1>4. m < i => ~ Less(call.type, call.keys[i], call.keys[m], call.length)
  BY DEF Sorted
<1>5. Less(call.type, call.keys[m], call.key, call.length)
        /\ ~ Less(call.type, call.keys[i], call.key, call.length)
        => Less(call.type, call.keys[m], call.keys[i], call.length)
  BY <1>1, <1>2, WeakOrder
<1>6. Less(call.type, call.key, call.keys[m], call.length)
        /\ ~ Less(call.type, call.keys[i], call.keys[m], call.length)
        => Less(call.type, call.key, call.keys[i], call.length)
  BY <1>1, <1>2, WeakOrder
<1>7. i = m \/ i < m \/ m < i
  BY <1>1
<1>8. ~ (i < m /\ m <= i) /\ ~ (m < i /\ i <= m)
  BY <1>1
<1> QED BY <1>3, <1>4, <1>5, <1>6, <1>7, <1>8

\* The sign compare returns says which side is less.
LEMMA CompareSign ==
  ASSUME NEW type, NEW a, NEW b, NEW n
  PROVE  /\ compare(type, a, b, n) < 0 => Less(type, a, b, n)
         /\ compare(type, a, b, n) > 0 => Less(type, b, a, n)
         /\ Less(type, a, b, n) => compare(type, a, b, n) # 0
         /\ Less(type, b, a, n) => compare(type, a, b, n) # 0
         /\ compare(type, a, b, n) \in {-1, 0, 1}
BY DEF compare

\* The search knows this before its first turn, when nothing is excluded.
LEMMA InvInit == Init => Inv
<1> SUFFICES ASSUME Init PROVE Inv
  OBVIOUS
<1>1. call \in Calls /\ left = 0 /\ right = call.count - 2 /\ result = -1
      /\ pc = IF left > right THEN "done" ELSE "loop"
  BY DEF Init
<1>2. call.count \in Int
  BY <1>1 DEF Calls
<1>3. \A i \in 0 .. call.count - 2 : ~ (i < left) /\ ~ (i > right)
  BY <1>1, <1>2
<1>4. pc = "done" => left > right
  BY <1>1
<1> QED BY <1>1, <1>2, <1>3, <1>4 DEF Inv

\* Every turn of the loop of find_in_leaf keeps it: what a comparison excludes
\* lies on the side of mid that is given up.
LEMMA InvNext == Inv /\ [Next]_vars => Inv'
<1> SUFFICES ASSUME Inv, [Next]_vars PROVE Inv'
  OBVIOUS
<1>1. /\ call \in Calls /\ left \in Nat /\ right \in Int /\ call.count \in Int
      /\ right <= call.count - 2 /\ result \in Int /\ pc \in {"loop", "done"}
  BY DEF Inv, Calls
<1>2. CASE Loop
  <2>1. pc = "loop" /\ left <= right /\ call' = call
    BY <1>2 DEF Loop
  <2>2. mid \in 0 .. call.count - 2 /\ left <= mid /\ mid <= right
    BY <2>1, MidBetween
  <2>3. CASE order < 0 /\ left' = mid + 1 /\ UNCHANGED <<right, pc, result>>
    <3>1. Less(call.type, call.keys[mid], call.key, call.length)
      BY <2>3, CompareSign DEF order
    <3>2. Sorted => \A i \in 0 .. call.count - 2 :
                      i < mid + 1 => Less(call.type, call.keys[i], call.key, call.length)
      BY <1>1, <2>2, <3>1, SortedSides
    <3>3. mid + 1 \in Nat
      BY <1>1, <2>2
    <3> QED BY <1>1, <2>1, <2>3, <3>2, <3>3 DEF Inv, Sorted, matches
  <2>4. CASE order > 0 /\ right' = mid - 1 /\ UNCHANGED <<left, pc, result>>
    <3>1. Less(call.type, call.key, call.keys[mid], call.length)
      BY <2>4, CompareSign DEF order
    <3>2. Sorted => \A i \in 0 .. call.count - 2 :
                      i > mid - 1 => Less(call.type, call.key, call.keys[i], call.length)
      BY <1>1, <2>2, <3>1, SortedSides
    <3>3. mid - 1 \in Int /\ mid - 1 <= call.count - 2
      BY <1>1, <2>2
    <3> QED BY <1>1, <2>1, <2>4, <3>2, <3>3 DEF Inv, Sorted, matches
  <2>5. CASE order = 0 /\ result' = mid /\ pc' = "done" /\ UNCHANGED <<left, right>>
    <3>1. matches(mid) /\ mid \in Int /\ mid # -1
      BY <1>1, <2>2, <2>5 DEF matches, order
    <3> QED BY <1>1, <2>1, <2>2, <2>5, <3>1 DEF Inv, Sorted, matches
  <2> QED BY <1>2, <2>3, <2>4, <2>5 DEF Loop
<1>3. CASE Exhausted
  BY <1>1, <1>3 DEF Exhausted, Inv, Sorted, matches
<1>4. CASE UNCHANGED vars
  BY <1>1, <1>4 DEF vars, Inv, Sorted, matches
<1> QED BY <1>2, <1>3, <1>4 DEF Next

\* find_in_leaf finds a key that is there, and nothing else.
THEOREM SearchCorrect == Spec => []Finds
<1>1. Inv => Finds
  <2> SUFFICES ASSUME Inv, pc = "done", result = -1, Sorted,
                      NEW i \in 0 .. call.count - 2
               PROVE  ~ matches(i)
    BY DEF Inv, Finds
  <2>1. left > right /\ call.count \in Int /\ left \in Nat /\ right \in Int
    BY DEF Inv, Calls
  <2>2. i < left \/ i > right
    BY <2>1
  <2>3. Less(call.type, call.keys[i], call.key, call.length)
          \/ Less(call.type, call.key, call.keys[i], call.length)
    BY <2>2 DEF Inv
  <2> QED BY <2>3, CompareSign DEF matches
<1> QED BY <1>1, InvInit, InvNext, PTL DEF Spec

\* The loop of find_in_leaf comes to an end and stays inside the node.
THEOREM SearchEnds == Spec => [][Narrows]_vars
<1>1. Inv /\ [Next]_vars => [Narrows]_vars
  <2> SUFFICES ASSUME Inv, Next, pc = "loop", pc' = "loop"
               PROVE  /\ right' - left' < right - left
                      /\ 0 <= left' /\ right' <= call.count - 2
    BY DEF Narrows
  <2>1. Loop /\ left <= right
    BY DEF Next, Exhausted, Loop
  <2>2. left \in Nat /\ right \in Int /\ right <= call.count - 2 /\ call.count \in Int
    BY DEF Inv, Calls
  <2>3. mid \in 0 .. call.count - 2 /\ left <= mid /\ mid <= right
    BY <2>1, MidBetween
  <2>4. (left' = mid + 1 /\ right' = right) \/ (right' = mid - 1 /\ left' = left)
    BY <2>1 DEF Loop
  <2> QED BY <2>2, <2>3, <2>4
<1> QED BY <1>1, InvInit, InvNext, PTL DEF Spec

-----------------------------------------------------------------------------

(*****************************************************************************)
(* What the operations of TableFormat do to a page that is laid out as the   *)
(* diagram of table_format.h shows, and what is lost between encode_column   *)
(* and decode_column.                                                        *)
(*****************************************************************************)

\* A page is shorter than a uint16_t can count.
LEMMA PageSize == INDEX_PAGE_SIZE \in Nat /\ INDEX_PAGE_SIZE < 65536
BY DEF INDEX_PAGE_SIZE

\* Slots from the left, tuples from the right, each tuple ending where the one
\* of the slot before begins, and the header describing the gap.
LaidOut(f) ==
  /\ f \in Pages
  /\ f.count >= 0
  /\ f.free_lower = SlotSize * f.count
  /\ f.free_lower <= f.free_upper
  /\ \A i \in 0 .. f.count - 1 : f.offsets[i] <= INDEX_PAGE_SIZE
  /\ \A i, j \in 0 .. f.count - 1 : i < j => f.offsets[j] <= f.offsets[i]
  /\ f.free_upper = IF f.count = 0 THEN INDEX_PAGE_SIZE ELSE f.offsets[f.count - 1]

\* Where tuple i ends.
Top(f, i) == IF i = 0 THEN INDEX_PAGE_SIZE ELSE f.offsets[i - 1]

\* The types of a laid-out page.
LEMMA LaidOutTypes ==
  ASSUME NEW f, LaidOut(f)
  PROVE  /\ f.count \in Nat /\ f.free_lower \in Int /\ f.free_upper \in Nat
         /\ f.offsets \in [Int -> Words]
         /\ \A i \in Int : f.offsets[i] \in Nat
<1>1. /\ f.count \in Nat /\ f.free_lower \in Int
      /\ f.offsets \in [Int -> Words] /\ f.free_upper \in Int
  BY DEF LaidOut, Pages
<1>2. \A i \in Int : f.offsets[i] \in Nat
  BY <1>1 DEF Words
<1>3. f.free_lower >= 0 /\ f.free_lower <= f.free_upper
  BY <1>1 DEF LaidOut, SlotSize
<1> QED BY <1>1, <1>2, <1>3

\* Along a laid-out page the offsets fall.
LEMMA OffsetsFall ==
  ASSUME NEW f, LaidOut(f), NEW i \in 0 .. f.count - 1
  PROVE  /\ f.offsets[i] <= Top(f, i)
         /\ Top(f, i) \in Nat
         /\ Top(f, i) <= INDEX_PAGE_SIZE
         /\ \A j \in 0 .. f.count - 1 : i <= j => f.offsets[j] <= f.offsets[i]
         /\ f.free_upper <= f.offsets[i]
<1>1. f.count \in Nat /\ \A k \in Int : f.offsets[k] \in Nat
  BY LaidOutTypes
<1>2. /\ \A k \in 0 .. f.count - 1 : f.offsets[k] <= INDEX_PAGE_SIZE
      /\ \A k, j \in 0 .. f.count - 1 : k < j => f.offsets[j] <= f.offsets[k]
      /\ f.free_upper = f.offsets[f.count - 1]
  BY <1>1 DEF LaidOut
<1>3. \A j \in 0 .. f.count - 1 : i <= j => f.offsets[j] <= f.offsets[i]
  BY <1>1, <1>2
<1>4. f.free_upper <= f.offsets[i]
  BY <1>1, <1>2, <1>3
<1>5. CASE i = 0
  BY <1>1, <1>2, <1>3, <1>4, <1>5, PageSize DEF Top
<1>6. CASE i # 0
  <2>1. i - 1 \in 0 .. f.count - 1 /\ i - 1 < i
    BY <1>1, <1>6
  <2> QED BY <1>1, <1>2, <1>3, <1>4, <1>6, <2>1 DEF Top
<1> QED BY <1>5, <1>6

\* On a laid-out page get copies just the bytes from a tuple's offset to its
\* top: uint16_t len does not wrap.
LEMMA GetBytes ==
  ASSUME NEW f, LaidOut(f), NEW i \in 0 .. f.count - 1
  PROVE  /\ get(f, i) = f.offsets[i] .. Top(f, i) - 1
         /\ length(f, i) = Top(f, i) - f.offsets[i]
<1>1. f.count \in Nat /\ f.offsets[i] \in Nat
  BY LaidOutTypes
<1>2. f.offsets[i] <= Top(f, i) /\ Top(f, i) \in Nat /\ Top(f, i) <= INDEX_PAGE_SIZE
  BY OffsetsFall
<1>3. length(f, i) = Top(f, i) - f.offsets[i]
  BY DEF length, Top
<1>4. length(f, i) % 65536 = length(f, i)
  <2>1. length(f, i) \in Nat /\ length(f, i) < 65536
    BY <1>1, <1>2, <1>3, PageSize
  <2> QED BY <2>1
<1>5. ~ (i >= f.count)
  BY <1>1
<1>6. get(f, i) = f.offsets[i] .. f.offsets[i] + length(f, i) - 1
  BY <1>4, <1>5 DEF get
<1> QED BY <1>1, <1>2, <1>3, <1>6

\* On a laid-out page get never reads a byte of another tuple, of the slot
\* array or past the page.
THEOREM TuplesApart ==
  ASSUME NEW f, LaidOut(f), NEW i \in 0 .. f.count - 1
  PROVE  /\ get(f, i) \subseteq f.free_upper .. INDEX_PAGE_SIZE - 1
         /\ \A j \in 0 .. f.count - 1 : j # i => get(f, i) \cap get(f, j) = {}
<1>1. f.count \in Nat /\ f.free_upper \in Nat /\ \A k \in Int : f.offsets[k] \in Nat
  BY LaidOutTypes
<1>2. get(f, i) \subseteq f.free_upper .. INDEX_PAGE_SIZE - 1
  <2>1. /\ f.free_upper <= f.offsets[i] /\ f.offsets[i] \in Nat
        /\ Top(f, i) \in Nat /\ Top(f, i) <= INDEX_PAGE_SIZE
    BY <1>1, OffsetsFall
  <2>2. get(f, i) = f.offsets[i] .. Top(f, i) - 1
    BY GetBytes
  <2> QED BY <1>1, <2>1, <2>2, PageSize
<1>3. ASSUME NEW j \in 0 .. f.count - 1, NEW k \in 0 .. f.count - 1, j < k
      PROVE  get(f, j) \cap get(f, k) = {}
  <2>1. k - 1 \in 0 .. f.count - 1 /\ j <= k - 1 /\ k # 0
    BY <1>1, <1>3
  <2>2. f.offsets[k - 1] <= f.offsets[j]
    BY <2>1, OffsetsFall
  <2>3. Top(f, k) = f.offsets[k - 1]
    BY <2>1 DEF Top
  <2>4. get(f, j) = f.offsets[j] .. Top(f, j) - 1 /\ get(f, k) = f.offsets[k] .. f.offsets[k - 1] - 1
    BY <2>3, GetBytes
  <2>5. f.offsets[j] \in Nat /\ f.offsets[k] \in Nat /\ f.offsets[k - 1] \in Nat
        /\ Top(f, j) \in Nat
    BY <1>1, <2>1, OffsetsFall
  <2>6. ASSUME NEW x \in get(f, j), x \in get(f, k) PROVE FALSE
    <3>1. x \in Int /\ f.offsets[j] <= x /\ x <= f.offsets[k - 1] - 1
      BY <2>4, <2>5, <2>6
    <3> QED BY <2>2, <2>5, <3>1
  <2> QED BY <2>6
<1>4. ASSUME NEW j \in 0 .. f.count - 1, j # i
      PROVE  get(f, i) \cap get(f, j) = {}
  BY <1>1, <1>3, <1>4
<1> QED BY <1>2, <1>4

\* Removing the last of several tuples gives its bytes and its slot back to the
\* free space, moves nothing and leaves every other tuple where it was.
THEOREM RemoveLast ==
  ASSUME NEW f, LaidOut(f), f.count >= 2
  PROVE  LET g == remove(f, f.count - 1)
         IN /\ LaidOut(g)
            /\ overwritten(f, f.count - 1) = {}
            /\ free_space(g) = free_space(f) + length(f, f.count - 1) + SlotSize
            /\ \A i \in 0 .. f.count - 2 : get(g, i) = get(f, i)
<1> DEFINE g == remove(f, f.count - 1)
<1>1. /\ f.count \in Nat /\ f.free_lower \in Int /\ f.free_upper \in Nat
      /\ f.offsets \in [Int -> Words] /\ \A k \in Int : f.offsets[k] \in Nat
  BY LaidOutTypes
<1>2. f = [count |-> f.count, free_lower |-> f.free_lower,
           free_upper |-> f.free_upper, offsets |-> f.offsets]
  BY DEF LaidOut, Pages
<1>3. /\ \A k \in 0 .. f.count - 1 : f.offsets[k] <= INDEX_PAGE_SIZE
      /\ \A k, j \in 0 .. f.count - 1 : k < j => f.offsets[j] <= f.offsets[k]
      /\ f.free_upper = f.offsets[f.count - 1]
      /\ f.free_lower = SlotSize * f.count /\ f.free_lower <= f.free_upper
  BY <1>1 DEF LaidOut
<1>4. f.count - 1 \in 0 .. f.count - 1 /\ f.count - 2 \in 0 .. f.count - 1
      /\ ~ (f.count - 1 >= f.count)
  BY <1>1
<1>5. g = [count |-> f.count - 1, free_lower |-> f.free_lower - SlotSize,
           free_upper |-> f.free_upper + f.offsets[(f.count - 1) - 1] - f.offsets[f.count - 1],
           offsets |-> f.offsets]
  BY <1>2, <1>4, Zenon DEF remove
<1>6. (f.count - 1) - 1 = f.count - 2
  BY <1>1
<1>7. /\ g.count = f.count - 1 /\ g.free_lower = f.free_lower - SlotSize
      /\ g.free_upper = f.offsets[f.count - 2] /\ g.offsets = f.offsets
      /\ g \in Pages
  <2>1. f.free_upper + f.offsets[f.count - 2] - f.offsets[f.count - 1] = f.offsets[f.count - 2]
    BY <1>1, <1>3
  <2> QED BY <1>1, <1>5, <1>6, <2>1 DEF Pages, SlotSize
<1> HIDE DEF g
<1>8. LaidOut(g)
  <2>1. g.free_lower = SlotSize * g.count /\ g.count >= 0 /\ g.count # 0
        /\ g.count - 1 = f.count - 2
    BY <1>1, <1>3, <1>7 DEF SlotSize
  <2>2. g.free_lower <= g.free_upper
    BY <1>1, <1>3, <1>4, <1>7 DEF SlotSize
  <2>3. g.free_upper = g.offsets[g.count - 1]
    BY <1>7, <2>1
  <2>4. 0 .. g.count - 1 \subseteq 0 .. f.count - 1
    BY <1>1, <1>7
  <2> QED BY <1>3, <1>7, <2>1, <2>2, <2>3, <2>4 DEF LaidOut
<1>9. overwritten(f, f.count - 1) = {}
  BY <1>1 DEF overwritten
<1>10. free_space(g) = free_space(f) + length(f, f.count - 1) + SlotSize
  <2>1. length(f, f.count - 1) = f.offsets[f.count - 2] - f.offsets[f.count - 1]
    BY <1>1, <1>6 DEF length
  <2> QED BY <1>1, <1>3, <1>7, <2>1 DEF free_space, SlotSize
<1>11. ASSUME NEW i \in 0 .. f.count - 2 PROVE get(g, i) = get(f, i)
  <2>1. ~ (i >= g.count) /\ ~ (i >= f.count)
    BY <1>1, <1>7
  <2>2. length(g, i) = length(f, i)
    BY <1>7 DEF length
  <2> QED BY <1>7, <2>1, <2>2 DEF get
<1> QED BY <1>8, <1>9, <1>10, <1>11 DEF g

\* Removing any other slot takes away the last slot instead: the slot that was
\* to go still answers get, with the same place on the page, and the last tuple
\* is out of reach.  (remove shifts bytes at the tuples' offsets and not the
\* slot array.)
THEOREM RemoveOther ==
  ASSUME NEW f, LaidOut(f), NEW ptr \in 0 .. f.count - 2
  PROVE  LET g == remove(f, ptr)
         IN /\ get(g, ptr) = get(f, ptr)
            /\ get(g, f.count - 1) = {}
<1> DEFINE g == remove(f, ptr)
<1>1. f.count \in Nat
  BY LaidOutTypes
<1>2. f = [count |-> f.count, free_lower |-> f.free_lower,
           free_upper |-> f.free_upper, offsets |-> f.offsets]
  BY DEF LaidOut, Pages
<1>3. ~ (ptr >= f.count)
  BY <1>1
<1>4. g.count = f.count - 1 /\ g.offsets = f.offsets
  BY <1>2, <1>3 DEF remove
<1> HIDE DEF g
<1>5. length(g, ptr) = length(f, ptr)
  BY <1>4 DEF length
<1>6. ~ (ptr >= g.count) /\ f.count - 1 >= g.count
  BY <1>1, <1>4
<1> QED BY <1>3, <1>4, <1>5, <1>6 DEF get, g

\* put never takes its branch for a new largest tuple: find counts down from
\* slot 0, so it cannot return count.
THEOREM PutNeverAppends ==
  ASSUME NEW f \in Pages, f.count >= 0, NEW less \in [Int -> BOOLEAN],
         NEW i \in find(f, less)
  PROVE  i # f.count
<1>1. f.count \in Int
  BY DEF Pages
<1>2. CASE f.count <= 0
  BY <1>1, <1>2 DEF find
<1>3. CASE ~ (f.count <= 0)
  <2>1. i \in Int /\ i <= 0
    BY <1>3 DEF find
  <2> QED BY <1>1, <1>3, <2>1
<1> QED BY <1>2, <1>3

-----------------------------------------------------------------------------
(* Rows and the scan of a table *)

\* Division by 8 rounds down.
LEMMA DivEight ==
  ASSUME NEW b \in Int
  PROVE  (b % 8) \in 0 .. 7 /\ \E q \in Int : b = 8 * q + (b % 8)
OBVIOUS

\* The type decode_column reads is none of those encode_column writes: b | 0x07
\* has its three low bits set, whatever the byte.
THEOREM NoTypeDecoded ==
  ASSUME NEW b \in Int
  PROVE  decode_column(b).type \notin 1 .. 6
<1>1. PICK q \in Int : b = 8 * q + (b % 8)
  BY DivEight
<1>2. (b % 8) \in 0 .. 7
  BY DivEight
<1>3. (b - (b % 8)) + 7 = 8 * q + 7
  BY <1>1, <1>2
<1>4. decode_column(b).type = (b - (b % 8)) + 7
  BY DEF decode_column
<1> QED BY <1>3, <1>4

\* The first eight columns of a type have one tag: id >> 3 is 0 for them, so the
\* byte does not say which column it is for.
THEOREM TagForgetsColumn ==
  ASSUME NEW id \in 0 .. 7, NEW type \in 1 .. 6, NEW text \in Nat
  PROVE  encode_column(type, id, text).tag = type
<1>1. id \div 8 = 0
  OBVIOUS
<1>2. or3(0, type) = type
  <2>1. type = 1 \/ type = 2 \/ type = 3 \/ type = 4 \/ type = 5 \/ type = 6
    OBVIOUS
  <2> QED BY <2>1 DEF or3, bit
<1>3. 0 % 8 = 0 /\ (0 - 0) + type = type /\ ((type + 128) % 256) - 128 = type
  OBVIOUS
<1> QED BY <1>1, <1>2, <1>3 DEF encode_column

\* next returns where it stands or not at all, if fit answers the same for the
\* same tuple: the tuple is read once, before the loop.
THEOREM NextStaysPut ==
  ASSUME NEW now, NEW cnt \in Int, NEW next_free \in Int,
         NEW walk \in Walks(now, cnt, next_free),
         NEW fits \in [Nat -> BOOLEAN], \A k \in Nat : fits[k] = fits[0]
  PROVE  next(walk, fits) \subseteq {now}
<1>1. walk[0] = now
  BY DEF Walks
<1>2. ASSUME NEW n \in Nat, fits[n], \A j \in 0 .. n - 1 : ~ fits[j]
      PROVE  n = 0
  <2>1. fits[0]
    BY <1>2
  <2> QED BY <1>2, <2>1
<1> QED BY <1>1, <1>2 DEF next

-----------------------------------------------------------------------------

(*****************************************************************************)
(* What a descent of the B+ tree holds and leaves pinned, for any height.    *)
(*****************************************************************************)
VARIABLES way, empty, height, passed, pins, zero, state, level

Tree == INSTANCE TreeDescent WITH i <- passed, pc <- state

\* passed says how far the descent is, and the pins follow from it.
PathInv ==
  /\ height \in Nat /\ passed \in Nat /\ zero \in Nat /\ pins \in [Nat -> Int]
  /\ state \in {"loop", "found", "null", "undefined", "thrown"}
  /\ state = "loop" => height > 1 /\ passed < height /\ Tree!HoldsPath
  /\ Tree!LeavesPathPinned
  /\ Tree!PassesLeaves

\* Before the first turn nothing is pinned.
LEMMA PathInit == Tree!Init => PathInv
<1> SUFFICES ASSUME Tree!Init PROVE PathInv
  OBVIOUS
<1>1. /\ height \in Nat /\ passed = 0 /\ pins = [l \in Nat |-> 0] /\ level = 0
      /\ empty \in BOOLEAN /\ zero \in Nat
  BY DEF Tree!Init
<1>2. /\ state \in {"loop", "found", "null", "undefined"}
      /\ state = "found" => height = 1
      /\ state = "loop" => height # 0 /\ height # 1
  BY DEF Tree!Init
<1>3. state = "loop" => height > 1 /\ passed < height
  BY <1>1, <1>2
<1>4. Tree!HoldsPath
  BY <1>1 DEF Tree!HoldsPath
<1>5. ~ (state = "found" /\ height > 1)
  BY <1>1, <1>2
<1> QED BY <1>1, <1>2, <1>3, <1>4, <1>5 DEF PathInv, Tree!LeavesPathPinned, Tree!PassesLeaves

\* Every turn keeps it: a turn pins the page of level passed and unpins none of the
\* path.
LEMMA PathNext == PathInv /\ [Tree!Next]_(Tree!vars) => PathInv'
<1> SUFFICES ASSUME PathInv, [Tree!Next]_(Tree!vars) PROVE PathInv'
  OBVIOUS
<1> USE DEF PathInv, Tree!HoldsPath, Tree!LeavesPathPinned, Tree!PassesLeaves
<1>1. /\ height \in Nat /\ passed \in Nat /\ zero \in Nat /\ pins \in [Nat -> Int]
      /\ state \in {"loop", "found", "null", "undefined", "thrown"}
  OBVIOUS
<1>2. CASE Tree!Turn
  <2>1. state = "loop" /\ passed < height /\ level' = passed + 1 /\ height' = height
        /\ pins' = [pins EXCEPT ![passed] = @ + 1]
    BY <1>2 DEF Tree!Turn
  <2>2. height > 1 /\ \A l \in Nat : pins[l] = IF l < passed THEN 1 ELSE 0
    BY <2>1
  <2>3. pins' \in [Nat -> Int] /\ \A l \in Nat : pins'[l] = IF l < passed + 1 THEN 1 ELSE 0
    BY <1>1, <2>1, <2>2
  <2>4. CASE passed = height - 1 /\ state' = "found" /\ UNCHANGED <<passed, zero>>
    <3>1. passed + 1 = height
      BY <1>1, <2>4
    <3> QED BY <1>1, <2>1, <2>3, <2>4, <3>1
  <2>5. CASE passed # height - 1 /\ passed' = passed + 1 /\ state' = state /\ zero' \in Nat
    <3>1. passed + 1 \in Nat /\ passed + 1 < height
      BY <1>1, <2>1, <2>5
    <3> QED BY <1>1, <2>1, <2>2, <2>3, <2>5, <3>1
  <2>6. CASE state' = "thrown" /\ UNCHANGED <<zero, passed>>
    BY <1>1, <2>1, <2>3, <2>6
  <2>7. \/ passed = height - 1 /\ state' = "found" /\ UNCHANGED <<passed, zero>>
        \/ passed # height - 1 /\ passed' = passed + 1 /\ state' = state /\ zero' \in Nat
        \/ state' = "thrown" /\ UNCHANGED <<zero, passed>>
    BY <1>1, <1>2 DEF Tree!Turn, Tree!unpin_page
  <2> QED BY <2>4, <2>5, <2>6, <2>7
<1>3. CASE Tree!Thrown
  BY <1>1, <1>3 DEF Tree!Thrown
<1>4. CASE UNCHANGED Tree!vars
  BY <1>1, <1>4 DEF Tree!vars
<1> QED BY <1>2, <1>3, <1>4, Zenon DEF Tree!Next, Tree!ByKey, Tree!ToSmallest, Tree!ToLargest

\* A descent keeps the page of every node it passes pinned (unpin_page of
\* index_handle never reaches one of them).
THEOREM DescentHolds == Tree!Spec => [](Tree!HoldsPath /\ Tree!LeavesPathPinned)
<1>1. PathInv => Tree!HoldsPath /\ Tree!LeavesPathPinned
  BY DEF PathInv, Tree!HoldsPath
<1> QED BY <1>1, PathInit, PathNext, PTL DEF Tree!Spec

\* Every completed descent of a tree of more than one level ends one level below
\* the leaves.
THEOREM DescentPassesLeaves == Tree!Spec => []Tree!PassesLeaves
<1>1. PathInv => Tree!PassesLeaves
  BY DEF PathInv
<1> QED BY <1>1, PathInit, PathNext, PTL DEF Tree!Spec
=============================================================================
