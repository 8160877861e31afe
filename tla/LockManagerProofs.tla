-------------------------- MODULE LockManagerProofs --------------------------
(***************************************************************************)
(* What the lock manager promises, for any number of transactions, items,  *)
(* buckets and entries and any content of uninitialised entries: its types *)
(* and the order of grants hold of every behaviour; no two transactions    *)
(* own conflicting locks and no wakeup is lost as long as none of the      *)
(* lapses but "nested" has occurred.                                       *)
(***************************************************************************)
EXTENDS LockManager, WellFoundedInduction, TLAPS

-----------------------------------------------------------------------------
(* Lists.                                                                   *)

\* A set of numbers has a least one.
LEMMA Smallest ==
  ASSUME NEW S, S \subseteq Nat, S # {}
  PROVE  \E m \in S : \A j \in S : m <= j
<1>1. PICK m \in S : \A j \in S : ~ (<<j, m>> \in OpToRel(<, Nat))
  BY WFMin, NatLessThanWellFounded, Zenon
<1>2. \A j \in S : ~ (j < m)
  BY <1>1, Zenon DEF OpToRel
<1> QED BY <1>2

\* f[k] is what the loop of without has kept after k of the first n turns.
Turns(s, x, n, f) ==
  f = [k \in 0 .. n |-> IF k = 0 THEN <<>> ELSE IF s[k] = x THEN f[k - 1] ELSE Append(f[k - 1], s[k])]

\* There are such values for any number of turns: no number is the least one
\* that has none.
LEMMA TurnsExist ==
  ASSUME NEW s, NEW x, NEW n \in Nat PROVE \E f : Turns(s, x, n, f)
<1> DEFINE S == {k \in Nat : ~ \E f : Turns(s, x, k, f)}
<1> SUFFICES ASSUME S # {} PROVE FALSE
  OBVIOUS
<1>1. PICK m \in S : \A j \in S : m <= j
  BY Smallest, Zenon
<1>2. m # 0
  <2>1. Turns(s, x, 0, [k \in 0 .. 0 |-> <<>>])
    BY DEF Turns
  <2> QED BY <2>1
<1>3. m - 1 \in Nat /\ m - 1 \notin S
  BY <1>1, <1>2
<1>4. PICK f : Turns(s, x, m - 1, f)
  BY <1>3
<1> DEFINE last == IF s[m] = x THEN f[m - 1] ELSE Append(f[m - 1], s[m])
           g == [k \in 0 .. m |-> IF k = m THEN last ELSE f[k]]
<1>5. Turns(s, x, m, g)
  <2> SUFFICES ASSUME NEW k \in 0 .. m
               PROVE  g[k] = IF k = 0 THEN <<>> ELSE IF s[k] = x THEN g[k - 1] ELSE Append(g[k - 1], s[k])
    BY Zenon DEF Turns
  <2>1. CASE k = 0
    BY <1>2, <1>4, <2>1 DEF Turns
  <2>2. CASE k # 0 /\ k # m
    <3>1. k \in 0 .. m - 1 /\ k - 1 \in 0 .. m - 1 /\ k - 1 # m
      BY <2>2
    <3>2. f[k] = IF s[k] = x THEN f[k - 1] ELSE Append(f[k - 1], s[k])
      BY <1>4, <2>2, <3>1, Zenon DEF Turns
    <3>3. g[k] = f[k] /\ g[k - 1] = f[k - 1]
      BY <2>2, <3>1
    <3> QED BY <2>2, <3>2, <3>3
  <2>3. CASE k = m
    <3>1. g[m] = last /\ g[m - 1] = f[m - 1]
      BY <1>3
    <3> QED BY <1>2, <2>3, <3>1
  <2> QED BY <2>1, <2>2, <2>3
<1> QED BY <1>5

\* without gives the last of them.
LEMMA WithoutTurns ==
  ASSUME NEW s, NEW x, Len(s) \in Nat PROVE \E f : Turns(s, x, Len(s), f) /\ without(s, x) = f[Len(s)]
<1> DEFINE g == CHOOSE f : Turns(s, x, Len(s), f)
<1>1. Turns(s, x, Len(s), g)
  BY TurnsExist
<1>2. without(s, x) = g[Len(s)]
  BY DEF without, Turns
<1> QED BY <1>1, <1>2, Zenon

\* Of the first i elements of s the list q holds those that are not x, in their
\* order: m says where each comes from.
Picks(s, x, i, q, m) ==
  /\ m \in [1 .. Len(q) -> 1 .. i]
  /\ \A k \in 1 .. Len(q) : q[k] = s[m[k]] /\ s[m[k]] # x
  /\ \A j, k \in 1 .. Len(q) : j < k => m[j] < m[k]
  /\ \A j \in 1 .. i : s[j] # x => \E k \in 1 .. Len(q) : m[k] = j
  /\ Len(q) <= i
  /\ Len(q) = i => \A k \in 1 .. i : m[k] = k
  /\ Len(q) # i => \E k \in 1 .. i : s[k] = x

\* One more turn.
LEMMA PicksNext ==
  ASSUME NEW S, NEW s \in Seq(S), NEW x, NEW i \in 1 .. Len(s), NEW q \in Seq(S),
         \E m : Picks(s, x, i - 1, q, m)
  PROVE  LET r == IF s[i] = x THEN q ELSE Append(q, s[i])
         IN r \in Seq(S) /\ \E m : Picks(s, x, i, r, m)
<1>0. PICK m : Picks(s, x, i - 1, q, m)
  OBVIOUS
<1>1. /\ m \in [1 .. Len(q) -> 1 .. i - 1]
      /\ \A k \in 1 .. Len(q) : q[k] = s[m[k]] /\ s[m[k]] # x
      /\ \A j, k \in 1 .. Len(q) : j < k => m[j] < m[k]
      /\ \A j \in 1 .. i - 1 : s[j] # x => \E k \in 1 .. Len(q) : m[k] = j
      /\ Len(q) <= i - 1
      /\ Len(q) = i - 1 => \A k \in 1 .. i - 1 : m[k] = k
      /\ Len(q) # i - 1 => \E k \in 1 .. i - 1 : s[k] = x
  BY <1>0 DEF Picks
<1>2. Len(q) \in Nat /\ i \in Nat /\ i >= 1 /\ 1 .. i - 1 \subseteq 1 .. i /\ s[i] \in S
  OBVIOUS
<1>3. CASE s[i] = x
  <2>1. m \in [1 .. Len(q) -> 1 .. i]
    BY <1>1, <1>2
  <2>2. Len(q) <= i /\ Len(q) # i
    BY <1>1, <1>2
  <2>3. (\A j \in 1 .. i : s[j] # x => j \in 1 .. i - 1) /\ \E k \in 1 .. i : s[k] = x
    BY <1>2, <1>3
  <2>4. Picks(s, x, i, q, m)
    BY <1>1, <2>1, <2>2, <2>3 DEF Picks
  <2> QED BY <1>3, <2>4
<1>4. CASE s[i] # x
  <2> DEFINE r == Append(q, s[i])
             n == [k \in 1 .. Len(r) |-> IF k = Len(r) THEN i ELSE m[k]]
  <2>1. /\ r \in Seq(S) /\ Len(r) = Len(q) + 1 /\ r[Len(r)] = s[i]
        /\ \A k \in 1 .. Len(q) : r[k] = q[k]
    BY <1>2
  <2> HIDE DEF r
  <2>2. \A k \in 1 .. Len(r) : k # Len(r) => k \in 1 .. Len(q)
    BY <1>2, <2>1
  <2>3. \A k \in 1 .. Len(q) : m[k] \in 1 .. i - 1 /\ m[k] \in 1 .. i /\ m[k] < i
    BY <1>1, <1>2
  <2>4. n \in [1 .. Len(r) -> 1 .. i]
    BY <1>2, <2>1, <2>2, <2>3
  <2>5. /\ n[Len(r)] = i /\ Len(r) \in 1 .. Len(r)
        /\ \A k \in 1 .. Len(q) : k \in 1 .. Len(r) /\ k # Len(r) /\ n[k] = m[k]
    BY <1>2, <2>1
  <2> HIDE DEF n
  <2>6. \A k \in 1 .. Len(r) : r[k] = s[n[k]] /\ s[n[k]] # x
    BY <1>1, <1>4, <2>1, <2>2, <2>5
  <2>7. ASSUME NEW j \in 1 .. Len(r), NEW k \in 1 .. Len(r), j < k PROVE n[j] < n[k]
    <3>1. j # Len(r)
      BY <1>2, <2>1, <2>7
    <3>2. CASE k = Len(r)
      BY <2>2, <2>3, <2>5, <3>1, <3>2
    <3>3. CASE k # Len(r)
      BY <1>1, <2>2, <2>5, <2>7, <3>1, <3>3
    <3> QED BY <3>2, <3>3
  <2>8. ASSUME NEW j \in 1 .. i, s[j] # x PROVE \E k \in 1 .. Len(r) : n[k] = j
    <3>1. CASE j = i
      BY <2>5, <3>1
    <3>2. CASE j # i
      <4>1. j \in 1 .. i - 1
        BY <1>2, <3>2
      <4> QED BY <1>1, <2>5, <2>8, <4>1
    <3> QED BY <3>1, <3>2
  <2>9. Len(r) <= i /\ (Len(r) = i => \A k \in 1 .. i : n[k] = k)
    <3>1. Len(r) <= i
      BY <1>1, <1>2, <2>1
    <3>2. ASSUME Len(r) = i, NEW k \in 1 .. i PROVE n[k] = k
      <4>1. Len(q) = i - 1
        BY <1>2, <2>1, <3>2
      <4>2. CASE k = i
        BY <2>5, <3>2, <4>2
      <4>3. CASE k # i
        <5>1. k \in 1 .. i - 1 /\ k \in 1 .. Len(q)
          BY <1>2, <4>1, <4>3
        <5> QED BY <1>1, <2>5, <4>1, <5>1
      <4> QED BY <4>2, <4>3
    <3> QED BY <3>1, <3>2
  <2>10. ASSUME Len(r) # i PROVE \E k \in 1 .. i : s[k] = x
    <3>1. Len(q) # i - 1
      BY <1>2, <2>1, <2>10
    <3> QED BY <1>1, <1>2, <3>1
  <2>11. Picks(s, x, i, r, n)
    BY <2>4, <2>6, <2>7, <2>8, <2>9, <2>10 DEF Picks
  <2> QED BY <1>4, <2>1, <2>11 DEF r
<1> QED BY <1>3, <1>4

\* without removes all elements equal to x, and nothing else, and keeps the order.
LEMMA Without ==
  ASSUME NEW S, NEW s \in Seq(S), NEW x
  PROVE  without(s, x) \in Seq(S) /\ \E m : Picks(s, x, Len(s), without(s, x), m)
<1>0. Len(s) \in Nat
  OBVIOUS
<1>1. PICK f : Turns(s, x, Len(s), f) /\ without(s, x) = f[Len(s)]
  BY <1>0, WithoutTurns
<1> DEFINE P(i) == f[i] \in Seq(S) /\ \E m : Picks(s, x, i, f[i], m)
           B == {i \in 0 .. Len(s) : ~ P(i)}
<1>2. f[0] = <<>>
  BY <1>0, <1>1 DEF Turns
<1>3. ASSUME NEW i \in 1 .. Len(s)
      PROVE  f[i] = IF s[i] = x THEN f[i - 1] ELSE Append(f[i - 1], s[i])
  <2>1. i \in 0 .. Len(s) /\ i # 0
    BY <1>0
  <2>2. f = [k \in 0 .. Len(s) |-> IF k = 0 THEN <<>> ELSE IF s[k] = x THEN f[k - 1]
                                    ELSE Append(f[k - 1], s[k])]
    BY <1>1, Zenon DEF Turns
  <2> QED BY <2>1, <2>2, Zenon
<1>4. P(0)
  <2>1. <<>> \in Seq(S) /\ Len(<<>>) = 0
    OBVIOUS
  <2>2. Picks(s, x, 0, <<>>, [k \in 1 .. 0 |-> 0])
    BY <2>1 DEF Picks
  <2> QED BY <1>2, <2>1, <2>2
<1>5. ASSUME NEW i \in 1 .. Len(s), P(i - 1) PROVE P(i)
  <2>1. f[i - 1] \in Seq(S) /\ \E m : Picks(s, x, i - 1, f[i - 1], m)
    BY <1>5
  <2>2. f[i] = IF s[i] = x THEN f[i - 1] ELSE Append(f[i - 1], s[i])
    BY <1>3
  <2> QED BY <2>1, <2>2, PicksNext
<1> HIDE DEF P
<1>6. B = {}
  <2> SUFFICES ASSUME B # {} PROVE FALSE
    OBVIOUS
  <2>1. B \subseteq Nat
    BY <1>0
  <2>2. PICK b \in B : \A j \in B : b <= j
    BY <2>1, Smallest, Zenon
  <2>3. b # 0 /\ b \in 1 .. Len(s)
    BY <1>0, <1>4
  <2>4. b - 1 \in 0 .. Len(s) /\ b - 1 \notin B
    BY <1>0, <2>2, <2>3
  <2> QED BY <1>5, <2>3, <2>4
<1>7. P(Len(s))
  BY <1>0, <1>6
<1> QED BY <1>1, <1>7 DEF P

\* The elements of a list.
Elems(s) == {s[k] : k \in DOMAIN s}


\* What is in a list that has lost x.
LEMMA ElemsWithout ==
  ASSUME NEW S, NEW s \in Seq(S), NEW x
  PROVE  Elems(without(s, x)) = Elems(s) \ {x}
<1>1. Elems(without(s, x)) = Elems(s) \ {x}
  <2> DEFINE n == without(s, x)
  <2>1. PICK m : n \in Seq(S) /\ Picks(s, x, Len(s), n, m)
    BY Without
  <2> HIDE DEF n
  <2>2. DOMAIN n = 1 .. Len(n) /\ DOMAIN s = 1 .. Len(s)
    BY <2>1
  <2>3. ASSUME NEW k \in DOMAIN n PROVE n[k] \in Elems(s) \ {x}
    <3>1. m[k] \in 1 .. Len(s) /\ n[k] = s[m[k]] /\ s[m[k]] # x
      BY <2>1, <2>2, Zenon DEF Picks
    <3> QED BY <2>2, <3>1 DEF Elems
  <2>4. ASSUME NEW j \in DOMAIN s, s[j] # x PROVE s[j] \in Elems(n)
    <3>1. PICK k \in 1 .. Len(n) : m[k] = j
      BY <2>1, <2>2, <2>4, Zenon DEF Picks
    <3>2. n[k] = s[j]
      BY <2>1, <3>1 DEF Picks
    <3> QED BY <2>2, <3>1, <3>2 DEF Elems
  <2>5. Elems(n) = Elems(s) \ {x}
    BY <2>3, <2>4 DEF Elems
  <2> QED BY <2>5 DEF n
<1> QED BY <1>1

\* What is in a list that has got x at its head.
LEMMA ElemsPrepend ==
  ASSUME NEW S, NEW s \in Seq(S), NEW x \in S PROVE Elems(<<x>> \o s) = Elems(s) \cup {x}
<1> DEFINE n == <<x>> \o s
<1>1. /\ DOMAIN n = 1 .. Len(s) + 1 /\ DOMAIN s = 1 .. Len(s) /\ Len(s) \in Nat
      /\ n[1] = x /\ \A k \in 1 .. Len(s) : n[k + 1] = s[k]
  OBVIOUS
<1> HIDE DEF n
<1>2. ASSUME NEW k \in DOMAIN n PROVE n[k] \in Elems(s) \cup {x}
  <2>1. CASE k = 1
    BY <1>1, <2>1
  <2>2. CASE k # 1
    <3>1. k - 1 \in 1 .. Len(s) /\ (k - 1) + 1 = k
      BY <1>1, <2>2
    <3> QED BY <1>1, <3>1 DEF Elems
  <2> QED BY <2>1, <2>2
<1>3. ASSUME NEW k \in DOMAIN s PROVE s[k] \in Elems(n)
  <2>1. k + 1 \in DOMAIN n
    BY <1>1
  <2> QED BY <1>1, <2>1 DEF Elems
<1>4. x \in Elems(n)
  BY <1>1 DEF Elems
<1>5. Elems(n) = Elems(s) \cup {x}
  BY <1>2, <1>3, <1>4 DEF Elems
<1> QED BY <1>5 DEF n

\* What is in a list that has got x at its end.
LEMMA ElemsAppend ==
  ASSUME NEW S, NEW s \in Seq(S), NEW x \in S PROVE Elems(Append(s, x)) = Elems(s) \cup {x}
<1> DEFINE n == Append(s, x)
<1>1. /\ DOMAIN n = 1 .. Len(s) + 1 /\ DOMAIN s = 1 .. Len(s) /\ Len(s) \in Nat
      /\ n[Len(s) + 1] = x /\ \A k \in 1 .. Len(s) : n[k] = s[k]
  OBVIOUS
<1> HIDE DEF n
<1>2. ASSUME NEW k \in DOMAIN n PROVE n[k] \in Elems(s) \cup {x}
  <2>1. k = Len(s) + 1 \/ k \in 1 .. Len(s)
    BY <1>1
  <2> QED BY <1>1, <2>1 DEF Elems
<1>3. ASSUME NEW k \in DOMAIN s PROVE s[k] \in Elems(n)
  <2>1. k \in DOMAIN n
    BY <1>1
  <2> QED BY <1>1, <2>1 DEF Elems
<1>4. x \in Elems(n)
  <2>1. Len(s) + 1 \in DOMAIN n
    BY <1>1
  <2> QED BY <1>1, <2>1 DEF Elems
<1>5. Elems(n) = Elems(s) \cup {x}
  BY <1>2, <1>3, <1>4 DEF Elems
<1> QED BY <1>5 DEF n

\* The empty list is the one with nothing in it.
LEMMA ElemsNone ==
  /\ Elems(<<>>) = {}
  /\ \A S : \A s \in Seq(S) : Elems(s) \subseteq S /\ (Elems(s) = {} => s = <<>>)
<1>1. Elems(<<>>) = {}
  <2>1. DOMAIN <<>> = {}
    OBVIOUS
  <2> QED BY <2>1 DEF Elems
<1>2. ASSUME NEW S, NEW s \in Seq(S) PROVE Elems(s) \subseteq S /\ (Elems(s) = {} => s = <<>>)
  <2>1. DOMAIN s = 1 .. Len(s) /\ Len(s) \in Nat /\ \A k \in DOMAIN s : s[k] \in S
    OBVIOUS
  <2>2. Elems(s) \subseteq S
    BY <2>1 DEF Elems
  <2>3. ASSUME Elems(s) = {} PROVE s = <<>>
    <3>1. DOMAIN s = {}
      BY <2>3, Zenon DEF Elems
    <3>2. Len(s) = 0
      BY <2>1, <3>1
    <3> QED BY <3>2
  <2> QED BY <2>2, <2>3
<1> QED BY <1>1, <1>2

-----------------------------------------------------------------------------
(* The lists of requests.                                                   *)

\* A list of requests has one of each transaction, and what is granted is an
\* exclusive one at its head or shared ones up to some place.
InOrder(s) ==
  /\ \A j, k \in DOMAIN s : s[j].txn = s[k].txn => j = k
  /\ \A k \in DOMAIN s : s[k].granted =>
       /\ s[k].mode = "exclusive" => k = 1
       /\ s[k].mode = "shared" => \A j \in 1 .. k - 1 : s[j].mode = "shared" /\ s[j].granted

Sharers(s) == {t \in Txns : [txn |-> t, mode |-> "shared", granted |-> TRUE] \in Elems(s)}


\* place finds the first record of a transaction.
LEMMA PlaceFirst ==
  ASSUME NEW s \in Seq(Request), NEW t
  PROVE  /\ place(s, t) \in Nat
         /\ place(s, t) # 0 => place(s, t) \in DOMAIN s /\ s[place(s, t)].txn = t
         /\ \A k \in DOMAIN s : s[k].txn = t => place(s, t) # 0 /\ place(s, t) <= k
<1> DEFINE ks == {k \in DOMAIN s : s[k].txn = t}
<1>1. place(s, t) = IF ks = {} THEN 0 ELSE CHOOSE k \in ks : \A j \in ks : k <= j
  BY DEF place
<1>2. DOMAIN s = 1 .. Len(s) /\ Len(s) \in Nat
  OBVIOUS
<1>3. ks \subseteq Nat /\ \A k \in ks : k # 0
  BY <1>2
<1>4. ks # {} => place(s, t) \in ks /\ \A j \in ks : place(s, t) <= j
  <2> SUFFICES ASSUME ks # {} PROVE place(s, t) \in ks /\ \A j \in ks : place(s, t) <= j
    OBVIOUS
  <2> HIDE DEF ks
  <2>1. \E k \in ks : \A j \in ks : k <= j
    BY <1>3, Smallest, Zenon
  <2> QED BY <1>1, <2>1
<1>5. place(s, t) \in Nat
  BY <1>1, <1>3, <1>4
<1>6. place(s, t) # 0 => ks # {}
  BY <1>1
<1> QED BY <1>3, <1>4, <1>5, <1>6

\* In a list with one record of each transaction it is the only one.
LEMMA PlaceOnly ==
  ASSUME NEW s \in Seq(Request), InOrder(s), NEW k \in DOMAIN s
  PROVE  place(s, s[k].txn) = k
<1> DEFINE t == s[k].txn
<1>1. place(s, t) \in DOMAIN s /\ s[place(s, t)].txn = t
  BY PlaceFirst
<1> QED BY <1>1 DEF InOrder

\* A request at the end changes nothing for the others.
LEMMA AppendOrder ==
  ASSUME NEW s \in Seq(Request), InOrder(s), NEW t \in Txns, NEW m \in Modes \ {"none"},
         \A r \in Elems(s) : r.txn # t,
         NEW n, n = Append(s, [txn |-> t, mode |-> m, granted |-> FALSE])
  PROVE  /\ n \in Seq(Request) /\ InOrder(n) /\ Sharers(n) = Sharers(s)
         /\ \A u, w : u # t /\ grantable(n, u, w) => grantable(s, u, w)
<1> DEFINE x == [txn |-> t, mode |-> m, granted |-> FALSE]
<1>1. x \in Request /\ x.txn = t /\ x.granted = FALSE
  BY DEF Request
<1> HIDE DEF x
<1>2. /\ n \in Seq(Request) /\ DOMAIN n = 1 .. Len(s) + 1 /\ DOMAIN s = 1 .. Len(s)
      /\ Len(s) \in Nat /\ n[Len(s) + 1] = x /\ \A k \in 1 .. Len(s) : n[k] = s[k]
  BY <1>1 DEF x
<1>3. \A k \in DOMAIN n : k = Len(s) + 1 \/ k \in DOMAIN s
  BY <1>2
<1>4. \A k \in DOMAIN s : s[k].txn # t /\ k # Len(s) + 1 /\ k \in DOMAIN n
  BY <1>2 DEF Elems
<1>5. ASSUME NEW j \in DOMAIN n, NEW k \in DOMAIN n, n[j].txn = n[k].txn PROVE j = k
  BY <1>1, <1>2, <1>3, <1>4, <1>5 DEF InOrder
<1>6. ASSUME NEW k \in DOMAIN n, n[k].granted
      PROVE  /\ n[k].mode = "exclusive" => k = 1
             /\ n[k].mode = "shared" => \A j \in 1 .. k - 1 : n[j].mode = "shared" /\ n[j].granted
  <2>1. k \in DOMAIN s
    BY <1>1, <1>2, <1>3, <1>6
  <2>2. \A j \in 1 .. k - 1 : j \in 1 .. Len(s) /\ n[j] = s[j]
    BY <1>2, <2>1
  <2>3. n[k] = s[k]
    BY <1>2, <2>1
  <2> QED BY <1>6, <2>1, <2>2, <2>3 DEF InOrder
<1>7. InOrder(n)
  BY <1>5, <1>6 DEF InOrder
<1>8. Sharers(n) = Sharers(s)
  <2>1. Elems(n) = Elems(s) \cup {x}
    <3>1. n = Append(s, x)
      BY DEF x
    <3>2. Elems(Append(s, x)) = Elems(s) \cup {x}
      BY <1>1, ElemsAppend
    <3> QED BY <3>1, <3>2
  <2>2. ASSUME NEW u PROVE [txn |-> u, mode |-> "shared", granted |-> TRUE] # x
    BY <1>1
  <2> QED BY <2>1, <2>2, Zenon DEF Sharers
<1>9. ASSUME NEW u, NEW w, u # t, grantable(n, u, w) PROVE grantable(s, u, w)
  <2>1. place(n, u) \in DOMAIN n /\ n[place(n, u)].txn = u /\ place(n, u) # 0
    <3>1. place(n, u) > 0
      BY <1>9 DEF grantable
    <3>2. place(n, u) \in Nat
      BY <1>2, PlaceFirst, Zenon
    <3>3. place(n, u) # 0
      BY <3>1, <3>2
    <3> QED BY <1>2, <3>3, PlaceFirst, Zenon
  <2>2. place(n, u) \in DOMAIN s /\ s[place(n, u)].txn = u
    BY <1>1, <1>2, <1>3, <1>9, <2>1
  <2>3. place(s, u) = place(n, u)
    BY <2>2, PlaceOnly
  <2>4. \A j \in 1 .. place(s, u) - 1 : j \in 1 .. Len(s) /\ n[j] = s[j]
    BY <1>2, <2>2, <2>3
  <2> QED BY <1>9, <2>3, <2>4, Zenon DEF grantable
<1> QED BY <1>2, <1>7, <1>8, <1>9, Zenon

\* s has become n by the grant of t's request of mode m: its record is behind
\* granted shared ones or at the head, and behind an exclusive one nobody can go on.
Grants(s, n, t, m) ==
  /\ n \in Seq(Request) /\ InOrder(n)
  /\ Elems(n) = (Elems(s) \ {[txn |-> t, mode |-> m, granted |-> FALSE]})
                  \cup {[txn |-> t, mode |-> m, granted |-> TRUE]}
  /\ t \notin Sharers(s)
  /\ m = "shared" => Sharers(n) = Sharers(s) \cup {t}
  /\ m = "exclusive" => /\ Sharers(n) = Sharers(s)
                       /\ \A u, w : u # t /\ w \in Modes \ {"none"} => ~ grantable(n, u, w)

\* Setting granted in the record of a request that can go on is such a step.
LEMMA GrantOrder ==
  ASSUME NEW s \in Seq(Request), InOrder(s), NEW t \in Txns, NEW m \in Modes \ {"none"},
         grantable(s, t, m), s[place(s, t)] = [txn |-> t, mode |-> m, granted |-> FALSE],
         NEW n, n = [s EXCEPT ![place(s, t)] = [txn |-> t, mode |-> m, granted |-> TRUE]]
  PROVE  Grants(s, n, t, m)
<1> DEFINE x == [txn |-> t, mode |-> m, granted |-> FALSE]
           y == [txn |-> t, mode |-> m, granted |-> TRUE]
           p == place(s, t)
<1>1. x \in Request /\ y \in Request /\ x.txn = t /\ y.txn = t /\ x.mode = m /\ y.mode = m
      /\ x.granted = FALSE /\ y.granted = TRUE /\ x # y
  BY DEF Request
<1>2. p > 0 /\ p \in Nat /\ p # 0
  BY PlaceFirst DEF grantable
<1>3. p \in DOMAIN s /\ s[p] = x
  BY <1>2, PlaceFirst
<1>4. /\ m = "exclusive" => p = 1
      /\ m = "shared" => \A j \in 1 .. p - 1 : s[j].mode = "shared" /\ s[j].granted
  BY DEF grantable
<1> HIDE DEF x, y, p
<1>5. n = [s EXCEPT ![p] = y]
  BY DEF p, y
<1>6. /\ n \in Seq(Request) /\ DOMAIN n = DOMAIN s /\ DOMAIN s = 1 .. Len(s) /\ Len(s) \in Nat
      /\ \A k \in DOMAIN s : n[k] = IF k = p THEN y ELSE s[k]
  <2>1. DOMAIN s = 1 .. Len(s) /\ Len(s) \in Nat
    OBVIOUS
  <2>2. n \in Seq(Request)
    <3>1. p \in 1 .. Len(s)
      BY <1>3, <2>1
    <3>2. [s EXCEPT ![p] = y] \in Seq(Request)
      BY <1>1, <3>1
    <3> QED BY <1>5, <3>2, Zenon
  <2> QED BY <1>3, <1>5, <2>1, <2>2, Zenon
<1>7. \A k \in DOMAIN s : s[k].txn = t => k = p
  BY <1>1, <1>3 DEF InOrder
<1>8. ASSUME NEW j \in DOMAIN n, NEW k \in DOMAIN n, n[j].txn = n[k].txn PROVE j = k
  <2>1. n[j].txn = s[j].txn /\ n[k].txn = s[k].txn
    BY <1>1, <1>3, <1>6
  <2> QED BY <1>6, <1>8, <2>1 DEF InOrder
<1>9. ASSUME NEW k \in DOMAIN n, n[k].granted
      PROVE  /\ n[k].mode = "exclusive" => k = 1
             /\ n[k].mode = "shared" => \A j \in 1 .. k - 1 : n[j].mode = "shared" /\ n[j].granted
  <2>1. CASE k = p
    <3>1. n[k] = y
      BY <1>6, <2>1
    <3>2. \A j \in 1 .. p - 1 : j \in DOMAIN s /\ j # p /\ n[j] = s[j]
      BY <1>3, <1>6
    <3> QED BY <1>1, <1>4, <2>1, <3>1, <3>2
  <2>2. CASE k # p
    <3>1. n[k] = s[k] /\ s[k].granted
      BY <1>6, <1>9, <2>2
    <3>2. \A j \in 1 .. k - 1 : j \in DOMAIN s
      BY <1>6
    <3>3. /\ s[k].mode = "exclusive" => k = 1
          /\ s[k].mode = "shared" => \A j \in 1 .. k - 1 : s[j].mode = "shared" /\ s[j].granted
      BY <1>6, <3>1 DEF InOrder
    <3>4. s[k].mode = "shared" => p \notin 1 .. k - 1
      BY <1>1, <1>3, <3>3
    <3> QED BY <1>6, <3>1, <3>2, <3>3, <3>4
  <2> QED BY <2>1, <2>2
<1>10. InOrder(n)
  BY <1>8, <1>9 DEF InOrder
<1>11. Elems(n) = (Elems(s) \ {x}) \cup {y}
  <2>1. ASSUME NEW k \in DOMAIN n PROVE n[k] \in (Elems(s) \ {x}) \cup {y}
    <3>1. CASE k = p
      BY <1>6, <3>1
    <3>2. CASE k # p
      <4>1. n[k] = s[k] /\ s[k].txn # t
        BY <1>6, <1>7, <3>2
      <4> QED BY <1>1, <1>6, <4>1 DEF Elems
    <3> QED BY <3>1, <3>2
  <2>2. ASSUME NEW k \in DOMAIN s, s[k] # x PROVE s[k] \in Elems(n)
    <3>1. k # p
      BY <1>3, <2>2
    <3> QED BY <1>6, <3>1 DEF Elems
  <2>3. y \in Elems(n)
    BY <1>3, <1>6 DEF Elems
  <2>4. Elems(n) \subseteq (Elems(s) \ {x}) \cup {y}
    BY <2>1, Zenon DEF Elems
  <2>5. (Elems(s) \ {x}) \cup {y} \subseteq Elems(n)
    BY <2>2, <2>3 DEF Elems
  <2> QED BY <2>4, <2>5, Zenon
<1>12. \A r \in Elems(s) : r.txn = t => r = x
  BY <1>3, <1>7 DEF Elems
<1>13. t \notin Sharers(s)
  <2> DEFINE z == [txn |-> t, mode |-> "shared", granted |-> TRUE]
  <2>1. z.txn = t /\ z # x
    BY <1>1
  <2> QED BY <1>12, <2>1 DEF Sharers
<1>14. ASSUME NEW u \in Txns
       PROVE  u \in Sharers(n) <=> u \in Sharers(s) \/ (u = t /\ m = "shared")
  <2> DEFINE z == [txn |-> u, mode |-> "shared", granted |-> TRUE]
  <2>1. z # x /\ z.txn = u /\ (z = y <=> u = t /\ m = "shared")
    <3>1. z.txn = u /\ z.mode = "shared" /\ z.granted = TRUE
      OBVIOUS
    <3>2. u = t /\ m = "shared" => z = y
      BY DEF y
    <3> HIDE DEF z
    <3> QED BY <1>1, <3>1, <3>2
  <2>2. z \in Elems(n) <=> z \in Elems(s) \/ z = y
    BY <1>11, <2>1, Zenon
  <2> QED BY <2>1, <2>2 DEF Sharers
<1>15. /\ m = "shared" => Sharers(n) = Sharers(s) \cup {t}
       /\ m = "exclusive" => Sharers(n) = Sharers(s)
  <2>1. Sharers(n) \subseteq Txns /\ Sharers(s) \subseteq Txns
    BY DEF Sharers
  <2> QED BY <1>14, <2>1, Zenon
<1>16. ASSUME m = "exclusive", NEW u, u # t, NEW w \in Modes \ {"none"}, grantable(n, u, w)
       PROVE  FALSE
  <2>1. place(n, u) \in Nat /\ place(n, u) > 0
    BY <1>6, <1>16, PlaceFirst, Zenon DEF grantable
  <2>2. place(n, u) \in DOMAIN n /\ n[place(n, u)].txn = u
    <3>1. place(n, u) # 0
      BY <2>1
    <3> QED BY <1>6, <3>1, PlaceFirst, Zenon
  <2>3. n[1] = y
    BY <1>3, <1>4, <1>6, <1>16
  <2>4. place(n, u) # 1
    BY <1>1, <1>16, <2>2, <2>3
  <2>5. 1 \in 1 .. place(n, u) - 1
    BY <2>1, <2>4
  <2>6. w = "shared" \/ w = "exclusive"
    BY DEF Modes
  <2> QED BY <1>1, <1>16, <2>3, <2>4, <2>5, <2>6, Zenon DEF grantable
<1> QED BY <1>6, <1>10, <1>11, <1>13, <1>15, <1>16, Zenon DEF x, y, Grants

\* s has become n by the loss of t's granted record x of mode m: the others keep
\* their order, and who can go on only now was behind an exclusive record, or
\* behind this shared one alone.
Removes(s, n, x, t, m) ==
  /\ n \in Seq(Request) /\ InOrder(n)
  /\ Elems(n) = Elems(s) \ {x}
  /\ \A r \in Elems(n) : r.txn # t
  /\ m = "shared" => Sharers(n) = Sharers(s) \ {t} /\ t \in Sharers(s)
  /\ m # "shared" => Sharers(n) = Sharers(s)
  /\ \A u : \A w \in Modes \ {"none"} :
       (/\ m = "shared" /\ grantable(n, u, w) /\ ~ grantable(s, u, w)
        /\ \A r \in Elems(s) : r.txn = u => ~ r.granted)
         => Sharers(s) = {t}

\* The list without the record is such a list.
LEMMA PicksOrder ==
  ASSUME NEW s \in Seq(Request), InOrder(s), NEW t \in Txns, NEW m \in Modes,
         NEW x, x.txn = t, x.mode = m, x.granted = TRUE, x \in Elems(s),
         \A u : [txn |-> u, mode |-> "shared", granted |-> TRUE] = x <=> u = t /\ m = "shared",
         NEW n \in Seq(Request), Elems(n) = Elems(s) \ {x}, NEW h, Picks(s, x, Len(s), n, h)
  PROVE  Removes(s, n, x, t, m)
<1>1. DOMAIN s = 1 .. Len(s) /\ DOMAIN n = 1 .. Len(n) /\ Len(s) \in Nat /\ Len(n) \in Nat
  OBVIOUS
<1>b. \A j, k \in 1 .. Len(n) : j < k => h[j] < h[k]
  BY Zenon DEF Picks
<1>2. /\ DOMAIN s = 1 .. Len(s) /\ DOMAIN n = 1 .. Len(n) /\ Len(s) \in Nat /\ Len(n) \in Nat
      /\ h \in [1 .. Len(n) -> 1 .. Len(s)]
      /\ \A k \in 1 .. Len(n) : n[k] = s[h[k]] /\ s[h[k]] # x
      /\ \A j, k \in 1 .. Len(n) : j < k => h[j] < h[k]
      /\ \A j \in 1 .. Len(s) : s[j] # x => \E k \in 1 .. Len(n) : h[k] = j
  BY <1>1, Zenon DEF Picks
<1>5. ASSUME NEW j \in DOMAIN s, NEW k \in 1 .. Len(n), j < h[k], s[j] # x
      PROVE  \E l \in 1 .. k - 1 : n[l] = s[j]
  <2>1. PICK l \in 1 .. Len(n) : h[l] = j
    BY <1>2, <1>5
  <2>2. h[k] \in 1 .. Len(s) /\ h[l] < h[k]
    BY <1>2, <1>5, <2>1
  <2>3. ~ (k < l) /\ k # l
    <3>1. k < l => h[k] < h[l]
      BY <1>b, <2>1, Zenon
    <3>2. h[l] = j /\ j \in 1 .. Len(s) /\ h[k] \in 1 .. Len(s)
      BY <1>1, <2>1, <2>2
    <3>3. h[l] \in Int /\ h[k] \in Int
      BY <1>1, <3>2
    <3> QED BY <2>2, <3>1, <3>3
  <2>4. l \in 1 .. k - 1
    BY <1>2, <2>3
  <2> QED BY <1>2, <2>1, <2>4
<1>6. InOrder(n)
  <2>1. ASSUME NEW j \in DOMAIN n, NEW k \in DOMAIN n, n[j].txn = n[k].txn PROVE j = k
    <3>1. h[j] = h[k]
      BY <1>2, <2>1 DEF InOrder
    <3>2. h[j] \in Int /\ h[k] \in Int /\ j \in Int /\ k \in Int
      BY <1>2
    <3>3. ~ (j < k) /\ ~ (k < j)
      BY <1>2, <3>1, <3>2
    <3> QED BY <3>2, <3>3
  <2>2. ASSUME NEW k \in DOMAIN n, n[k].granted
        PROVE  /\ n[k].mode = "exclusive" => k = 1
               /\ n[k].mode = "shared" => \A j \in 1 .. k - 1 : n[j].mode = "shared" /\ n[j].granted
    <3>1. h[k] \in DOMAIN s /\ n[k] = s[h[k]]
      BY <1>2
    <3>2. \A j \in 1 .. k - 1 : j \in 1 .. Len(n) /\ h[j] \in 1 .. h[k] - 1 /\ n[j] = s[h[j]]
      <4> SUFFICES ASSUME NEW j \in 1 .. k - 1
                   PROVE  j \in 1 .. Len(n) /\ h[j] \in 1 .. h[k] - 1 /\ n[j] = s[h[j]]
        OBVIOUS
      <4>1. j \in 1 .. Len(n) /\ k \in 1 .. Len(n) /\ j < k
        BY <1>2
      <4>2. h[j] \in 1 .. Len(s) /\ h[k] \in 1 .. Len(s) /\ h[j] < h[k]
        BY <1>2, <4>1, Zenon
      <4> QED BY <1>2, <4>1, <4>2
    <3>3. ASSUME n[k].mode = "exclusive" PROVE k = 1
      <4>1. h[k] = 1
        BY <2>2, <3>1, <3>3 DEF InOrder
      <4>2. k \in Nat /\ k >= 1
        BY <1>2
      <4>3. ASSUME k # 1 PROVE FALSE
        <5>1. 1 \in 1 .. k - 1
          BY ONLY <4>2, <4>3
        <5>2. h[1] \in 1 .. h[k] - 1
          BY <3>2, <5>1, Zenon
        <5> QED BY ONLY <4>1, <5>2
      <4> QED BY <4>3, Zenon
    <3>4. ASSUME n[k].mode = "shared", NEW j \in 1 .. k - 1
          PROVE  n[j].mode = "shared" /\ n[j].granted
      <4>1. s[h[k]].granted /\ s[h[k]].mode = "shared"
        BY <2>2, <3>1, <3>4
      <4>2. \A l \in 1 .. h[k] - 1 : s[l].mode = "shared" /\ s[l].granted
        BY <3>1, <4>1, Zenon DEF InOrder
      <4>3. h[j] \in 1 .. h[k] - 1 /\ n[j] = s[h[j]]
        BY <3>2
      <4> QED BY <4>2, <4>3
    <3> QED BY <3>3, <3>4
  <2> QED BY <2>1, <2>2 DEF InOrder
<1>7. \A r \in Elems(s) : r.txn = t => r = x
  <2>1. PICK k \in DOMAIN s : s[k] = x
    BY DEF Elems
  <2>2. \A j \in DOMAIN s : s[j].txn = t => j = k
    BY <2>1 DEF InOrder
  <2> QED BY <2>1, <2>2 DEF Elems
<1>8. \A r \in Elems(n) : r.txn # t
  BY <1>7
<1>9. ASSUME NEW u \in Txns
      PROVE  u \in Sharers(n) <=> u \in Sharers(s) /\ ~ (u = t /\ m = "shared")
  BY DEF Sharers
<1>10. /\ m = "shared" => Sharers(n) = Sharers(s) \ {t} /\ t \in Sharers(s)
       /\ m # "shared" => Sharers(n) = Sharers(s)
  <2>1. Sharers(n) \subseteq Txns /\ Sharers(s) \subseteq Txns
    BY DEF Sharers
  <2>2. m = "shared" => t \in Sharers(s)
    BY Zenon DEF Sharers
  <2> QED BY <1>9, <2>1, <2>2, Zenon
<1>11. ASSUME NEW u, NEW w \in Modes \ {"none"}, m = "shared", grantable(n, u, w),
              ~ grantable(s, u, w), \A r \in Elems(s) : r.txn = u => ~ r.granted
       PROVE  Sharers(s) = {t}
  <2> DEFINE k == place(n, u)
  <2>1. k \in 1 .. Len(n) /\ n[k].txn = u /\ k > 0
    <3>1. k > 0 /\ k \in Nat
      BY <1>11, PlaceFirst DEF grantable
    <3>2. k # 0
      BY <3>1
    <3>3. k \in DOMAIN n /\ n[k].txn = u
      BY <3>2, PlaceFirst, Zenon
    <3> QED BY <1>2, <3>1, <3>3
  <2>2. h[k] \in DOMAIN s /\ n[k] = s[h[k]] /\ s[h[k]].txn = u
    BY <1>2, <2>1
  <2>3. place(s, u) = h[k] /\ h[k] > 0
    <3>1. place(s, s[h[k]].txn) = h[k]
      BY <2>2, PlaceOnly, Zenon
    <3>2. h[k] \in 1 .. Len(s)
      BY <1>1, <2>2, Zenon
    <3>3. h[k] > 0
      BY <1>1, <3>2
    <3> QED BY <2>2, <3>1, <3>3, Zenon
  <2>4. ~ s[h[k]].granted
    BY <1>11, <2>2 DEF Elems
  <2> HIDE DEF k
  <2>5. w = "exclusive"
    <3> SUFFICES ASSUME w = "shared" PROVE FALSE
      BY DEF Modes
    <3>1. \A l \in 1 .. k - 1 : n[l].mode = "shared" /\ n[l].granted
      BY <1>11 DEF grantable, k
    <3>2. ASSUME NEW j \in 1 .. h[k] - 1 PROVE s[j].mode = "shared" /\ s[j].granted
      <4>1. j \in DOMAIN s /\ j < h[k]
        BY <1>2, <2>2
      <4>2. CASE s[j] = x
        BY <1>11, <4>2
      <4>3. CASE s[j] # x
        BY <1>5, <2>1, <3>1, <4>1, <4>3
      <4> QED BY <4>2, <4>3
    <3> QED BY <1>11, <2>3, <3>2 DEF grantable
  <2>6. k = 1
    BY <1>11, <2>5 DEF grantable, k
  <2>7. \A j \in DOMAIN s : j < h[k] => s[j] = x
    <3> SUFFICES ASSUME NEW j \in DOMAIN s, j < h[k], s[j] # x PROVE FALSE
      OBVIOUS
    <3>1. \E l \in 1 .. k - 1 : n[l] = s[j]
      BY <1>5, <2>1
    <3> QED BY <2>6, <3>1
  <2>8. ASSUME NEW v \in Sharers(s) PROVE v = t
    <3>1. PICK l \in DOMAIN s : s[l] = [txn |-> v, mode |-> "shared", granted |-> TRUE]
      BY DEF Sharers, Elems
    <3>2. s[l].txn = v /\ s[l].mode = "shared" /\ s[l].granted
      BY <3>1
    <3>3. ~ (h[k] < l)
      <4> SUFFICES ASSUME h[k] < l PROVE FALSE
        OBVIOUS
      <4>1. h[k] \in 1 .. l - 1
        BY <1>2, <2>2
      <4> QED BY <2>4, <3>2, <4>1 DEF InOrder
    <3>4. l # h[k]
      BY <2>4, <3>2
    <3>5. l < h[k]
      BY <1>2, <2>2, <3>3, <3>4
    <3> QED BY <2>7, <3>2, <3>5
  <2> QED BY <1>10, <1>11, <2>8
<1> QED BY <1>6, <1>8, <1>10, <1>11 DEF Removes

\* An unlock takes out the granted record x of transaction t.
LEMMA RemoveOrder ==
  ASSUME NEW s \in Seq(Request), InOrder(s), NEW t \in Txns, NEW m \in Modes,
         NEW x, x = [txn |-> t, mode |-> m, granted |-> TRUE], x \in Elems(s),
         NEW n, n = without(s, x)
  PROVE  Removes(s, n, x, t, m)
<1>1. PICK h : n \in Seq(Request) /\ Picks(s, x, Len(s), n, h)
  BY Without
<1>2. Elems(n) = Elems(s) \ {x}
  BY ElemsWithout, Zenon
<1>3. x.txn = t /\ x.mode = m /\ x.granted = TRUE
  OBVIOUS
<1>4. ASSUME NEW u PROVE [txn |-> u, mode |-> "shared", granted |-> TRUE] = x <=> u = t /\ m = "shared"
  <2> DEFINE z == [txn |-> u, mode |-> "shared", granted |-> TRUE]
  <2>1. z.txn = u /\ z.mode = "shared" /\ (u = t /\ m = "shared" => z = x)
    BY Zenon
  <2> HIDE DEF z
  <2>2. z = x <=> u = t /\ m = "shared"
    BY <1>3, <2>1
  <2> QED BY <2>2 DEF z
<1>5. \A u : [txn |-> u, mode |-> "shared", granted |-> TRUE] = x <=> u = t /\ m = "shared"
  BY <1>4, Zenon
<1> QED BY <1>1, <1>2, <1>3, <1>5, PicksOrder, Zenon

\* A list that does not hold x stays as it is.
LEMMA WithoutAbsent ==
  ASSUME NEW S, NEW s \in Seq(S), NEW x, x \notin Elems(s) PROVE without(s, x) = s
<1> DEFINE n == without(s, x)
<1>1. PICK h : n \in Seq(S) /\ Picks(s, x, Len(s), n, h)
  BY Without
<1> HIDE DEF n
<1>2. Len(s) \in Nat /\ DOMAIN s = 1 .. Len(s) /\ s \in [1 .. Len(s) -> S]
  OBVIOUS
<1>3. Len(n) = Len(s)
  BY <1>1, <1>2 DEF Picks, Elems
<1>4. \A k \in 1 .. Len(s) : n[k] = s[k]
  BY <1>1, <1>3 DEF Picks
<1>5. n \in [1 .. Len(s) -> S]
  BY <1>1, <1>3
<1>6. n = s
  BY <1>2, <1>4, <1>5
<1> QED BY <1>6 DEF n

\* A list with no element outside T is one over T.
LEMMA SeqOf ==
  ASSUME NEW S, NEW s \in Seq(S), NEW T, Elems(s) \subseteq T PROVE s \in Seq(T)
<1>1. Len(s) \in Nat /\ DOMAIN s = 1 .. Len(s) /\ s \in [1 .. Len(s) -> S]
  OBVIOUS
<1>2. \A k \in 1 .. Len(s) : s[k] \in T
  BY <1>1 DEF Elems
<1>3. s \in [1 .. Len(s) -> T]
  BY <1>1, <1>2
<1> QED BY <1>1, <1>3 DEF Seq

-----------------------------------------------------------------------------
(* Types and the order of grants, in every behaviour.                       *)

\* Entry a is one that the search for item i may find.
Serves(a, i) == a \in Elems(table[hash[i]]) /\ heap[a].item = i

\* The search finds an entry that serves the item, if there is one.
LEMMA SearchFinds ==
  ASSUME table \in [Buckets -> Seq(live)], live \subseteq Addrs, NEW i \in Items
  PROVE  /\ search(i) = NULL => \A a : ~ Serves(a, i)
         /\ search(i) # NULL => search(i) \in live /\ search(i) \in Addrs /\ Serves(search(i), i)
<1> DEFINE c == table[hash[i]]
           hits == {k \in DOMAIN c : heap[c[k]].item = i}
<1>1. c \in Seq(live) /\ NULL \notin Addrs
  BY TableAssumption
<1>2. search(i) = IF hits = {} THEN NULL ELSE c[CHOOSE k \in hits : \A j \in hits : k <= j]
  BY DEF search
<1>3. hits \subseteq Nat
  <2>1. DOMAIN c = 1 .. Len(c) /\ Len(c) \in Nat
    BY <1>1
  <2> QED BY <2>1
<1>4. CASE hits = {}
  BY <1>2, <1>4 DEF Serves, Elems
<1>5. CASE hits # {}
  <2>1. \E k \in hits : \A j \in hits : k <= j
    BY <1>3, <1>5, Smallest, Zenon
  <2>2. PICK k \in hits : search(i) = c[k]
    <3> HIDE DEF hits, c
    <3> QED BY <1>2, <1>5, <2>1, Zenon
  <2>3. c[k] \in live /\ c[k] \in Elems(c)
    BY <1>1 DEF Elems
  <2> QED BY <1>1, <2>2, <2>3 DEF Serves
<1> QED BY <1>4, <1>5

\* The chains hold addresses in use, and share none.
Chained ==
  /\ live \subseteq Addrs
  /\ table \in [Buckets -> Seq(live)]
  /\ \A b, c \in Buckets : b # c => Elems(table[b]) \cap Elems(table[c]) = {}

\* A thread in a critical section has an entry; one in lock has a mode.
Threaded ==
  /\ pc \in [Txns -> Inside \cup {"idle", "remove"}]
  /\ ptr \in [Txns -> Addrs \cup {NULL}]
  /\ arg \in [Txns -> [item : Items \cup {NULL}, mode : Modes]]
  /\ own \in [Txns -> [Items -> Modes]]
  /\ lapses \subseteq Lapses
  /\ \A t \in Txns :
       /\ pc[t] \in {"push", "test", "wait", "notify", "size"} => ptr[t] \in Addrs
       /\ pc[t] \in {"push", "test", "wait"} => arg[t].mode # "none"
       /\ pc[t] # "idle" => arg[t].item \in Items

\* What holds of every behaviour, sound or not.
ShapeInv == heap \in [Addrs -> Entry] /\ Chained /\ Threaded

\* The entry that Push, Grant and Release leave at the address they write to.
pushed(e, t, m) ==
  [e EXCEPT !.wait_list = Append(@, [txn |-> t, mode |-> m, granted |-> FALSE])]
granted(e, t, m) ==
  [e EXCEPT !.wait_list = [@ EXCEPT ![place(@, t)] = [txn |-> t, mode |-> m, granted |-> TRUE]],
            !.current_lock_mode = IF m = "exclusive" THEN m ELSE @,
            !.shared_lock_cnt = IF m = "shared" THEN @ + 1 ELSE @]

\* Push and Grant write to one entry.
LEMMA OneEntry ==
  ASSUME ShapeInv, NEW t \in Txns
  PROVE  /\ Push(t) => ptr[t] \in Addrs /\ heap' = [heap EXCEPT ![ptr[t]] = pushed(heap[ptr[t]], t, arg[t].mode)]
         /\ Grant(t) => ptr[t] \in Addrs /\ heap' = [heap EXCEPT ![ptr[t]] = granted(heap[ptr[t]], t, arg[t].mode)]
<1> DEFINE a == ptr[t]
<1>1. pc[t] \in {"push", "test"} => a \in Addrs
  BY DEF ShapeInv, Threaded
<1>2. ASSUME a \in Addrs
      PROVE  heap[a] \in Entry /\ DOMAIN heap = Addrs
             /\ DOMAIN heap[a] = {"wait_list", "current_lock_mode", "shared_lock_cnt", "item"}
  BY <1>2 DEF ShapeInv, Entry
<1>3. ASSUME Push(t)
      PROVE  heap' = [heap EXCEPT ![a] = pushed(heap[a], t, arg[t].mode)]
  BY <1>1, <1>2, <1>3 DEF Push, pushed
<1>4. ASSUME Grant(t)
      PROVE  heap' = [heap EXCEPT ![a] = granted(heap[a], t, arg[t].mode)]
  BY <1>1, <1>2, <1>4, Zenon DEF Grant, granted
<1>5. Push(t) \/ Grant(t) => a \in Addrs
  BY <1>1 DEF Push, Grant
<1> QED BY <1>3, <1>4, <1>5

\* These entries have their type.
LEMMA EntryTyped ==
  ASSUME NEW e \in Entry, NEW t \in Txns
  PROVE  /\ \A m \in Modes \ {"none"} : pushed(e, t, m) \in Entry
         /\ \A m \in Modes \ {"none"} : grantable(e.wait_list, t, m) => granted(e, t, m) \in Entry
         /\ release(e, t) \in Entry
<1> DEFINE s == e.wait_list
<1>1. s \in Seq(Request) /\ e.current_lock_mode \in Modes /\ e.shared_lock_cnt \in Int
      /\ e.item \in Items \cup {NULL}
  BY DEF Entry
<1>2. ASSUME NEW m \in Modes \ {"none"} PROVE pushed(e, t, m) \in Entry
  <2>1. [txn |-> t, mode |-> m, granted |-> FALSE] \in Request
    BY DEF Request
  <2>2. Append(s, [txn |-> t, mode |-> m, granted |-> FALSE]) \in Seq(Request)
    BY <1>1, <2>1
  <2> QED BY <2>2 DEF pushed, Entry
<1>3. ASSUME NEW m \in Modes \ {"none"}, grantable(s, t, m) PROVE granted(e, t, m) \in Entry
  <2> DEFINE r == [txn |-> t, mode |-> m, granted |-> TRUE]
             n == [s EXCEPT ![place(s, t)] = r]
             c == IF m = "exclusive" THEN m ELSE e.current_lock_mode
             z == IF m = "shared" THEN e.shared_lock_cnt + 1 ELSE e.shared_lock_cnt
  <2>1. r \in Request
    BY DEF Request
  <2>2. place(s, t) \in Nat /\ place(s, t) # 0
    BY <1>1, <1>3, PlaceFirst DEF grantable
  <2>3. place(s, t) \in 1 .. Len(s)
    <3>1. place(s, t) \in DOMAIN s
      BY <1>1, <2>2, PlaceFirst, Zenon
    <3> QED BY <1>1, <3>1
  <2>4. n \in Seq(Request)
    BY <1>1, <2>1, <2>3
  <2>5. c \in Modes /\ z \in Int
    BY <1>1
  <2>6. granted(e, t, m) = [e EXCEPT !.wait_list = n, !.current_lock_mode = c, !.shared_lock_cnt = z]
    BY DEF granted, Entry
  <2> HIDE DEF n, c, z
  <2> QED BY <2>4, <2>5, <2>6, Zenon DEF Entry
<1>4. release(e, t) \in Entry
  <2> DEFINE x == [txn |-> t, mode |-> e.current_lock_mode, granted |-> TRUE]
             z == unshared(e).shared_lock_cnt
             c == IF need_notify(e) THEN "none" ELSE e.current_lock_mode
  <2>1. unshared(e) \in Entry /\ unshared(e).wait_list = s
        /\ unshared(e).current_lock_mode = e.current_lock_mode
    BY <1>1 DEF unshared, Entry
  <2>2. without(s, x) \in Seq(Request)
    BY <1>1, Without
  <2>3. c \in Modes
    BY <1>1 DEF Modes
  <2>4. release(e, t) = [unshared(e) EXCEPT !.wait_list = without(s, x), !.current_lock_mode = c]
    BY <2>1 DEF release, removeRecord, Entry
  <2> HIDE DEF x, c
  <2> QED BY <2>1, <2>2, <2>3, <2>4, Zenon DEF Entry
<1> QED BY <1>2, <1>3, <1>4

\* Every step keeps the type of the entries.
LEMMA HeapTyped ==
  ASSUME ShapeInv, [Next]_vars PROVE heap' \in [Addrs -> Entry]
<1>1. heap \in [Addrs -> Entry]
  BY DEF ShapeInv
<1>2. CASE UNCHANGED heap
  BY <1>1, <1>2
<1>3. ASSUME NEW t \in Txns, Push(t) PROVE heap' \in [Addrs -> Entry]
  <2>1. ptr[t] \in Addrs /\ arg[t].mode \in Modes \ {"none"}
    BY <1>3 DEF Push, ShapeInv, Threaded
  <2>2. pushed(heap[ptr[t]], t, arg[t].mode) \in Entry
    BY <1>1, <2>1, EntryTyped
  <2> QED BY <1>1, <1>3, <2>1, <2>2, OneEntry
<1>4. ASSUME NEW t \in Txns, Grant(t) PROVE heap' \in [Addrs -> Entry]
  <2>1. ptr[t] \in Addrs /\ arg[t].mode \in Modes \ {"none"}
        /\ grantable(heap[ptr[t]].wait_list, t, arg[t].mode)
    BY <1>4 DEF Grant, ShapeInv, Threaded
  <2>2. granted(heap[ptr[t]], t, arg[t].mode) \in Entry
    BY <1>1, <2>1, EntryTyped
  <2> QED BY <1>1, <1>4, <2>1, <2>2, OneEntry
<1>5. ASSUME NEW t \in Txns, Release(t) PROVE heap' \in [Addrs -> Entry]
  <2>1. ptr[t] \in Addrs /\ heap' = [heap EXCEPT ![ptr[t]] = release(heap[ptr[t]], t)]
    BY <1>5 DEF Release, ShapeInv, Threaded
  <2>2. release(heap[ptr[t]], t) \in Entry
    BY <1>1, <2>1, EntryTyped
  <2> QED BY <1>1, <2>1, <2>2
<1>6. ASSUME NEW t \in Txns, NEW i \in Items, NEW m \in Modes \ {"none"}, Lock(t, i, m), ~ UNCHANGED heap
      PROVE  heap' \in [Addrs -> Entry]
  <2>1. PICK a \in Addrs \ live, e \in Junk : heap' = [heap EXCEPT ![a] = e]
    BY <1>6, Zenon DEF Lock, add
  <2>2. e \in Entry
    <3>1. <<>> \in Seq(Request)
      OBVIOUS
    <3> QED BY <3>1, JunkAssumption, Zenon DEF Entry
  <2> QED BY <1>1, <2>1, <2>2
<1>7. UNCHANGED vars => UNCHANGED heap
  BY DEF vars
<1>8. ASSUME NEW t \in Txns,
             Sleep(t) \/ SpuriousWakeup(t) \/ Notify(t) \/ Size(t) \/ Remove(t) \/ \E i \in Items : Unlock(t, i)
      PROVE  UNCHANGED heap
  BY <1>8 DEF Sleep, SpuriousWakeup, Notify, Size, Remove, Unlock
<1> QED BY <1>2, <1>3, <1>4, <1>5, <1>6, <1>7, <1>8 DEF Next, Step

\* Only a new entry and a removal change the chains.
LEMMA ChainsKept ==
  ASSUME ShapeInv, [Next]_vars PROVE Chained'
<1>1. Chained
  BY DEF ShapeInv
<1>2. CASE UNCHANGED <<live, table>>
  BY <1>1, <1>2 DEF Chained
<1>3. ASSUME NEW t \in Txns, NEW i \in Items, NEW m \in Modes \ {"none"}, Lock(t, i, m),
             ~ UNCHANGED <<live, table>>
      PROVE  Chained'
  <2> DEFINE b == hash[i]
  <2>1. PICK a \in Addrs \ live : live' = live \cup {a} /\ table' = [table EXCEPT ![b] = <<a>> \o @]
    BY <1>3, Zenon DEF Lock, add
  <2>2. b \in Buckets
    BY TableAssumption
  <2>3. ASSUME NEW c \in Buckets
        PROVE  table[c] \in Seq(live) /\ table[c] \in Seq(live') /\ Elems(table[c]) \subseteq live
    <3>1. table[c] \in Seq(live)
      BY <1>1 DEF Chained
    <3>2. Elems(table[c]) \subseteq live
      BY <3>1, ElemsNone
    <3> QED BY <2>1, <3>1, <3>2, SeqOf
  <2>4. <<a>> \o table[b] \in Seq(live') /\ Elems(<<a>> \o table[b]) = Elems(table[b]) \cup {a}
    <3>1. a \in live' /\ table[b] \in Seq(live')
      BY <2>1, <2>2, <2>3
    <3>2. Elems(<<a>> \o table[b]) = Elems(table[b]) \cup {a}
      BY <3>1, ElemsPrepend
    <3> QED BY <3>1, <3>2
  <2>5. live' \subseteq Addrs
    BY <1>1, <2>1 DEF Chained
  <2>6. table' \in [Buckets -> Seq(live')]
    BY <1>1, <2>1, <2>2, <2>3, <2>4 DEF Chained
  <2>7. ASSUME NEW c \in Buckets, NEW d \in Buckets, c # d
        PROVE  Elems(table'[c]) \cap Elems(table'[d]) = {}
    <3>1. table'[c] = (IF c = b THEN <<a>> \o table[b] ELSE table[c])
          /\ table'[d] = (IF d = b THEN <<a>> \o table[b] ELSE table[d])
      BY <1>1, <2>1, <2>2 DEF Chained
    <3>2. Elems(table[c]) \cap Elems(table[d]) = {} /\ a \notin Elems(table[c]) /\ a \notin Elems(table[d])
      BY <1>1, <2>1, <2>3, <2>7 DEF Chained
    <3> QED BY <2>4, <2>7, <3>1, <3>2
  <2> QED BY <2>5, <2>6, <2>7 DEF Chained
<1>4. ASSUME NEW t \in Txns, Remove(t) PROVE Chained'
  <2> DEFINE i == arg[t].item
             a == search(i)
             b == hash[i]
  <2>1. i \in Items
    BY <1>4 DEF Remove, ShapeInv, Threaded
  <2>2. b \in Buckets
    BY <2>1, TableAssumption
  <2>3. live' = live \ {a} /\ table' = [table EXCEPT ![b] = without(@, a)]
    BY <1>4 DEF Remove, unlink
  <2>4. a = NULL \/ a \in Elems(table[b])
    BY <1>1, <2>1, SearchFinds DEF Chained, Serves
  <2>5. ASSUME NEW c \in Buckets
        PROVE  /\ table'[c] \in Seq(live')
               /\ Elems(table'[c]) \subseteq Elems(table[c])
    <3>1. table[c] \in Seq(live) /\ Elems(table[c]) \subseteq live
      BY <1>1, ElemsNone DEF Chained
    <3>2. CASE c = b
      <4>1. table'[c] = without(table[c], a)
        BY <1>1, <2>2, <2>3, <3>2 DEF Chained
      <4>2. without(table[c], a) \in Seq(live) /\ Elems(without(table[c], a)) = Elems(table[c]) \ {a}
        BY <3>1, Without, ElemsWithout
      <4>3. Elems(table'[c]) \subseteq live'
        BY <2>3, <3>1, <4>1, <4>2
      <4> QED BY <4>1, <4>2, <4>3, SeqOf
    <3>3. CASE c # b
      <4>1. table'[c] = table[c]
        BY <1>1, <2>2, <2>3, <3>3 DEF Chained
      <4>2. a \notin Elems(table[c])
        BY <1>1, <2>2, <2>4, <3>1, <3>3, TableAssumption DEF Chained
      <4>3. Elems(table[c]) \subseteq live'
        BY <2>3, <3>1, <4>2
      <4> QED BY <3>1, <4>1, <4>3, SeqOf
    <3> QED BY <3>2, <3>3
  <2>6. table' \in [Buckets -> Seq(live')]
    <3>1. DOMAIN table' = Buckets /\ table' = [c \in Buckets |-> table'[c]]
      BY <1>1, <2>3, Zenon DEF Chained
    <3> QED BY <2>5, <3>1
  <2> QED BY <1>1, <2>3, <2>5, <2>6 DEF Chained
<1>5. UNCHANGED vars => UNCHANGED <<live, table>>
  BY DEF vars
<1>6. ASSUME NEW t \in Txns,
             Push(t) \/ Grant(t) \/ Release(t) \/ Sleep(t) \/ SpuriousWakeup(t) \/ Notify(t) \/ Size(t)
               \/ \E i \in Items : Unlock(t, i)
      PROVE  UNCHANGED <<live, table>>
  BY <1>6, Zenon DEF Push, Grant, Release, Sleep, SpuriousWakeup, Notify, Size, Unlock
<1> QED BY <1>2, <1>3, <1>4, <1>5, <1>6 DEF Next, Step

\* Waking the threads that sleep at an entry leaves the others where they are.
LEMMA Wakes ==
  ASSUME NEW p \in [Txns -> Inside \cup {"idle", "remove"}], NEW a
  PROVE  /\ notify_all(p, a) \in [Txns -> Inside \cup {"idle", "remove"}]
         /\ \A u \in Txns : notify_all(p, a)[u] = IF pc[u] = "wait" /\ ptr[u] = a THEN "test" ELSE p[u]
BY DEF notify_all, Waiting, Inside

\* Every step takes a thread to a point for which it has what it needs.
LEMMA ThreadsKept ==
  ASSUME ShapeInv, [Next]_vars PROVE Threaded'
<1> DEFINE Points == Inside \cup {"idle", "remove"}
<1>1. Threaded
  BY DEF ShapeInv
<1>2. CASE UNCHANGED vars
  BY <1>1, <1>2 DEF Threaded, vars
<1>3. ASSUME NEW t \in Txns, NEW i \in Items, NEW m \in Modes \ {"none"}, Lock(t, i, m)
      PROVE  Threaded'
  <2>1. PICK a \in Addrs : ptr' = [ptr EXCEPT ![t] = a]
    BY <1>3, SearchFinds, Zenon DEF Lock, add, ShapeInv, Chained
  <2>2. /\ pc' = [pc EXCEPT ![t] = "push"] /\ own' = own
        /\ arg' = [arg EXCEPT ![t] = [item |-> i, mode |-> m]]
    BY <1>3 DEF Lock
  <2>3. lapses' \subseteq Lapses
    BY <1>1, <1>3, Zenon DEF Lock, add, Misuse, Lapses, Threaded
  <2> QED BY <1>1, <2>1, <2>2, <2>3 DEF Threaded, Inside
<1>4. ASSUME NEW t \in Txns, Push(t) \/ Sleep(t) \/ SpuriousWakeup(t) PROVE Threaded'
  <2>1. pc[t] \in {"push", "test", "wait"} /\ (pc' = [pc EXCEPT ![t] = "test"] \/ pc' = [pc EXCEPT ![t] = "wait"])
        /\ UNCHANGED <<ptr, arg, own, lapses>>
    BY <1>4 DEF Push, Sleep, SpuriousWakeup
  <2> QED BY <1>1, <2>1 DEF Threaded, Inside
<1>5. ASSUME NEW t \in Txns, Grant(t) PROVE Threaded'
  <2> DEFINE p == [pc EXCEPT ![t] = "idle"]
  <2>1. pc' = (IF arg[t].mode = "shared" THEN notify_all(p, ptr[t]) ELSE p)
        /\ own' = [own EXCEPT ![t][arg[t].item] = arg[t].mode]
        /\ arg' = [arg EXCEPT ![t] = NoCall] /\ ptr' = [ptr EXCEPT ![t] = NULL] /\ lapses' = lapses
        /\ pc[t] = "test"
    BY <1>5 DEF Grant
  <2>2. p \in [Txns -> Points]
    BY <1>1 DEF Threaded
  <2>3. pc' \in [Txns -> Points]
    BY <2>1, <2>2, Wakes, Zenon
  <2>4. ASSUME NEW u \in Txns
        PROVE  (u = t => pc'[u] = "idle") /\ (u # t => pc'[u] = pc[u] \/ (pc[u] = "wait" /\ pc'[u] = "test"))
    <3>1. p[u] = IF u = t THEN "idle" ELSE pc[u]
      BY <1>1 DEF Threaded
    <3>2. notify_all(p, ptr[t])[u] = IF pc[u] = "wait" /\ ptr[u] = ptr[t] THEN "test" ELSE p[u]
      BY <2>2, Wakes, Zenon
    <3> HIDE DEF p
    <3> QED BY <2>1, <3>1, <3>2
  <2>5. own' \in [Txns -> [Items -> Modes]]
    BY <1>1, <2>1 DEF Threaded
  <2>6. NoCall \in [item : Items \cup {NULL}, mode : Modes]
    BY DEF NoCall, Modes
  <2>7. arg' \in [Txns -> [item : Items \cup {NULL}, mode : Modes]] /\ ptr' \in [Txns -> Addrs \cup {NULL}]
    BY <1>1, <2>1, <2>6 DEF Threaded
  <2>8. \A u \in Txns : u # t => arg'[u] = arg[u] /\ ptr'[u] = ptr[u]
    BY <1>1, <2>1 DEF Threaded
  <2>9. ASSUME NEW u \in Txns
        PROVE  /\ pc'[u] \in {"push", "test", "wait", "notify", "size"} => ptr'[u] \in Addrs
               /\ pc'[u] \in {"push", "test", "wait"} => arg'[u].mode # "none"
               /\ pc'[u] # "idle" => arg'[u].item \in Items
    BY <1>1, <2>4, <2>8 DEF Threaded
  <2> QED BY <1>1, <2>1, <2>3, <2>5, <2>7, <2>9, Zenon DEF Threaded
<1>6. ASSUME NEW t \in Txns, NEW i \in Items, Unlock(t, i) PROVE Threaded'
  <2>1. search(i) \in Addrs \cup {NULL}
    BY SearchFinds DEF ShapeInv, Chained
  <2>2. /\ ptr' = [ptr EXCEPT ![t] = search(i)] /\ lapses' = lapses
        /\ arg' = [arg EXCEPT ![t] = [item |-> i, mode |-> "none"]]
        /\ own' = [own EXCEPT ![t][i] = "none"]
        /\ pc' = [pc EXCEPT ![t] = "release"]
    BY <1>6 DEF Unlock
  <2>3. own' \in [Txns -> [Items -> Modes]]
    BY <1>1, <2>2 DEF Threaded, Modes
  <2>4. arg' \in [Txns -> [item : Items \cup {NULL}, mode : Modes]]
    BY <1>1, <2>2 DEF Threaded, Modes
  <2> QED BY <1>1, <2>1, <2>2, <2>3, <2>4 DEF Threaded, Inside
<1>7. ASSUME NEW t \in Txns, Release(t) PROVE Threaded'
  <2>1. /\ pc[t] = "release" /\ ptr[t] \in Addrs /\ UNCHANGED <<ptr, arg, own>>
        /\ pc' = [pc EXCEPT ![t] = "notify"] \/ pc' = [pc EXCEPT ![t] = "size"]
        /\ lapses' \subseteq lapses \cup {"record"}
    BY <1>1, <1>7, Zenon DEF Release, Threaded
  <2>2. lapses' \subseteq Lapses
    BY <1>1, <2>1 DEF Lapses, Threaded
  <2> QED BY <1>1, <2>1, <2>2 DEF Threaded, Inside
<1>8. ASSUME NEW t \in Txns, Notify(t) PROVE Threaded'
  <2> DEFINE p == [pc EXCEPT ![t] = "size"]
  <2>1. pc[t] = "notify" /\ pc' = notify_all(p, ptr[t]) /\ UNCHANGED <<ptr, arg, own, lapses>>
    BY <1>8 DEF Notify
  <2>2. p \in [Txns -> Points]
    BY <1>1 DEF Threaded, Inside
  <2>3. pc' \in [Txns -> Points]
    BY <2>1, <2>2, Wakes, Zenon
  <2>4. ASSUME NEW u \in Txns
        PROVE  pc'[u] = pc[u] \/ (pc[u] = "wait" /\ pc'[u] = "test") \/ (pc[u] = "notify" /\ pc'[u] = "size")
    <3>1. p[u] = IF u = t THEN "size" ELSE pc[u]
      BY <1>1 DEF Threaded
    <3>2. notify_all(p, ptr[t])[u] = IF pc[u] = "wait" /\ ptr[u] = ptr[t] THEN "test" ELSE p[u]
      BY <2>2, Wakes, Zenon
    <3> HIDE DEF p
    <3> QED BY <2>1, <3>1, <3>2
  <2> QED BY <1>1, <2>1, <2>3, <2>4, Zenon DEF Threaded
<1>9. ASSUME NEW t \in Txns, Size(t) PROVE Threaded'
  <2>1. pc[t] = "size" /\ ptr' = [ptr EXCEPT ![t] = NULL] /\ UNCHANGED <<own, lapses>>
        /\ \/ pc' = [pc EXCEPT ![t] = "remove"] /\ arg' = [arg EXCEPT ![t] = arg[t]]
           \/ pc' = [pc EXCEPT ![t] = "idle"] /\ arg' = [arg EXCEPT ![t] = NoCall]
    BY <1>9, Zenon DEF Size
  <2>2. NoCall \in [item : Items \cup {NULL}, mode : Modes]
    BY DEF NoCall, Modes
  <2>3. CASE pc' = [pc EXCEPT ![t] = "remove"] /\ arg' = [arg EXCEPT ![t] = arg[t]]
    BY <1>1, <2>1, <2>3 DEF Threaded
  <2>4. CASE pc' = [pc EXCEPT ![t] = "idle"] /\ arg' = [arg EXCEPT ![t] = NoCall]
    BY <1>1, <2>1, <2>2, <2>4 DEF Threaded
  <2> QED BY <2>1, <2>3, <2>4
<1>10. ASSUME NEW t \in Txns, Remove(t) PROVE Threaded'
  <2>1. pc' = [pc EXCEPT ![t] = "idle"] /\ arg' = [arg EXCEPT ![t] = NoCall] /\ UNCHANGED <<ptr, own>>
        /\ lapses' \subseteq lapses \cup {"freed"}
    BY <1>10 DEF Remove
  <2>2. NoCall \in [item : Items \cup {NULL}, mode : Modes]
    BY DEF NoCall, Modes
  <2>3. lapses' \subseteq Lapses
    BY <1>1, <2>1 DEF Lapses, Threaded
  <2> QED BY <1>1, <2>1, <2>2, <2>3 DEF Threaded
<1> QED BY <1>2, <1>3, <1>4, <1>5, <1>6, <1>7, <1>8, <1>9, <1>10 DEF Next, Step

\* At the start the table is empty and every thread idle.
LEMMA ShapeInit == Init => ShapeInv
<1> SUFFICES ASSUME Init PROVE ShapeInv
  OBVIOUS
<1>1. heap \in [Addrs -> Entry]
  <2>1. [wait_list |-> <<>>, current_lock_mode |-> "none", shared_lock_cnt |-> 0, item |-> NULL] \in Entry
    <3>1. <<>> \in Seq(Request)
      OBVIOUS
    <3> QED BY <3>1 DEF Entry, Modes
  <2> QED BY <2>1 DEF Init
<1>2. Chained
  <2>1. live = {} /\ table = [b \in Buckets |-> <<>>]
    BY DEF Init
  <2>2. <<>> \in Seq(live) /\ Elems(<<>>) = {}
    BY ElemsNone
  <2> QED BY <2>1, <2>2 DEF Chained
<1>3. Threaded
  <2>1. NoCall \in [item : Items \cup {NULL}, mode : Modes]
    BY DEF NoCall, Modes
  <2> QED BY <2>1 DEF Init, Threaded, Modes
<1> QED BY <1>1, <1>2, <1>3 DEF ShapeInv

\* The shape of the table and of the threads holds of every behaviour.
THEOREM ShapeInvariance == Spec => []ShapeInv
<1>1. ShapeInv /\ [Next]_vars => ShapeInv'
  BY HeapTyped, ChainsKept, ThreadsKept DEF ShapeInv
<1> QED BY <1>1, ShapeInit, PTL DEF Spec

\* TypeOK of the lock manager: whatever the threads do and whatever new entries
\* hold, the table's chains consist of entries that are not deleted.
THEOREM TypeCorrect == Spec => []TypeOK
<1>1. ShapeInv => TypeOK
  BY DEF ShapeInv, Chained, Threaded, TypeOK
<1> QED BY <1>1, ShapeInvariance, PTL

\* GrantsInOrder: in every behaviour, a record becomes granted only when every
\* record before it is; the removal of a record, which moves those behind it, and
\* the reuse of a deleted entry included.
THEOREM NothingOvertakes == Spec => GrantsInOrder
<1> DEFINE Kept(a, k) == LET s == heap[a].wait_list
                             n == heap'[a].wait_list
                         IN Len(n) = Len(s) /\ ~s[k].granted /\ n[k].granted => \A j \in 1 .. k - 1 : s[j].granted
           A == \A a \in Addrs : \A k \in DOMAIN heap[a].wait_list : Kept(a, k)
<1>1. ASSUME ShapeInv, Next PROVE A
  <2> SUFFICES ASSUME NEW a \in Addrs, NEW k \in DOMAIN heap[a].wait_list PROVE Kept(a, k)
    OBVIOUS
  <2> DEFINE s == heap[a].wait_list
             n == heap'[a].wait_list
  <2>1. heap \in [Addrs -> Entry] /\ heap[a] \in Entry /\ s \in Seq(Request)
    BY <1>1 DEF ShapeInv, Entry
  <2>2. k \in 1 .. Len(s) /\ Len(s) \in Nat
    BY <2>1
  <2>3. CASE n = s
    BY <2>3
  <2>4. ASSUME NEW t \in Txns, NEW i \in Items, NEW m \in Modes \ {"none"}, Lock(t, i, m), n # s PROVE Kept(a, k)
    <3>1. PICK e \in Junk : heap'[a] = e
      BY <2>1, <2>4, Zenon DEF Lock, add
    <3>2. n = <<>>
      BY <3>1, JunkAssumption
    <3> QED BY <2>2, <3>2
  <2>5. ASSUME NEW t \in Txns, Push(t), n # s PROVE Kept(a, k)
    <3>1. heap' = [heap EXCEPT ![ptr[t]] = pushed(heap[ptr[t]], t, arg[t].mode)] /\ ptr[t] \in Addrs
      BY <1>1, <2>5, OneEntry
    <3>2. a = ptr[t] /\ heap'[a] = pushed(heap[a], t, arg[t].mode)
      BY <2>1, <2>5, <3>1
    <3>3. n = Append(s, [txn |-> t, mode |-> arg[t].mode, granted |-> FALSE])
      BY <2>1, <3>2 DEF pushed, Entry
    <3>4. arg[t].mode \in Modes \ {"none"}
      BY <1>1, <2>5 DEF ShapeInv, Threaded, Push
    <3>5. [txn |-> t, mode |-> arg[t].mode, granted |-> FALSE] \in Request
      BY <3>4 DEF Request
    <3>6. Len(n) = Len(s) + 1
      BY <2>1, <3>3, <3>5
    <3> QED BY <2>2, <3>6
  <2>6. ASSUME NEW t \in Txns, Grant(t), n # s PROVE Kept(a, k)
    <3> DEFINE m == arg[t].mode
               p == place(s, t)
    <3>1. heap' = [heap EXCEPT ![ptr[t]] = granted(heap[ptr[t]], t, m)] /\ ptr[t] \in Addrs
      BY <1>1, <2>6, OneEntry
    <3>2. a = ptr[t] /\ heap'[a] = granted(heap[a], t, m)
      BY <2>1, <2>6, <3>1
    <3>3. n = [s EXCEPT ![p] = [txn |-> t, mode |-> m, granted |-> TRUE]]
      BY <2>1, <3>2 DEF granted, Entry
    <3>4. grantable(s, t, m) /\ m \in Modes \ {"none"}
      BY <1>1, <2>6, <3>2 DEF Grant, ShapeInv, Threaded
    <3>5. CASE k # p
      BY <2>1, <2>2, <3>3, <3>5
    <3>6. CASE k = p
      <4>1. m = "exclusive" => k = 1
        BY <3>4, <3>6 DEF grantable
      <4>2. m = "shared" => \A j \in 1 .. k - 1 : s[j].granted
        BY <3>4, <3>6 DEF grantable
      <4>3. m = "exclusive" \/ m = "shared"
        BY <3>4 DEF Modes
      <4> QED BY <4>1, <4>2, <4>3
    <3> QED BY <3>5, <3>6
  <2>7. ASSUME NEW t \in Txns, Release(t), n # s PROVE Kept(a, k)
    <3> DEFINE x == [txn |-> t, mode |-> heap[a].current_lock_mode, granted |-> TRUE]
    <3>1. heap' = [heap EXCEPT ![ptr[t]] = release(heap[ptr[t]], t)] /\ ptr[t] \in Addrs
      BY <1>1, <2>7 DEF Release, ShapeInv, Threaded
    <3>2. a = ptr[t] /\ heap'[a] = release(heap[a], t)
      BY <2>1, <2>7, <3>1
    <3>3. n = without(s, x)
      BY <2>1, <3>2 DEF release, removeRecord, unshared, Entry
    <3> HIDE DEF x
    <3>4. without(s, x) \in Seq(Request) /\ \E h : Picks(s, x, Len(s), without(s, x), h)
      BY <2>1, Without
    <3>5. PICK h : Picks(s, x, Len(s), n, h)
      BY <3>3, <3>4
    <3>6. ASSUME Len(n) = Len(s) PROVE n[k] = s[k]
      BY <2>2, <3>5, <3>6 DEF Picks
    <3> QED BY <3>6
  <2>8. ASSUME NEW t \in Txns,
               Sleep(t) \/ SpuriousWakeup(t) \/ Notify(t) \/ Size(t) \/ Remove(t) \/ \E i \in Items : Unlock(t, i)
        PROVE  n = s
    BY <2>8 DEF Sleep, SpuriousWakeup, Notify, Size, Remove, Unlock
  <2> HIDE DEF Kept
  <2> QED BY <1>1, <2>3, <2>4, <2>5, <2>6, <2>7, <2>8 DEF Next, Step
<1>2. ShapeInv /\ [Next]_vars => [A]_vars
  BY <1>1
<1>3. []ShapeInv /\ [][Next]_vars => [][A]_vars
  BY <1>2, PTL
<1> QED BY <1>3, ShapeInvariance, PTL DEF Spec, GrantsInOrder
=============================================================================
