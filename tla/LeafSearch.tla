------------------------------- MODULE LeafSearch -------------------------------
(***************************************************************************)
(* index_format::find_in_leaf, the binary search in a leaf of the B+ tree, *)
(* one step per turn of its loop.  call holds the node and the key looked  *)
(* for; it does not change.  datatype and key_len are members of the node  *)
(* that nobody sets, so they are any type and any length.  count is small  *)
(* enough for left + right not to overflow (a page holds 4076 bytes).      *)
(***************************************************************************)
EXTENDS Scan

VARIABLES call, left, right, pc, result

vars == <<call, left, right, pc, result>>

Calls == [count : Int, keys : [Nat -> Values], key : Values,
          type : data_types \cup {"UNKNOWN"}, length : Nat]

\* The last key is a dummy and not looked at.
Init ==
  /\ call \in Calls
  /\ left = 0
  /\ right = call.count - 2
  /\ pc = IF left > right THEN "done" ELSE "loop"
  /\ result = -1

mid == (left + right) \div 2

order == compare(call.type, call.keys[mid], call.key, call.length)

Loop ==
  /\ pc = "loop" /\ left <= right
  /\ \/ order < 0 /\ left' = mid + 1 /\ UNCHANGED <<right, pc, result>>
     \/ order > 0 /\ right' = mid - 1 /\ UNCHANGED <<left, pc, result>>
     \/ order = 0 /\ result' = mid /\ pc' = "done" /\ UNCHANGED <<left, right>>
  /\ UNCHANGED call

Exhausted ==
  /\ pc = "loop" /\ left > right
  /\ pc' = "done"
  /\ UNCHANGED <<call, left, right, result>>

Next == Loop \/ Exhausted

Spec == Init /\ [][Next]_vars

-----------------------------------------------------------------------------

\* The keys that count, and the key looked for, are numbers in ascending order.
Sorted ==
  /\ call.type \in {"INT", "LONG", "FLOAT", "DOUBLE", "VARCHAR"}
  /\ ~ call.key.nan /\ \A i \in 0 .. call.count - 2 : ~ call.keys[i].nan
  /\ \A i, j \in 0 .. call.count - 2 :
       i < j => ~ Less(call.type, call.keys[j], call.keys[i], call.length)

matches(i) == compare(call.type, call.keys[i], call.key, call.length) = 0

\* A slot that is returned is one of the node's and its key matches; -1 is
\* returned for a sorted node only when no key does.
Finds ==
  pc = "done" =>
    /\ result # -1 => result \in 0 .. call.count - 2 /\ matches(result)
    /\ result = -1 /\ Sorted => \A i \in 0 .. call.count - 2 : ~ matches(i)

\* Every turn that goes on leaves fewer slots to look at, and none below 0 or
\* from count - 1 on: the search ends.
Narrows ==
  pc = "loop" /\ pc' = "loop" =>
    /\ right' - left' < right - left
    /\ 0 <= left' /\ right' <= call.count - 2
=============================================================================
