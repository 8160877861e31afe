------------------------------ MODULE TreeDescent ------------------------------
(***************************************************************************)
(* The three ways down the B+ tree: find_leaf_node,                        *)
(* find_smallest_leaf_node and find_largest_leaf_node, one step per turn   *)
(* of their common loop.  They differ in the child they take (way), and    *)
(* all three pin the page of each node they pass.                          *)
(*                                                                         *)
(* Level 0 is the root; pins[l] counts the pins this call holds on the     *)
(* page of the node it met at level l, and zero the pins there are on page *)
(* 0 of the file, which holds the index header and no node.  height is     *)
(* height_, a member the constructor does not set, taken not to be         *)
(* negative; a tree of height h has its leaves at level h - 1.             *)
(***************************************************************************)
EXTENDS Integers

VARIABLES way, empty, height, i, pins, zero, pc, level

vars == <<way, empty, height, i, pins, zero, pc, level>>

Ways == {"by key", "smallest", "largest"}

\* An empty tree gives a null pointer, a tree of height 1 its root; a loop that
\* is not entered leaves the function without a result.
Init ==
  /\ way \in Ways /\ empty \in BOOLEAN /\ height \in Nat
  /\ i = 0
  /\ pins = [l \in Nat |-> 0] /\ zero \in Nat
  /\ level = 0
  /\ pc = CASE empty -> "null"
            [] ~ empty /\ height = 1 -> "found"
            [] ~ empty /\ height = 0 -> "undefined"
            [] OTHER -> "loop"

\* index_handle::unpin_page unpins page 0, whatever page it is given; to unpin a
\* page without pins is an exception.
unpin_page ==
  IF zero > 0 THEN zero' = zero - 1 /\ i' = i + 1 /\ UNCHANGED pc
              ELSE pc' = "thrown" /\ UNCHANGED <<zero, i>>

\* A turn: pin the node's page, take its child, return it at the last level, and
\* otherwise unpin the page unless it is the root's.
Turn ==
  /\ pc = "loop" /\ i < height
  /\ pins' = [pins EXCEPT ![i] = @ + 1]
  /\ level' = i + 1
  /\ \/ i = height - 1 /\ pc' = "found" /\ UNCHANGED <<i, zero>>
     \/ i # height - 1 /\ i = 0 /\ i' = i + 1 /\ UNCHANGED <<pc, zero>>
     \/ i # height - 1 /\ i # 0 /\ unpin_page
  /\ UNCHANGED <<way, empty, height>>

\* The child is that of the key (internal_node::lookup), the first, or the last.
ByKey == way = "by key" /\ Turn
ToSmallest == way = "smallest" /\ Turn
ToLargest == way = "largest" /\ Turn

\* No slot of the buffer pool is left for the page: the exception leaves the pins
\* as they are.
Thrown ==
  /\ pc = "loop"
  /\ pc' = "thrown"
  /\ UNCHANGED <<way, empty, height, i, pins, zero, level>>

Next == ByKey \/ ToSmallest \/ ToLargest \/ Thrown

Spec == Init /\ [][Next]_vars

-----------------------------------------------------------------------------

\* Between two turns the page of every node passed is pinned, once: nothing the
\* descent pins is unpinned.
HoldsPath ==
  pc = "loop" => \A l \in Nat : pins[l] = IF l < i THEN 1 ELSE 0

\* A descent that returns a node leaves the whole path pinned, so that it needs
\* as many slots of the pool as the tree has levels.
LeavesPathPinned ==
  pc = "found" /\ height > 1 =>
    \A l \in Nat : pins[l] = IF l < height THEN 1 ELSE 0

\* It takes one step more than the tree is high: the node passed last is on the
\* level of the leaves, and the one returned, as a leaf, is below them.
PassesLeaves ==
  pc = "found" /\ height > 1 => level = height

=============================================================================
