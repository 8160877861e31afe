--------------------------- MODULE MCLockManager ---------------------------
(* Values of LockManager's constants: every item hashes to one bucket.  A  *)
(* new entry is a recycled one of the same item, in any mode, with a count *)
(* of 0 or 1, or memory whose item matches nothing (NULL).                 *)
EXTENDS LockManager

MCHash == [i \in Items |-> CHOOSE b \in Buckets : TRUE]

Member(m, c, i) ==
    [wait_list |-> <<>>, current_lock_mode |-> m, shared_lock_cnt |-> c, item |-> i]

MCJunk == {Member(m, 0, i) : m \in Modes, i \in Items}
          \cup {Member("shared", 1, i) : i \in Items}
          \cup {Member("none", 0, NULL)}

=============================================================================
