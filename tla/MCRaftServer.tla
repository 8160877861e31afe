---------------------------- MODULE MCRaftServer ----------------------------
(***************************************************************************)
(* RaftServer with words of 4 bits, ints of 3 and chars of 2.  9 is the    *)
(* word that is newer than any int and becomes 1 when it is made one.      *)
(***************************************************************************)
EXTENDS RaftServer

MCJunk == {[index |-> 0, term |-> 0], [index |-> 1, term |-> 1], [index |-> 0, term |-> 2]}
=============================================================================
