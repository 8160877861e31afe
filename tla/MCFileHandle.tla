---------------------------- MODULE MCFileHandle ----------------------------
(***************************************************************************)
(* Small instances of FileHandle: the pool of two slots io_manager.h       *)
(* configures, and one more descriptor number than slots, so that one is   *)
(* always free for open(2).                                                *)
(***************************************************************************)
EXTENDS FileHandle, TLC

CONSTANTS d1, d2, d3, junk

MCFds == {d1, d2, d3, junk}
MCKernelFds == {d1, d2, d3}
Interchangeable == Permutations(MCKernelFds)
MCPages == 0 .. MaxPages - 1
MCZero == <<0, 0>>
MCContent ==
  (MCPages \cup {PAGE_LIST_END, PAGE_USED}) \X (Bodies \cup 0 .. MaxPages)
MCForceAll == {ALL_PAGES}
=============================================================================
