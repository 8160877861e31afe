--------------------------- MODULE MCBufferManager ---------------------------
(***************************************************************************)
(* Small instances of BufferManager: the pool of two slots io_manager.h    *)
(* configures, descriptors f1 and f2 that open(2) returns, and a number    *)
(* `junk' that only uninitialised memory carries.  Descriptors are only    *)
(* compared, so f1 and f2 are interchangeable.                             *)
(***************************************************************************)
EXTENDS BufferManager, TLC

CONSTANTS f1, f2, junk

MCFds == {f1, f2, junk}
MCKernelFds == {f1, f2}
Interchangeable == Permutations(MCKernelFds)

\* Uninitialised entries: pinned, unpinned or nonsense, dirty or not.
MCGarbage ==
  [fd: {junk}, page: {0}, pin: {-1, 0, 1}, dirty: BOOLEAN, data: {0}]

\* Zeroed heap memory.
MCZeroed ==
  [fd: {junk}, page: {0}, pin: {0}, dirty: {FALSE}, data: {0}]

\* The first page of each file is there, the second is not yet.
MCDisks == {[b \in Block |-> IF b[2] = 0 THEN 0 ELSE NoPage]}
=============================================================================
