----------------------------- MODULE MCDatabase -----------------------------
(***************************************************************************)
(* A small instance of Database: the pool of two slots io_manager.h        *)
(* configures, two names of tables, each with its index -1, two            *)
(* directories named ~.                                                    *)
(***************************************************************************)
EXTENDS Database, TLC

MCKernelFds == 0 .. 2
MCFds == 0 .. 3
MCPages == 0 .. MaxPages - 1
MCSchemas == {<<1>>}
MCZero == <<0, 0, 0>>
MCOldDbs == {<<2, n>> : n \in Names}
MCSymmetry == Permutations(Names)
MCJunk == {1, 2}
MCContent == {<<0, 0, 0>>} \cup ((MCPages \cup {PAGE_LIST_END, PAGE_USED}) \X (-1 .. MaxPages) \X (0 .. 1))
=============================================================================
