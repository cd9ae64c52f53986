--------------------------- MODULE MCKernelLocks ----------------------------
(* Two CPUs that allocate from a heap that may be full, for KernelLocks.     *)
EXTENDS KernelLocks

MCKmalloc == {"kmalloc"}
=============================================================================
