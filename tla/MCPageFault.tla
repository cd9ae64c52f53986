---------------------------- MODULE MCPageFault -----------------------------
(* Two CPUs, four identity mapped pages and stacks that can grow twice, for  *)
(* PageFault.                                                                *)
EXTENDS PageFault
=============================================================================
