------------------------------- MODULE MCVmm --------------------------------
(* Two CPUs and ranges of a few pages for Vmm.                               *)
EXTENDS Vmm

MCSegment == {<<8, 2>>}
MCIdentityRange == {<<1, 3>>, <<2, 1>>}
MCPaddings == {<<1, 1>>}
=============================================================================
