------------------------------- MODULE MCHeap -------------------------------
(* A heap of a few chunks for Heap.                                          *)
EXTENDS Heap
=============================================================================
