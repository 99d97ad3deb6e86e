------------------------------- MODULE MCHeap -------------------------------
(* The heap on a few bytes: headers of two bytes, a heap of a few regions. *)
EXTENDS HeapLevels
=============================================================================
