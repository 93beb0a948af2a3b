------------------------------- MODULE MCHeap -------------------------------
(* Requests of no bytes, one byte, the most and one more than a one-page     *)
(* block holds, and the largest that does not wrap a 14-bit size_t.          *)
EXTENDS Heap
MCRequests == {0, 1, 4064, 4065, MaxRequest}
=============================================================================
