------------------------------ MODULE MCSched ------------------------------
(* The contexts of the shipped kernel, two register values, two FS bases.   *)
EXTENDS Sched
=============================================================================
