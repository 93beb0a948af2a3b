------------------------------ MODULE MCProcess ------------------------------
(* Trees of four levels, as the hardware's.  Images with no segment; with an *)
(* empty one and one of code that crosses from one table into the next; with *)
(* one that begins inside a page and one that ends in cleared memory, in     *)
(* different tables; with code that begins inside a page and goes on in the  *)
(* next, and with cleared memory that does.                                  *)
EXTENDS Process
Seg(v, fs, ms, o) == [vaddr |-> v, filesz |-> fs, memsz |-> ms, offset |-> o]
MCImages == {<<>>,
             <<Seg(0, 0, 0, 0), Seg(2, 4, 4, 1)>>,
             <<Seg(2, 2, 4, 0)>>,
             <<Seg(1, 1, 1, 0), Seg(6, 1, 2, 3)>>,
             <<Seg(1, 2, 2, 0)>>,
             <<Seg(0, 2, 2, 0), Seg(4, 1, 3, 2)>>}
=============================================================================
