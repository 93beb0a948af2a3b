--------------------------- MODULE ObjectAllocator ---------------------------
(***************************************************************************)
(* What callers of kmalloc and kfree may rely on, whatever the heap does   *)
(* inside: a live object is an address and the length that was asked for;  *)
(* objects come into being clear of every other live one and stay where    *)
(* they are until they are freed; when memory runs out the system stops.   *)
(***************************************************************************)
EXTENDS Integers

VARIABLES live,      \* the objects callers hold, [at, len]
          stopped    \* the allocator panicked

vars == <<live, stopped>>

Clear(o, p) == o.at + o.len < p.at \/ p.at + p.len < o.at

Init == live = {} /\ stopped = FALSE

Malloc == /\ ~stopped
          /\ \E o \in live' : /\ \A p \in live : Clear(o, p)
                              /\ live' = live \cup {o}
          /\ UNCHANGED stopped

Free == /\ ~stopped
        /\ \E o \in live : live' = live \ {o}
        /\ UNCHANGED stopped

Stop == ~stopped /\ stopped' = TRUE /\ UNCHANGED live

Next == Malloc \/ Free \/ Stop

Spec == Init /\ [][Next]_vars
=============================================================================
