--------------------------- MODULE PageAllocator ---------------------------
(***************************************************************************)
(* What a physical page allocator promises its callers: a page is handed  *)
(* to one owner at a time, only an owner gives it back, and the allocator  *)
(* gives up only when every page it manages is owned.  Pmm (src/memory/    *)
(* pmm.c) is shown to implement this.                                      *)
(***************************************************************************)
CONSTANT Pages   \* the pages under management

VARIABLES owned,       \* the pages that callers hold
          outOfMemory  \* TRUE once the allocator has given up (kernel panic)

vars == <<owned, outOfMemory>>

TypeOK == owned \subseteq Pages /\ outOfMemory \in BOOLEAN

Init == owned = {} /\ outOfMemory = FALSE

Acquire == /\ ~outOfMemory
           /\ \E p \in Pages \ owned : owned' = owned \cup {p}
           /\ UNCHANGED outOfMemory

Release == /\ ~outOfMemory
           /\ \E p \in owned : owned' = owned \ {p}
           /\ UNCHANGED outOfMemory

GiveUp == /\ owned = Pages
          /\ outOfMemory' = TRUE
          /\ UNCHANGED owned

Next == Acquire \/ Release \/ GiveUp

Spec == Init /\ [][Next]_vars
=============================================================================
