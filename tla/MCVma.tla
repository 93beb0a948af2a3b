-------------------------------- MODULE MCVma --------------------------------
(* A page of two units, four pages above Base (three where only the cleanup  *)
(* is looked at), any address for munmap, and a framebuffer of two pages.    *)
EXTENDS Vma
PageAligned == {2, 4, 6, 8}
AnyAddress == 2..9
=============================================================================
