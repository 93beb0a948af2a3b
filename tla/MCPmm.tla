------------------------------- MODULE MCPmm -------------------------------
(***************************************************************************)
(* A memory map with every shape pmm_fill distinguishes: an entry that     *)
(* straddles 1 MB, a reserved one, an unaligned one of two whole pages, one*)
(* too small to hold a page, one that starts unaligned and ends aligned,   *)
(* and one that follows a usable one directly.                             *)
(***************************************************************************)
EXTENDS Pmm

MCMemMap == <<
  [base |-> 1040384, length |-> 16384,  usable |-> TRUE],
  [base |-> 1056768, length |-> 8192,   usable |-> FALSE],
  [base |-> 1064961, length |-> 12390,  usable |-> TRUE],
  [base |-> 1077760, length |-> 4100,   usable |-> TRUE],
  [base |-> 1082000, length |-> 7536,   usable |-> TRUE],
  [base |-> 1089536, length |-> 4096,   usable |-> TRUE] >>
=============================================================================
