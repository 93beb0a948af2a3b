------------------------------- MODULE MCFiles -------------------------------
(* Small files; the standard streams and directories hold nothing.            *)
EXTENDS Files, TLC
CONSTANTS TarSize, FbSize
MCExtent == [v \in Vnodes |-> IF v = Tar THEN TarSize ELSE IF v = Fb THEN FbSize ELSE 0]
MCSeeks == {-1, 3}
Processes == Permutations(Procs)
=============================================================================
