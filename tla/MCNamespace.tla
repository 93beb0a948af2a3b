---------------------------- MODULE MCNamespace ----------------------------
(***************************************************************************)
(* Archives: an empty one, one as tar packs a directory, one with names    *)
(* that compete with the device directory, and one without the leading dot *)
(* that has an entry twice.                                                *)
(***************************************************************************)
EXTENDS Namespace
H(name, size) == [name |-> name, size |-> size]
MCArchives ==
  { <<>>,
    << H(<<".", "">>, 0), H(<<".", "bin", "">>, 0), H(<<".", "bin", "init">>, 2),
       H(<<".", "test.txt">>, 1) >>,
    << H(<<"dev">>, 1), H(<<"dev", "fb0">>, 2), H(<<"dev", "">>, 0) >>,
    << H(<<"bin", "init">>, 1), H(<<"bin", "init">>, 2), H(<<"test.txt">>, 0) >> }
Tails == { <<>>, <<"">>, <<"", "">> }
Bodies == { <<"dev">>, <<"dev", "fb0">>, <<"dev", "stdin">>, <<"dev", "none">>,
            <<"dev", "", "fb0">>, <<"dev", "stdin", "x">>, <<"bin">>,
            <<"bin", "init">>, <<"test.txt">>, <<".", "test.txt">>, <<"none">> }
Below == { <<"test.txt", "x">>, <<"dev", "fb0", "x">> }
Slashed(bodies) == {h \o b \o t : h \in Tails, b \in bodies, t \in Tails}
MCPaths == Slashed(Bodies) \cup { <<"">>, <<"", "">>, <<"", "", "">> }
MCPathsBelow == MCPaths \cup Slashed(Below)
=============================================================================
