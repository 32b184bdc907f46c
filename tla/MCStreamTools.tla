---------------------------- MODULE MCStreamTools ----------------------------
(* An instance of StreamTools for TLC.                                      *)
EXTENDS StreamTools

\* Two edges, one of them in both orders, and a loop.
Pairs == {<<0, 1>>, <<1, 0>>, <<0, 2>>, <<1, 1>>}
AsciiStreams == UNION {[1..n -> Pairs] : n \in 1..NumEdges}

\* Legal updates, one with a node that does not exist and one of no type.
Updates == {<<0, 0, 1>>, <<1, 0, 2>>, <<0, 1, NumNodes>>, <<2, 0, 1>>}
ForeignFiles == UNION {[1..n -> Updates] : n \in 0..NumEdges}
=============================================================================
