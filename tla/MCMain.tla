------------------------------- MODULE MCMain -------------------------------
(* Main for TLC: the state directory is /v/s; b is a file or a directory.    *)
EXTENDS Main, TLC

Parts == {"v", "s", "b", ".."}
Root == <<"v", "s">>
Default == <<"v", "s", "b">>
Durations == {1, 4}

Symmetry == Permutations(Name) \cup Permutations(Call)
=============================================================================
