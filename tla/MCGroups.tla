------------------------------ MODULE MCGroups ------------------------------
(***************************************************************************)
(* An instance of Groups for TLC.                                          *)
(***************************************************************************)
EXTENDS Groups, TLC

\* Group prefixes: the root, one with a slash at the end, one that is wrong.
MCPrefixes == {<<"/">>, <<"/", "a", "/">>, <<"a">>}

\* Route paths: nothing, and one with a slash at both ends.
MCSuffixes == {<<>>, <<"/", "b", "/">>}

\* Handlers are interchangeable.
Symmetry == Permutations(Handlers)
=============================================================================
