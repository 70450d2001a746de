---------------------------- MODULE MCWebSocket ----------------------------
(***************************************************************************)
(* An instance of WebSocket for TLC.                                       *)
(***************************************************************************)
EXTENDS WebSocket

\* The handler writes the shortest message whose length takes two bytes more,
\* the others the shortest one that takes eight; pongs and closes take none.
MCWriteSizes == [p \in Procs |-> IF p = Handler THEN {126} ELSE {65536}]
=============================================================================
