------------------------------ MODULE MCRouter ------------------------------
(***************************************************************************)
(* An instance of Router for TLC.                                          *)
(***************************************************************************)
EXTENDS Router

\* The tree of tree.go; its state is not used.
Radix == INSTANCE RadixTree WITH root <- None, routes <- <<>>

MCEmptyTree == Radix!EmptyNode

\* As a function, for TLC to have the values of n and p before it looks inside.
MCTreeAdd(n, p) ==
  LET added == [x \in {<<n, p>>} |-> Radix!addRoute(x[1], x[2])]
  IN  added[<<n, p>>]

MCTreeValue(n, path, params) == Radix!getValue(n, path, params)
MCMatches(p, path) == Radix!Captures(p, path) # None

\* Paths of the main router: with and without a slash, and a parameter.
MCPatterns ==
  {<<"/", "a">>, <<"/", "a", "/">>, <<"/", "b", "/", ":", "a">>}

\* The mounted router: its root, and paths that look like those of the main
\* router when the prefix is lost.
MCSubPatterns ==
  {<<"/">>, <<"/", "a">>, <<"/", "a", "/">>, <<"/", "m", "/", "a">>}

\* A prefix with and without a slash, and one that Mount refuses.
MCMountPrefixes == {<<"/", "m", "/">>, <<"/">>}

MCPaths ==
  {<<"/">>, <<"/", "a">>, <<"/", "a", "/">>, <<"/", "b">>,
   <<"/", "b", "/", "a">>, <<"/", "b", "/", "a", "/">>, <<"/", "m">>,
   <<"/", "m", "/">>, <<"/", "m", "/", "a">>, <<"/", "m", "/", "a", "/">>,
   <<"/", "m", "a">>, <<"/", "m", "/", "m", "/", "a", "/">>,
   <<"/", "b", "/">>, <<"/", "m", "a", "/">>, <<"/", "m", "/", "m", "/", "a">>,
   <<"/", "a", "/", "/">>}

\* The trees of router r, with up to n patterns.
MCTrees(r) ==
  LET built[n \in Nat] ==
        IF n = 0 THEN {Tree(r, None, {})}
        ELSE LET old == built[n - 1]
                 accepted == {x \in old \X Given(r) : ~Grow(x[1].node, x[2]).panic}
             IN  old \cup {Tree(r, Grow(x[1].node, x[2]).node,
                                x[1].patterns \cup {x[2]}) : x \in accepted}
  IN  built[Cardinality(Given(r))]

MCBuilt == UNION {MCTrees(r) : r \in Routers}
=============================================================================
