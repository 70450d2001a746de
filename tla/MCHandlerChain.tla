--------------------------- MODULE MCHandlerChain ---------------------------
(***************************************************************************)
(* Instances of HandlerChain for TLC.                                      *)
(***************************************************************************)
EXTENDS HandlerChain, TLC

\* A lone handler: what matters here is what two requests share.
LoneHandler == {<<"plain">>}

\* Three handlers, with and without Recoverers around user middleware.
LongChains == {<<"plain", "plain", "plain">>,
               <<"recoverer", "plain", "plain">>,
               <<"plain", "recoverer", "plain">>}

Symmetry == Permutations(Requests) \cup Permutations(Contexts)
=============================================================================
