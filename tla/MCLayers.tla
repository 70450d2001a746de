------------------------------ MODULE MCLayers ------------------------------
(***************************************************************************)
(* Instances of Layers for TLC.                                            *)
(***************************************************************************)
EXTENDS Layers

Middleware == {"logger", "recoverer", "compress", "cors", "guard", "std"}

\* Every three of them before a handler, every two around or behind a mount, and
\* the chain that the README of the repository recommends.
MCChains ==
  {<<a, b, c, "handler">> : a, b, c \in Middleware} \cup
  {<<a, "mount", b, "handler">> : a, b \in Middleware} \cup
  {<<a, b, "mount", "handler">> : a, b \in Middleware} \cup
  {<<"mount", a, b, "handler">> : a, b \in Middleware} \cup
  {<<"logger", "recoverer", "cors", "compress", "guard", "handler">>}

\* Compress and a handler that returns an error.
CompressedChain == {<<"compress", "handler">>}

\* net/http middleware that wraps the ResponseWriter it gets.
WrappedChain == {<<"wrapper", "handler">>}
=============================================================================
