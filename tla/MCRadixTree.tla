---------------------------- MODULE MCRadixTree ----------------------------
(***************************************************************************)
(* Instances of RadixTree for TLC.                                         *)
(***************************************************************************)
EXTENDS RadixTree

\* Static routes that split one another, parameters with and without
\* something after them, catch-alls, and patterns that are malformed.
MCPatterns ==
  {<<"/">>,
   <<"/", "a">>,
   <<"/", "a", "/">>,
   <<"/", "a", "b">>,
   <<"/", "a", "/", "b">>,
   <<"/", "b", "/", ":", "a">>,
   <<"/", "b", "/", ":", "a", "/">>,
   <<"/", "b", "/", ":", "a", "/", "b">>,
   <<"/", "b", "/", ":", "a", "/", "b", "/", ":", "b">>,
   <<"/", "b", "a", "/", "*", "a">>,
   <<"/", "a", "/", "b", "/", "*", "b">>,
   <<"/", ":">>,
   <<"/", "b", "/", ":", "a", ":", "b">>,
   <<"/", "b", "a", "*", "a">>,
   <<"/", "*", "a", "/", "b">>}

\* Wildcards right below the root, some of which clash.
RootPatterns ==
  {<<"/">>,
   <<"/", ":", "a">>,
   <<"/", ":", "a", "b">>,
   <<"/", ":", "a", "/">>,
   <<"/", ":", "a", "/", "a">>,
   <<"/", ":", "a", "/", "a", "b">>,
   <<"/", ":", "a", "/", "a", "/", ":", "b">>,
   <<"/", ":", "a", "/", "b", "/", "*", "b">>,
   <<"/", "*", "a">>}

\* The UTF-8 of e acute and of the euro sign.
EAcute == <<"C3", "A9">>
Euro == <<"E2", "82", "AC">>

\* Texts that are not ASCII: two that part from others at such a byte, and two
\* that do not.
ForeignPatterns ==
  {<<"/">> \o EAcute,
   <<"/">> \o Euro,
   <<"/", "c">> \o EAcute,
   <<"/", "c">> \o EAcute \o <<"b">>}

\* All of them.
AllPatterns == MCPatterns \cup RootPatterns \cup ForeignPatterns

Letters == {"/", "a", "b"}
Words(n) == UNION {[1 .. k -> Letters] : k \in 0 .. n}

\* Every path of up to four bytes, longer ones below a parameter, texts that are
\* not ASCII, and the byte that the index of the euro sign ends with.
MCPaths ==
  {<<"/">> \o w : w \in Words(3)} \cup
  {<<"/", "b", "/", "a">> \o w : w \in Words(2)} \cup
  {<<"/", "b", "/", "a", "/", "b">> \o w : w \in Words(2)} \cup
  {<<"/", "a", "/", "b">> \o w : w \in Words(2)} \cup
  {t \o w : t \in {<<"/">> \o EAcute, <<"/">> \o Euro, <<"/", "A2">>,
                  <<"/", "c">>, <<"/", "c">> \o EAcute}, w \in Words(1)}
=============================================================================
