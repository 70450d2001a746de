----------------------------- MODULE RoutePaths -----------------------------
(***************************************************************************)
(* Paths and patterns as sequences of bytes, for the tree and the router:  *)
(* their parts, their other spelling, and which patterns clash.            *)
(***************************************************************************)
EXTENDS Integers, Sequences, FiniteSetsExt

Wild == {":", "*"}
Drop(s, n) == SubSeq(s, n + 1, Len(s))
Take(s, n) == SubSeq(s, 1, n)
Last(s) == s[Len(s)]

longestCommonPrefix(a, b) ==
  Max({i \in 0 .. Min({Len(a), Len(b)}) : Take(a, i) = Take(b, i)})

\* The length of the segment that s begins in.
SegmentLength(s) == Min({i \in 1 .. Len(s) : s[i] = "/"} \cup {Len(s) + 1}) - 1

\* The other spelling of a path.
Toggle(path) ==
  IF Len(path) > 1 /\ Last(path) = "/" THEN Take(path, Len(path) - 1)
  ELSE Append(path, "/")

Elements(s) == {s[i] : i \in 1 .. Len(s)}

\* The first i bytes of p end inside the name of a wildcard, or at its end.
InName(p, i) == \E j \in 1 .. i : p[j] \in Wild /\
                   \A k \in j .. i : p[k] # "/"

\* p asks for a wildcard where q asks for something else, or for a catch-all
\* where q ends with the slash before it.
Clashes(p, q) ==
  LET i == longestCommonPrefix(p, q)
  IN  /\ i < Len(p)
      /\ \/ i < Len(q) /\ p[i + 1] \in Wild
         \/ i = Len(q) /\ p[i + 1] = "*" /\ q[i] = "/"
         \/ InName(p, i) /\ p[i + 1] # "/"

Conflict(p, q) == Clashes(p, q) \/ Clashes(q, p)
=============================================================================
