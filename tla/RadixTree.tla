----------------------------- MODULE RadixTree -----------------------------
(***************************************************************************)
(* The radix tree that holds the routes of one HTTP method (tree.go).      *)
(*                                                                         *)
(* A path is a sequence of bytes and a node a record that contains its     *)
(* children, so that addRoute, which works in place on its way down, is an *)
(* operator from a node to the node it becomes.  A route's handlers are    *)
(* represented by its pattern.  Registration is sequential and lookups do  *)
(* not write, so the state is the tree and what was registered.            *)
(***************************************************************************)
EXTENDS RoutePaths, FiniteSets

CONSTANTS
  Patterns,    \* what the program registers
  Paths,       \* what clients ask for
  MaxRoutes,   \* bound: registrations
  None         \* nil

VARIABLES
  root,      \* the tree
  routes,    \* the patterns given to addRoute so far, in order
  panicked   \* addRoute panicked: the program does not start

vars == <<root, routes, panicked>>

nodeStatic == "static"
nodeRoot == "root"
nodeParam == "param"
nodeCatchAll == "catchAll"

EmptyNode ==
  [path |-> <<>>, indices |-> <<>>, children |-> <<>>, handlers |-> None,
   paramName |-> <<>>, priority |-> 0, nType |-> nodeStatic,
   wildChild |-> FALSE]

-----------------------------------------------------------------------------
(* Registration.                                                           *)

\* The first wildcard of path: where it begins (0: there is none) and its
\* bytes up to the end of its segment.
findWildcard(path) ==
  LET starts == {i \in 1 .. Len(path) : path[i] \in Wild}
      idx == IF starts = {} THEN 0 ELSE Min(starts)
      rest == Drop(path, idx - 1)
      wildcard == IF idx = 0 THEN <<>> ELSE Take(rest, SegmentLength(rest))
  IN  [idx |-> idx, wildcard |-> wildcard,
       valid |-> \A i \in 2 .. Len(wildcard) : wildcard[i] \notin Wild]

\* The bytes from 0x80 on of the texts that are registered here, by their
\* hexadecimal names: those below 0xC0, and the others with the byte that is
\* 0x40 below them.
Continuations == {"82", "A9", "AC"}
Lead == [C3 |-> "83", E2 |-> "A2"]
HighBytes == Continuations \cup DOMAIN Lead

\* Go's string(b) of a byte is the UTF-8 encoding of the code point b: one byte
\* for ASCII and two for any other.
String(b) ==
  IF b \in Continuations THEN <<"C2", b>>
  ELSE IF b \in DOMAIN Lead THEN <<"C3", Lead[b]>>
  ELSE <<b>>

\* Where b is found among the indices of n, and whether the child of the first
\* such index does not exist, so that taking it is a panic of Go.
Indexed(n, b) == {i \in 1 .. Len(n.indices) : n.indices[i] = b}
OutOfRange(n, b) == Indexed(n, b) # {} /\ Min(Indexed(n, b)) > Len(n.children)

Grown(n) == [node |-> n, panic |-> FALSE]
Panics(n) == [node |-> n, panic |-> TRUE]

\* The loop of addRoute never ends.  As after a panic, the program does not start.
Hangs(n) == Panics(n)

\* insertChild: grow the tree from n along path.
RECURSIVE insertChild(_, _, _)
insertChild(n, path, h) ==
  LET w == findWildcard(path)
      name == Len(w.wildcard)
      rest == Drop(path, w.idx - 1 + name)
      prefixed == IF w.idx > 1 THEN [n EXCEPT !.path = Take(path, w.idx - 1)]
                  ELSE n
      param == [EmptyNode EXCEPT !.path = w.wildcard, !.nType = nodeParam,
                                 !.paramName = Tail(w.wildcard), !.priority = 1]
      below == insertChild([EmptyNode EXCEPT !.priority = 1], rest, h)
      catchAll == [EmptyNode EXCEPT !.path = Drop(path, w.idx - 2),
                                    !.nType = nodeCatchAll,
                                    !.paramName = Tail(w.wildcard),
                                    !.handlers = h, !.priority = 1]
      boundary == [EmptyNode EXCEPT !.wildChild = TRUE,
                                    !.nType = nodeCatchAll,
                                    !.children = <<catchAll>>]
  IN  CASE w.idx = 0 ->
             Grown([n EXCEPT !.path = path, !.handlers = h])
        [] w.idx # 0 /\ (~w.valid \/ name < 2) ->
             Panics(n)
        [] w.idx # 0 /\ w.valid /\ name >= 2 /\ w.wildcard[1] = ":" ->
             IF rest = <<>>
             THEN Grown([prefixed EXCEPT
                           !.children = <<[param EXCEPT !.handlers = h]>>,
                           !.wildChild = TRUE])
             ELSE [node |-> [prefixed EXCEPT
                               !.children = <<[param EXCEPT
                                                 !.children = <<below.node>>,
                                                 !.indices = String(rest[1])]>>,
                               !.wildChild = TRUE],
                   panic |-> below.panic]
        [] OTHER ->
             IF \/ rest # <<>>
                \/ n.path # <<>> /\ Last(n.path) = "/"
                \/ w.idx = 1
                \/ path[w.idx - 1] # "/"
             THEN Panics(n)
             ELSE Grown([n EXCEPT !.path = Take(path, w.idx - 2),
                                  !.indices = <<"/">>,
                                  !.children = <<boundary>>])

\* Move the element at pos to newPos, before the ones that were there.
Move(s, pos, newPos) ==
  Take(s, newPos - 1) \o <<s[pos]>> \o SubSeq(s, newPos, pos - 1) \o Drop(s, pos)

\* Mutant of incrementChildPriority: the children move, the indices do not.
incrementChildrenOnly(n, pos) ==
  LET prio == n.children[pos].priority + 1
      newPos == Min({p \in 1 .. pos : \A q \in p .. pos - 1 :
                                        n.children[q].priority < prio})
      cs == [n.children EXCEPT ![pos].priority = prio]
  IN  [node |-> [n EXCEPT !.children = Move(cs, pos, newPos)],
       pos |-> newPos]

\* incrementChildPriority: one more route goes through the child at pos,
\* which moves before its siblings of lower priority.
incrementChildPriority(n, pos) ==
  LET prio == n.children[pos].priority + 1
      newPos == Min({p \in 1 .. pos : \A q \in p .. pos - 1 :
                                        n.children[q].priority < prio})
      cs == [n.children EXCEPT ![pos].priority = prio]
  IN  [node |-> [n EXCEPT !.children = Move(cs, pos, newPos),
                          !.indices = Move(n.indices, pos, newPos)],
       pos |-> newPos]

\* Mutant of Split: the suffix forgets that its last child is a wildcard.
SplitLosesWildChild(n, i) ==
  LET child == [n EXCEPT !.path = Drop(n.path, i), !.priority = @ - 1,
                         !.nType = nodeStatic, !.wildChild = FALSE]
  IN  [n EXCEPT !.children = <<child>>, !.indices = String(n.path[i + 1]),
                !.path = Take(n.path, i), !.handlers = None,
                !.paramName = <<>>, !.wildChild = FALSE]

\* n keeps the first i bytes of its path; a new child takes over the rest.
Split(n, i) ==
  LET child == [n EXCEPT !.path = Drop(n.path, i), !.priority = @ - 1,
                         !.nType = nodeStatic]
  IN  [n EXCEPT !.children = <<child>>, !.indices = String(n.path[i + 1]),
                !.path = Take(n.path, i), !.handlers = None,
                !.paramName = <<>>, !.wildChild = FALSE]

\* What became of child i of n is put in its place.
WithChild(n, i, grown) ==
  [node |-> [n EXCEPT !.children[i] = grown.node], panic |-> grown.panic]

\* The existing wildcard child w can carry a route that goes on with path.
Compatible(w, path) ==
  /\ Len(path) >= Len(w.path)
  /\ w.path = Take(path, Len(w.path))
  /\ w.nType # nodeCatchAll
  /\ Len(w.path) >= Len(path) \/ path[Len(w.path) + 1] = "/"

\* Mutant of Attach: a second registration replaces the first.
AttachReplaces(n, h) == Grown([n EXCEPT !.handlers = h])

\* The path ends at n, which takes the handlers unless it has some.
Attach(n, h) ==
  IF n.handlers # None THEN Panics(n) ELSE Grown([n EXCEPT !.handlers = h])

\* The loop of addRoute, at a node whose priority has been raised.  A byte that
\* String turns into two, or a conflict, leaves a node with more indices than
\* children, and indexing panics.  Such a byte may also lead to a child that has
\* nothing in common with the path: it is split before its first byte and takes
\* the same index again, for ever.
RECURSIVE walk(_, _, _)
walk(n0, path0, h) ==
  LET i == longestCommonPrefix(path0, n0.path)
      n == IF i < Len(n0.path) THEN Split(n0, i) ELSE n0
      path == Drop(path0, i)
      c == path[1]
      static == Indexed(n, c)
      found == incrementChildPriority(n, Min(static))
      size == Len(n.children) + 1
      widened == [n EXCEPT !.indices = @ \o String(c),
                           !.children = Append(@, EmptyNode)]
      raised == incrementChildPriority(widened, Len(widened.indices))
      newPos == IF Len(widened.indices) = size THEN raised.pos ELSE size
      last == Len(n.children)
      descended == [n EXCEPT !.children[last].priority = @ + 1]
  IN  CASE path = <<>> ->
             Attach(n, h)
        [] path # <<>> /\ n.nType = nodeParam /\ c = "/" /\ last = 1 ->
             WithChild(n, 1, walk([n.children[1] EXCEPT !.priority = @ + 1],
                                  path, h))
        [] path # <<>> /\ n.nType # nodeParam /\ static # {} ->
             IF OutOfRange(n, c) THEN Panics(n)
             ELSE IF i = 0 /\ n0.path # <<>> /\ 1 \in static THEN Hangs(n)
             ELSE WithChild(found.node, found.pos,
                            walk(found.node.children[found.pos], path, h))
        [] OTHER ->
             IF c \notin Wild /\ n.nType # nodeCatchAll
             THEN IF Len(widened.indices) > size THEN Panics(widened)
                  ELSE WithChild(raised.node, newPos,
                         insertChild(raised.node.children[newPos], path, h))
             ELSE IF ~n.wildChild THEN insertChild(n, path, h)
             ELSE IF Compatible(descended.children[last], path)
             THEN WithChild(descended, last,
                            walk(descended.children[last], path, h))
             ELSE Panics(descended)

\* node.addRoute
addRoute(n0, path) ==
  LET n == [n0 EXCEPT !.priority = @ + 1]
      first == insertChild(n, path, path)
  IN  IF n.path = <<>> /\ n.children = <<>>
      THEN IF first.panic THEN first
           ELSE Grown([first.node EXCEPT !.nType = nodeRoot])
      ELSE walk(n, path, path)

-----------------------------------------------------------------------------
(* Lookup.                                                                 *)

Result(h, params, tsr) ==
  [handlers |-> h, params |-> params, tsr |-> tsr, panic |-> FALSE]
NotFound(params) == Result(None, params, FALSE)
Crashes(params) == [NotFound(params) EXCEPT !.panic = TRUE]

tsrForRedirect(n, path) ==
  /\ Len(path) + 1 = Len(n.path) /\ n.path[Len(path) + 1] = "/"
  /\ path = Take(n.path, Len(path)) /\ n.handlers # None

WildSlash(n, path) == path = <<"/">> /\ n.wildChild /\ n.nType # nodeRoot

\* Mutant of exactTsr: any child that begins with a slash will do.
exactTsrAnyChild(n, path) == WildSlash(n, path) \/ Indexed(n, "/") # {}

\* The path ends at n, which has no handlers: would a slash more help?
exactTsr(n, path) ==
  LET slash == Indexed(n, "/")
      child == n.children[Min(slash)]
  IN  \/ WildSlash(n, path)
      \/ /\ slash # {}
         /\ \/ Len(child.path) = 1 /\ child.handlers # None
            \/ child.nType = nodeCatchAll /\ child.children[1].handlers # None

\* The path ends inside the path of n.
shorterTsr(n, path) ==
  \/ path = <<"/">>
  \/ /\ Len(n.path) = Len(path) + 1 /\ n.path[Len(path) + 1] = "/"
     /\ path = Take(n.path, Len(path)) /\ n.handlers # None

\* A parameter without handlers ends the path; child is what follows it.
paramTsr(child) ==
  \/ child.path = <<"/">> /\ child.handlers # None
  \/ child.path = <<>> /\ child.indices = <<"/">>

\* node.getValue
RECURSIVE getValue(_, _, _)
getValue(n, path0, params) ==
  LET prefix == n.path
      path == Drop(path0, Len(prefix))
      static == Indexed(n, path[1])
      wild == Last(n.children)
      end == SegmentLength(path)
      captured == Append(params, [key |-> wild.paramName,
                                  value |-> Take(path, end)])
  IN  IF path0 = prefix
      THEN IF n.handlers # None THEN Result(n.handlers, params, FALSE)
           ELSE IF ~WildSlash(n, path0) /\ OutOfRange(n, "/")
           THEN Crashes(params)
           ELSE Result(None, params, exactTsr(n, path0))
      ELSE IF Len(path0) <= Len(prefix)
      THEN Result(None, params, shorterTsr(n, path0))
      ELSE IF Take(path0, Len(prefix)) # prefix
      THEN Result(None, params, tsrForRedirect(n, path0))
      ELSE IF ~n.wildChild
      THEN IF OutOfRange(n, path[1]) THEN Crashes(params)
           ELSE IF static # {}
           THEN getValue(n.children[Min(static)], path, params)
           ELSE Result(None, params, path = <<"/">> /\ n.handlers # None)
      ELSE IF wild.nType = nodeParam
      THEN IF end < Len(path)
           THEN IF wild.children # <<>>
                THEN getValue(wild.children[1], Drop(path, end), captured)
                ELSE Result(None, captured, Len(path) = end + 1)
           ELSE IF wild.handlers # None
           THEN Result(wild.handlers, captured, FALSE)
           ELSE Result(None, captured, /\ Len(wild.children) = 1
                                       /\ paramTsr(wild.children[1]))
      ELSE IF wild.nType = nodeCatchAll
      THEN Result(wild.handlers,
                  Append(params, [key |-> wild.paramName, value |-> path]),
                  FALSE)
      ELSE NotFound(params)

Lookup(path) == getValue(root, path, <<>>)

-----------------------------------------------------------------------------
Init ==
  /\ root = EmptyNode
  /\ routes = <<>>
  /\ panicked = FALSE

\* The program registers p.
AddRoute(p) ==
  LET grown == addRoute(root, p)
  IN  /\ ~panicked
      /\ Len(routes) < MaxRoutes
      /\ root' = grown.node
      /\ panicked' = grown.panic
      /\ routes' = Append(routes, p)

Next == \E p \in Patterns : AddRoute(p)

Spec == Init /\ [][Next]_vars

-----------------------------------------------------------------------------
(* What the tree should do, said without the tree.                         *)

\* The pattern breaks a rule of its own: an unnamed wildcard, two in one
\* segment, a catch-all that is not alone in the last segment.
Malformed(p) ==
  \E i \in 1 .. Len(p) : p[i] \in Wild /\
    LET seg == Take(Drop(p, i), SegmentLength(Drop(p, i)))
    IN  \/ seg = <<>>
        \/ Elements(seg) \cap Wild # {}
        \/ p[i] = "*" /\ (p[i - 1] # "/" \/ i + Len(seg) # Len(p))

NoConflicts ==
  \A i, j \in 1 .. Len(routes) : ~Conflict(routes[i], routes[j])

\* No two routes part at a byte that is not ASCII.  Where two do, String gives a
\* node more indices than children.
AsciiBranches ==
  \A i, j \in 1 .. Len(routes) :
    LET k == longestCommonPrefix(routes[i], routes[j])
    IN  k < Len(routes[i]) => routes[i][k + 1] \notin HighBytes

\* Registered(p): addRoute took p.
Registered == Elements(IF panicked THEN Take(routes, Len(routes) - 1) ELSE routes)

\* The values that p captures from path, or None when it does not match.  A
\* parameter takes what is left of a segment, which is not empty at the end
\* of the path; a catch-all takes the rest, the slash before it included.
RECURSIVE Captures(_, _)
Captures(p, path) ==
  LET name == SegmentLength(p)
      end == SegmentLength(path)
      more == Captures(Drop(p, name), Drop(path, end))
      next == Captures(Tail(p), Tail(path))
  IN  IF p = <<>> \/ path = <<>>
      THEN IF p = path THEN <<>> ELSE None
      ELSE IF Len(p) > 1 /\ p[2] = "*" /\ path[1] = "/"
      THEN <<[key |-> Drop(p, 2), value |-> path]>>
      ELSE IF p[1] = ":"
      THEN IF more = None THEN None
           ELSE <<[key |-> Tail(Take(p, name)), value |-> Take(path, end)]>>
                  \o more
      ELSE IF p[1] = path[1] THEN next ELSE None

\* What dispatch answers with a redirect.
Redirects(path) ==
  path # <<"/">> /\ Lookup(path).handlers = None /\ Lookup(path).tsr

\* The nodes of the tree under n, n included.
RECURSIVE Nodes(_)
Nodes(n) == {n} \cup UNION {Nodes(n.children[i]) : i \in 1 .. Len(n.children)}

RECURSIVE Count(_)
Count(n) ==
  LET sum[i \in 0 .. Len(n.children)] ==
        IF i = 0 THEN 0 ELSE sum[i - 1] + Count(n.children[i])
  IN  sum[Len(n.children)] + IF n.handlers = None THEN 0 ELSE 1

-----------------------------------------------------------------------------
(* Properties.                                                             *)

\* Whatever the order of registration, a lookup finds the one route whose
\* pattern matches, with what its parameters captured, and nothing when none
\* does, and it never indexes past the children of a node (getValue on what
\* addRoute built), as long as routes neither clash nor part at a byte that is
\* not ASCII.
LookupCorrect ==
  NoConflicts /\ AsciiBranches /\ ~panicked =>
    \A path \in Paths :
      LET res == Lookup(path)
          matching == {p \in Registered : Captures(p, path) # None}
      IN  /\ ~res.panic
          /\ IF matching = {} THEN res.handlers = None
             ELSE /\ matching = {res.handlers}
                  /\ res.params = Captures(res.handlers, path)

\* Registration fails exactly when the pattern is malformed or already there;
\* among patterns that neither clash nor part at a byte that is not ASCII it
\* never fails for another reason (addRoute).
PanicsOnlyOnError ==
  NoConflicts /\ AsciiBranches /\ routes # <<>> =>
    (panicked <=> Malformed(Last(routes))
                  \/ Last(routes) \in Elements(Take(routes, Len(routes) - 1)))

\* What the comment on node says: the index of a static child is its first
\* byte, a wildcard child comes last and has no index; and the tree is
\* priority-ordered, where the priority of a node is the number of routes
\* under it (the node above a catch-all, which addRoute never counts, apart).
\* The index is the first byte for ASCII only, hence the second premise.
TreeShape ==
  NoConflicts /\ AsciiBranches /\ ~panicked =>
    \A n \in Nodes(root) :
      LET cs == n.children
          statics == Len(cs) - IF n.wildChild THEN 1 ELSE 0
          First(c) == IF c.path = <<>> THEN "/" ELSE c.path[1]
      IN  /\ Len(n.indices) = statics
          /\ \A i \in 1 .. statics :
               n.indices[i] = First(cs[i]) /\ n.indices[i] \notin Wild
          /\ n.wildChild => cs[Len(cs)].nType \in {nodeParam, nodeCatchAll}
          /\ \A i, j \in 1 .. statics :
               i < j => cs[i].priority >= cs[j].priority
          /\ n.priority = IF n.nType = nodeCatchAll /\ n.wildChild THEN 0
                          ELSE Count(n)

\* A client that follows a trailing-slash redirect is not sent back to where
\* it came from (the tsr of getValue, which dispatch acts on), at whatever bytes
\* the routes part.
NoRedirectLoop ==
  NoConflicts /\ ~panicked =>
    \A path \in Paths :
      Toggle(Toggle(path)) = path /\ Redirects(path) => ~Redirects(Toggle(path))
=============================================================================
