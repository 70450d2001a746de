------------------------------- MODULE Groups -------------------------------
(***************************************************************************)
(* Which handlers and which path a route gets: Router.Use, Group, Handle   *)
(* and the same on a RouteGroup (router.go, group.go).                     *)
(*                                                                         *)
(* Middleware is kept in Go slices.  A slice is an array of the heap and a *)
(* length; append writes into the array while there is room behind the     *)
(* length, whoever else uses that array, and moves to a new array when     *)
(* there is none.  A variadic call hands over the caller's own array.  The *)
(* program is setup code in one goroutine that calls the API in any order. *)
(***************************************************************************)
EXTENDS Integers, Sequences

CONSTANTS
  Handlers,    \* handler functions, middleware or not
  Prefixes,    \* what the program passes to Group
  Suffixes,    \* what it passes to Handle
  MaxSpare,    \* bound: room append leaves in a new array
  MaxLen,      \* bound: length of the slices the program grows
  MaxGroups,   \* bound: groups
  MaxRoutes,   \* bound: routes
  MaxArrays,   \* bound: arrays
  None         \* a cell nobody has written

Bytes == {"/", "a", "b"}

ASSUME GroupsAssumption ==
  /\ Prefixes \subseteq Seq(Bytes) /\ Suffixes \subseteq Seq(Bytes)
  /\ MaxSpare \in Nat /\ MaxLen \in Nat /\ MaxGroups \in Nat
  /\ MaxRoutes \in Nat /\ MaxArrays \in Nat
  /\ None \notin Handlers

VARIABLES
  heap,        \* the arrays: sequences of cells, as long as their capacity
  middleware,  \* Router.middleware, a slice
  groups,      \* the RouteGroups
  routes,      \* the registered routes, with their composed chains
  own,         \* a slice of the program
  lent,        \* the arrays the program has handed over to a group
  panicked,    \* a call panicked: the program does not start
  used         \* history: what Router.Use was called with

vars == <<heap, middleware, groups, routes, own, lent, panicked, used>>

-----------------------------------------------------------------------------
(* Slices.                                                                 *)

nil == [array |-> 0, len |-> 0]

Contents(h, s) == [i \in 1 .. s.len |-> h[s.array][i]]

HasRoom(h, s, n) == s.array # 0 /\ s.len + n <= Len(h[s.array])

\* A new array that holds ms and nothing else.
Fresh(h, ms) ==
  IF ms = <<>> THEN [heap |-> h, slice |-> nil]
  ELSE [heap |-> Append(h, ms),
        slice |-> [array |-> Len(h) + 1, len |-> Len(ms)]]

\* append(s, ms...), leaving room for spare more when it has to move.
append(h, s, ms, spare) ==
  LET need == s.len + Len(ms)
      moved == [i \in 1 .. need + spare |->
                  IF i <= s.len THEN h[s.array][i]
                  ELSE IF i <= need THEN ms[i - s.len] ELSE None]
  IN  IF ms = <<>> THEN [heap |-> h, slice |-> s]
      ELSE IF HasRoom(h, s, Len(ms))
      THEN [heap |-> [h EXCEPT ![s.array] =
                        [i \in DOMAIN @ |-> IF i \in s.len + 1 .. need
                                            THEN ms[i - s.len] ELSE @[i]]],
            slice |-> [s EXCEPT !.len = need]]
      ELSE [heap |-> Append(h, moved),
            slice |-> [array |-> Len(h) + 1, len |-> need]]

\* The arguments of a variadic call: none, one, or the program's own slice.
Variadic == {<<>>} \cup {<<m>> : m \in Handlers}

-----------------------------------------------------------------------------
(* Paths.                                                                  *)

TrimSuffix(p) ==
  IF p # <<>> /\ p[Len(p)] = "/" THEN SubSeq(p, 1, Len(p) - 1) ELSE p
TrimPrefix(p) == IF p # <<>> /\ p[1] = "/" THEN Tail(p) ELSE p

Rooted(p) == p # <<>> /\ p[1] = "/"

joinPaths(prefix, path) ==
  IF path \in {<<>>, <<"/">>} THEN IF prefix = <<>> THEN <<"/">> ELSE prefix
  ELSE TrimSuffix(prefix) \o <<"/">> \o TrimPrefix(path)

-----------------------------------------------------------------------------
(* Operations.                                                             *)

Setup == ~panicked /\ Len(heap) < MaxArrays

\* Router.Use
Use(ms, spare) ==
  LET a == append(heap, middleware, ms, spare)
  IN  /\ Setup /\ middleware.len < MaxLen
      /\ heap' = a.heap /\ middleware' = a.slice
      /\ used' = used \o ms
      /\ UNCHANGED <<groups, routes, own, lent, panicked>>

\* A call that ends in one of the panics for programming errors.
Panic ==
  /\ panicked' = TRUE
  /\ UNCHANGED <<heap, middleware, groups, routes, own, lent, used>>

NewGroup(prefix, slice, declared, segments) ==
  groups' = Append(groups, [prefix |-> prefix, middleware |-> slice,
                            declared |-> declared, segments |-> segments])

\* Router.Group with middleware listed in the call.
Group(prefix, ms) ==
  LET f == Fresh(heap, ms)
  IN  /\ Setup /\ Len(groups) < MaxGroups
      /\ IF ~Rooted(prefix) THEN Panic
         ELSE /\ heap' = f.heap
              /\ NewGroup(TrimSuffix(prefix), f.slice, ms, <<prefix>>)
              /\ UNCHANGED <<middleware, routes, own, lent, panicked, used>>

\* Router.Group(prefix, own...), which keeps the program's slice.  The program
\* is one that hands over slices without spare room, such as literals.
GroupFromOwn(prefix) ==
  /\ Setup /\ Len(groups) < MaxGroups
  /\ own # nil /\ ~HasRoom(heap, own, 1)
  /\ IF ~Rooted(prefix) THEN Panic
     ELSE /\ NewGroup(TrimSuffix(prefix), own, Contents(heap, own), <<prefix>>)
          /\ lent' = lent \cup {own.array}
          /\ UNCHANGED <<heap, middleware, routes, own, panicked, used>>

\* Mutant of Inherit: the parent's slice is appended to.
InheritInPlace(g, ms) == append(heap, g.middleware, ms, 0)

\* The middleware of a nested group, in an array of its own.
Inherit(g, ms) == Fresh(heap, Contents(heap, g.middleware) \o ms)

\* RouteGroup.Group
SubGroup(g, prefix, ms) ==
  LET f == Inherit(groups[g], ms)
  IN  /\ Setup /\ Len(groups) < MaxGroups
      /\ IF ~Rooted(prefix) THEN Panic
         ELSE /\ heap' = f.heap
              /\ NewGroup(groups[g].prefix \o TrimSuffix(prefix), f.slice,
                          groups[g].declared \o ms,
                          Append(groups[g].segments, prefix))
              /\ UNCHANGED <<middleware, routes, own, lent, panicked, used>>

\* RouteGroup.Use
GroupUse(g, ms, spare) ==
  LET a == append(heap, groups[g].middleware, ms, spare)
  IN  /\ Setup /\ groups[g].middleware.len < MaxLen
      /\ heap' = a.heap
      /\ groups' = [groups EXCEPT ![g].middleware = a.slice,
                                  ![g].declared = @ \o ms]
      /\ UNCHANGED <<middleware, routes, own, lent, panicked, used>>

\* Mutant of compose: the chain is appended to the global middleware.
composeInPlace(hs) == append(heap, middleware, hs, 0)

\* compose: the global middleware and hs in an array of their own.
compose(hs) == Fresh(heap, Contents(heap, middleware) \o hs)

\* Router.Handle, which panics without handlers or a slash in front.  What
\* was declared and the segments are for the properties.
RouterHandle(path, hs, declared, segments) ==
  LET f == compose(hs)
  IN  /\ Setup /\ Len(routes) < MaxRoutes
      /\ IF ~Rooted(path) \/ hs = <<>> THEN Panic
         ELSE /\ heap' = f.heap
              /\ routes' = Append(routes, [path |-> path, chain |-> f.slice,
                                           declared |-> used \o declared,
                                           segments |-> segments])
              /\ UNCHANGED <<middleware, groups, own, lent, panicked, used>>

Handle(path, hs) == RouterHandle(path, hs, hs, <<path>>)

\* RouteGroup.Handle
GroupHandle(g, path, hs) ==
  LET group == groups[g]
  IN  RouterHandle(joinPaths(group.prefix, path),
                   Contents(heap, group.middleware) \o hs,
                   group.declared \o hs, Append(group.segments, path))

\* The program appends to its own slice,
OwnAppend(m, spare) ==
  LET a == append(heap, own, <<m>>, spare)
  IN  /\ Setup /\ own.len < MaxLen
      /\ heap' = a.heap /\ own' = a.slice
      /\ UNCHANGED <<middleware, groups, routes, lent, panicked, used>>

\* or changes an element of it, though not after handing it to a group.
OwnSet(i, m) ==
  /\ ~panicked
  /\ own.array \notin lent
  /\ heap' = [heap EXCEPT ![own.array][i] = m]
  /\ UNCHANGED <<middleware, groups, routes, own, lent, panicked, used>>

-----------------------------------------------------------------------------
Init ==
  /\ heap = <<>> /\ middleware = nil /\ own = nil
  /\ groups = <<>> /\ routes = <<>>
  /\ lent = {} /\ panicked = FALSE /\ used = <<>>

OnRouter ==
  \/ \E ms \in Variadic, spare \in 0 .. MaxSpare : Use(ms, spare)
  \/ \E prefix \in Prefixes, ms \in Variadic : Group(prefix, ms)
  \/ \E prefix \in Prefixes : GroupFromOwn(prefix)
  \/ \E path \in Suffixes, hs \in Variadic \cup {Contents(heap, own)} :
       Handle(path, hs)

OnGroup(g) ==
  \/ \E prefix \in Prefixes, ms \in Variadic : SubGroup(g, prefix, ms)
  \/ \E ms \in Variadic, spare \in 0 .. MaxSpare : GroupUse(g, ms, spare)
  \/ \E path \in Suffixes, hs \in Variadic : GroupHandle(g, path, hs)

OnOwn ==
  \/ \E m \in Handlers, spare \in 0 .. MaxSpare : OwnAppend(m, spare)
  \/ \E i \in 1 .. own.len, m \in Handlers : OwnSet(i, m)

Next == OnRouter \/ (\E g \in DOMAIN groups : OnGroup(g)) \/ OnOwn

Spec == Init /\ [][Next]_vars

-----------------------------------------------------------------------------
(* Properties.                                                             *)

Slice == [array : Nat, len : Nat]

\* s lies within an array of the heap h.
IsSlice(h, s) ==
  /\ s \in Slice
  /\ s.array \in 0 .. Len(h)
  /\ IF s.array = 0 THEN s.len = 0 ELSE s.len <= Len(h[s.array])

Path == Seq(Bytes)

RouteGroup == [prefix : Path, middleware : Slice, declared : Seq(Handlers),
               segments : Seq(Path)]
Registered == [path : Path, chain : Slice, declared : Seq(Handlers),
               segments : Seq(Path)]

\* Slices lie within their arrays, and lists have their types.
TypeOK ==
  /\ heap \in Seq(Seq(Handlers \cup {None}))
  /\ IsSlice(heap, middleware) /\ IsSlice(heap, own)
  /\ groups \in Seq(RouteGroup) /\ routes \in Seq(Registered)
  /\ \A g \in DOMAIN groups : IsSlice(heap, groups[g].middleware)
  /\ \A r \in DOMAIN routes : IsSlice(heap, routes[r].chain)
  /\ lent \subseteq 1 .. Len(heap)
  /\ panicked \in BOOLEAN /\ used \in Seq(Handlers)

\* The router and every group have exactly the middleware they were given, in
\* order, whatever was appended to the slices of other groups, of the router
\* and of the program (RouteGroup.Use and Group).
MiddlewareAsDeclared ==
  /\ Contents(heap, middleware) = used
  /\ \A g \in DOMAIN groups :
       Contents(heap, groups[g].middleware) = groups[g].declared

\* A route keeps for ever the chain it was registered with: the global
\* middleware of that moment, the group's, and its handlers (compose).
ChainsAsDeclared ==
  \A r \in DOMAIN routes :
    Contents(heap, routes[r].chain) = routes[r].declared

\* The path without the slashes at its ends.
Core(p) == TrimPrefix(TrimSuffix(p))

\* The paths in parts, with one slash before each of them.
Joined(parts) ==
  LET join[i \in 0 .. Len(parts)] ==
        IF i = 0 THEN <<>>
        ELSE IF Core(parts[i]) = <<>> THEN join[i - 1]
        ELSE join[i - 1] \o <<"/">> \o Core(parts[i])
  IN  join[Len(parts)]

\* What a trailing slash of p adds.
Slash(p) == IF Core(p) # <<>> /\ p[Len(p)] = "/" THEN <<"/">> ELSE <<>>

\* p has no empty segments.
Single(p) == \A i \in 1 .. Len(p) - 1 : p[i] = "/" => p[i + 1] # "/"

\* A route's path is that of its groups and its own, one slash between each
\* two of them and a trailing one only where its own path has it, as long as
\* the program passes no empty segments, which stay what they are (joinPaths).
PathsAsDeclared ==
  (\A p \in Prefixes \cup Suffixes : Single(p)) =>
    \A r \in DOMAIN routes :
      LET parts == routes[r].segments
      IN  routes[r].path = IF Joined(parts) = <<>> THEN <<"/">>
                           ELSE Joined(parts) \o Slash(parts[Len(parts)])

\* Routes have the chain and the path they were registered with, whatever the
\* program did before and does afterwards (Handle, compose, joinPaths).
RoutesAsDeclared == ChainsAsDeclared /\ PathsAsDeclared
=============================================================================
