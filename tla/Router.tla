------------------------------- MODULE Router -------------------------------
(***************************************************************************)
(* The router: one radix tree per method, and what dispatch answers to a   *)
(* method and a path (router.go), with a second router mounted under a     *)
(* prefix of the first one (Mount in group.go).  The tree is a parameter,  *)
(* for which RadixTree is taken; a route's handlers are represented by its *)
(* pattern.  Setup is sequential and serving does not write, so the state  *)
(* is what was registered, and the properties speak of every request.      *)
(***************************************************************************)
EXTENDS RoutePaths, FiniteSets

CONSTANTS
  Methods,        \* methods the program registers
  Patterns,       \* patterns of the main router
  SubPatterns,    \* patterns of the router that is mounted
  MountPrefixes,  \* what the program passes to Mount
  Paths,          \* what clients ask for
  MaxRoutes,      \* bound: calls of Handle
  None,           \* nil
  EmptyTree,           \* a tree without routes
  TreeAdd(_, _),       \* node.addRoute: the tree with a pattern more, or a panic
  TreeValue(_, _, _),  \* node.getValue
  Matches(_, _),       \* a pattern matches a path
  Built                \* the trees that addRoute builds, each with its patterns

VARIABLES
  trees,       \* [router, method] -> tree, None before the first route
  maxParams,   \* Router.maxParams
  mounts,      \* the prefixes the sub router is mounted under
  registered,  \* [router, method] -> the patterns it was given
  calls,       \* calls of Handle
  panicked,    \* a call panicked: the program does not start
  opts         \* HandleHEAD, HandleOPTIONS, RedirectTrailingSlash

vars == <<trees, maxParams, mounts, registered, calls, panicked, opts>>

Routers == {"main", "sub"}

allMethods == {"GET", "POST", "PUT", "PATCH", "DELETE", "HEAD", "OPTIONS"}
AllMethods == Methods \cup allMethods

-----------------------------------------------------------------------------
(* Registration.                                                           *)

\* Mutant of countParams: catch-alls are not counted.
countColons(path) == Cardinality({i \in DOMAIN path : path[i] = ":"})

countParams(path) == Cardinality({i \in DOMAIN path : path[i] \in {":", "*"}})

\* The tree of a method, which exists from its first route on, takes p.
Grow(tree, p) == TreeAdd(IF tree = None THEN EmptyTree ELSE tree, p)

\* It takes one pattern, or the two of a mount.
GrowAll(tree, ps) ==
  LET first == Grow(tree, ps[1])
  IN  IF Len(ps) = 1 \/ first.panic THEN first ELSE Grow(first.node, ps[2])

\* Router.Handle(m, ps[i]) for each of the methods ms and patterns ps.
Register(r, ms, ps) ==
  LET grown == [m \in ms |-> GrowAll(trees[<<r, m>>], ps)]
      counts == {countParams(ps[i]) : i \in DOMAIN ps} \cup {maxParams[r]}
      mine == {r} \X ms
  IN  /\ panicked' = \E m \in ms : grown[m].panic
      /\ trees' = [k \in DOMAIN trees |->
                     IF k \in mine THEN grown[k[2]].node ELSE trees[k]]
      /\ maxParams' = [maxParams EXCEPT
                         ![r] = CHOOSE n \in counts : \A c \in counts : c <= n]
      /\ registered' = [k \in DOMAIN registered |->
                          registered[k] \cup
                            IF k \in mine THEN Elements(ps) ELSE {}]

\* Router.Handle.
Handle(r, m, p) ==
  /\ ~panicked /\ calls < MaxRoutes
  /\ Register(r, {m}, <<p>>)
  /\ calls' = calls + 1
  /\ UNCHANGED <<mounts, opts>>

TrimSuffix(p) ==
  IF p # <<>> /\ Last(p) = "/" THEN Take(p, Len(p) - 1) ELSE p

CatchAll == <<"/", "*", "p">>

\* Mutant of MountPatterns: the prefix itself is forgotten.
MountPatternsBelow(prefix) == <<prefix \o CatchAll>>

\* The two routes that delegate to what is mounted.
MountPatterns(prefix) == <<prefix, prefix \o CatchAll>>

\* Router.Mount of the sub router.
Mount(given) ==
  LET prefix == TrimSuffix(given)
  IN  /\ ~panicked
      /\ IF prefix = <<>> \/ prefix[1] # "/"
         THEN panicked' = TRUE /\ UNCHANGED <<trees, maxParams, registered, mounts>>
         ELSE /\ Register("main", allMethods, MountPatterns(prefix))
              /\ mounts' = mounts \cup {prefix}
      /\ UNCHANGED <<calls, opts>>

-----------------------------------------------------------------------------
(* Serving.                                                                *)

\* What the tree of a method says, if there is one.
Value(tree, path) ==
  IF tree = None THEN [handlers |-> None, params |-> <<>>, tsr |-> FALSE]
  ELSE TreeValue(tree, path, <<>>)

Lookup(r, m, path) == Value(trees[<<r, m>>], path)

Found(r, m, path) == Lookup(r, m, path).handlers # None

\* Mutant of Advertised: HEAD is advertised whether there is a GET or not.
AdvertisedAnyHead(methods) ==
  IF methods = {} THEN {}
  ELSE methods \cup (IF opts.HandleHEAD THEN {"HEAD"} ELSE {})
               \cup (IF opts.HandleOPTIONS THEN {"OPTIONS"} ELSE {})

\* What Allow says when the path has routes for these methods.
Advertised(methods) ==
  IF methods = {} THEN {}
  ELSE methods
       \cup (IF opts.HandleHEAD /\ "GET" \in methods THEN {"HEAD"} ELSE {})
       \cup (IF opts.HandleOPTIONS THEN {"OPTIONS"} ELSE {})

allowHeader(r, path) == Advertised({m \in AllMethods : Found(r, m, path)})

Answer(kind, r) ==
  [kind |-> kind, router |-> r, pattern |-> <<>>, body |-> TRUE, to |-> <<>>,
   allow |-> {}]

Route(r, pattern, body) ==
  [Answer("route", r) EXCEPT !.pattern = pattern, !.body = body]

Redirect(r, to) == [Answer("redirect", r) EXCEPT !.to = to]

\* The router answers OPTIONS by itself, or refuses the method.
Listing(r, m, allow) ==
  [Answer(IF m = "OPTIONS" /\ opts.HandleOPTIONS THEN "204" ELSE "405", r)
     EXCEPT !.allow = allow]

\* Mutant of AutoHead: only the root is answered.
AutoHeadRoot(m, path, get) ==
  m = "HEAD" /\ opts.HandleHEAD /\ path = <<"/">> /\ get.handlers # None

\* HEAD is answered by what the GET tree has found, without its body.
AutoHead(m, path, get) ==
  m = "HEAD" /\ opts.HandleHEAD /\ get.handlers # None

\* Mutant of Redirects: what is not found is tried with a slash more or less.
RedirectsAlways(path, res) == path # <<"/">> /\ opts.RedirectTrailingSlash

Redirects(path, res) ==
  path # <<"/">> /\ opts.RedirectTrailingSlash /\ res.tsr

\* The order of dispatch: what the method's own tree has found, res, what the
\* GET tree has, and what the other trees have.
Decide(r, m, path, res, get, allow) ==
  IF res.handlers # None THEN Route(r, res.handlers, TRUE)
  ELSE IF Redirects(path, res) THEN Redirect(r, Toggle(path))
  ELSE IF AutoHead(m, path, get) THEN Route(r, get.handlers, FALSE)
  ELSE IF allow = {} THEN Answer("404", r)
  ELSE Listing(r, m, allow)

\* Router.dispatch
dispatch(r, m, path) ==
  Decide(r, m, path, Lookup(r, m, path), Lookup(r, "GET", path),
         allowHeader(r, path))

\* path lies at or below prefix.
Below(prefix, path) ==
  /\ Len(prefix) <= Len(path) /\ Take(path, Len(prefix)) = prefix
  /\ Len(prefix) = Len(path) \/ path[Len(prefix) + 1] = "/"

\* The path the delegate passes on.
Stripped(prefix, path) ==
  IF path = prefix THEN <<"/">> ELSE Drop(path, Len(prefix))

\* The mounts whose delegate the answer d of the main router comes from.
Delegates(d) ==
  {prefix \in mounts :
     d.kind = "route" /\ d.pattern \in Elements(MountPatterns(prefix))}

Delegated(m, path, d, under) ==
  IF under = {} THEN d
  ELSE dispatch("sub", m, Stripped(CHOOSE prefix \in under : TRUE, path))

Forward(m, path, d) == Delegated(m, path, d, Delegates(d))

\* The main router, and behind a delegating route the mounted one.
Serve(m, path) == Forward(m, path, dispatch("main", m, path))

-----------------------------------------------------------------------------
(* What is assumed of the tree, and checked of RadixTree.                  *)

\* The prefixes that Mount takes.
Prefixes ==
  {prefix \in {TrimSuffix(given) : given \in MountPrefixes} :
     prefix # <<>> /\ prefix[1] = "/"}

\* The patterns that the trees of a router get.
Given(r) ==
  IF r = "sub" THEN SubPatterns
  ELSE Patterns \cup UNION {Elements(MountPatterns(prefix)) : prefix \in Prefixes}

\* A tree of router r and the patterns it was given.
Tree(r, node, patterns) == [router |-> r, node |-> node, patterns |-> patterns]

NoConflicts(patterns) == \A p, q \in patterns : ~Conflict(p, q)

\* Patterns and paths are bytes, and redirects lead to paths.
ASSUME PatternsAssumption ==
  /\ \A p \in Patterns \cup SubPatterns \cup MountPrefixes \cup Paths : p \in Seq(STRING)
  /\ \A path \in Paths \ {<<"/">>} : path # <<>> /\ Toggle(path) \in Paths

\* The tree finds nothing for a path and recommends its other spelling.
Astray(tree, path) ==
  path # <<"/">> /\ Value(tree, path).handlers = None /\ Value(tree, path).tsr

\* Built has all trees.  Without conflicts, a lookup finds the one pattern that
\* matches, captures no more than one of the patterns has wildcards, and does
\* not recommend the path that a redirect came from.  RadixTree does so for
\* patterns that part at bytes of ASCII.
ASSUME TreeAssumption ==
  /\ \A r \in Routers : Tree(r, None, {}) \in Built
  /\ \A b \in Built : \A p \in Given(b.router) :
       ~Grow(b.node, p).panic =>
         Tree(b.router, Grow(b.node, p).node, b.patterns \cup {p}) \in Built
  /\ \A b \in Built, path \in Paths :
       LET value == Value(b.node, path)
       IN  NoConflicts(b.patterns) =>
             /\ {p \in b.patterns : Matches(p, path)} =
                  IF value.handlers = None THEN {} ELSE {value.handlers}
             /\ \/ value.params = <<>>
                \/ \E p \in b.patterns :
                     Len(value.params) \in
                       0 .. Cardinality({i \in DOMAIN p : p[i] \in Wild})
             /\ Toggle(Toggle(path)) = path /\ Astray(b.node, path) =>
                  ~Astray(b.node, Toggle(path))

\* The prefixes of mounts have no wildcards and are more than a slash, and the
\* mounted router is asked what clients may ask.
ASSUME MountAssumption ==
  \A prefix \in Prefixes, path \in Paths :
    /\ Len(prefix) > 1
    /\ Matches(prefix, path) <=> path = prefix
    /\ Matches(prefix \o CatchAll, path) <=> Below(prefix, path) /\ path # prefix
    /\ Below(prefix, path) => Stripped(prefix, path) \in Paths

-----------------------------------------------------------------------------
Init ==
  /\ trees = [k \in Routers \X AllMethods |-> None]
  /\ maxParams = [r \in Routers |-> 0]
  /\ mounts = {}
  /\ registered = [k \in Routers \X AllMethods |-> {}]
  /\ calls = 0 /\ panicked = FALSE
  /\ opts \in [HandleHEAD : BOOLEAN, HandleOPTIONS : BOOLEAN,
               RedirectTrailingSlash : BOOLEAN]

Next ==
  \/ \E m \in Methods, p \in Patterns : Handle("main", m, p)
  \/ \E m \in Methods, p \in SubPatterns : Handle("sub", m, p)
  \/ \E prefix \in MountPrefixes : Mount(prefix)

Spec == Init /\ [][Next]_vars

-----------------------------------------------------------------------------
(* Properties.                                                             *)

\* The program starts, and its patterns do not clash.
Sound ==
  /\ ~panicked
  /\ \A k \in DOMAIN registered : NoConflicts(registered[k])

\* e, the answer to method n, is as the answer d to another method says.
Agrees(d, n, e) ==
  d.kind \in {"204", "405"} =>
    \/ e.kind = "redirect"
    \/ n \in d.allow <=> e.kind \in {"route", "204"}

\* A router that refuses a method, or answers OPTIONS by itself, lists exactly
\* the methods it would serve for this path, automatic HEAD and OPTIONS
\* included (allowHeader, dispatch).  A method whose own tree redirects the
\* path is not refused either.
AllowIsExact ==
  Sound =>
    \A r \in Routers, path \in Paths :
      \A answers \in {[m \in AllMethods |-> dispatch(r, m, path)]} :
        \A m, n \in AllMethods : Agrees(answers[m], n, answers[n])

SameButBody(get, head) ==
  get.kind = "route" =>
    \/ head.kind = "redirect"
    \/ /\ head.kind = "route" /\ head.body
       /\ head.pattern \in registered[<<head.router, "HEAD">>]
    \/ head = [get EXCEPT !.body = FALSE]

\* With HandleHEAD, a path that GET serves is served for HEAD too, through a
\* mount as well: by a HEAD route, or by the same handlers without a body.  Only
\* a redirect of the HEAD tree comes before that (dispatch).
HeadFollowsGet ==
  Sound /\ opts.HandleHEAD =>
    \A path \in Paths : SameButBody(Serve("GET", path), Serve("HEAD", path))

\* d is an answer of the main router, or what the mounted router says to the
\* rest of the path.
Transparent(m, path, d, over) ==
  IF over = {} THEN d.router = "main"
  ELSE \E prefix \in over :
         d = dispatch("sub", m, IF Len(path) = Len(prefix) THEN <<"/">>
                                ELSE Drop(path, Len(prefix)))

\* Requests at or below the prefix of a mount are answered as the mounted
\* router answers the rest of the path, whatever else is registered, and no
\* others are (Mount).
MountIsTransparent ==
  Sound =>
    \A path \in Paths, m \in allMethods :
      Transparent(m, path, Serve(m, path),
                  {prefix \in mounts : Below(prefix, path)})

\* What a client has after one step more.
Follow(m, d) == IF d.kind = "redirect" THEN Serve(m, d.to) ELSE d

\* A client that follows redirects gets another answer in the end.  A redirect
\* of the mounted router lacks the prefix of the mount, so that it may lead to
\* the next one, but each of these shortens the path (redirectTrailingSlash,
\* the tsr of getValue).
RedirectsEnd ==
  Sound =>
    \A path \in Paths, m \in AllMethods :
      LET hop[i \in 0 .. Len(path)] ==
            IF i = 0 THEN Serve(m, path) ELSE Follow(m, hop[i - 1])
      IN  hop[Len(path)].kind # "redirect"

\* No lookup, successful or not, captures more parameters than the Contexts of
\* the router have room for (maxParams).
ParamsFit ==
  Sound =>
    \A k \in DOMAIN trees, path \in Paths :
      Len(Lookup(k[1], k[2], path).params) <= maxParams[k[1]]
=============================================================================
