---------------------------- MODULE RouterProofs ----------------------------
(***************************************************************************)
(* Proofs about Router, for any methods, patterns, mounts and paths, and   *)
(* for any tree that looks up correctly what it was given.                 *)
(***************************************************************************)
EXTENDS Router, Induction, FiniteSetTheorems, SequenceTheorems

-----------------------------------------------------------------------------
(* What dispatch answers.                                                  *)

\* The cases of dispatch, in their order.
LEMMA Decisions ==
  ASSUME NEW r, NEW m, NEW path
  PROVE  LET own == Lookup(r, m, path)
             get == Lookup(r, "GET", path)
         IN  dispatch(r, m, path) =
               IF Found(r, m, path) THEN Route(r, own.handlers, TRUE)
               ELSE IF Redirects(path, own) THEN Redirect(r, Toggle(path))
               ELSE IF AutoHead(m, path, get) THEN Route(r, get.handlers, FALSE)
               ELSE IF allowHeader(r, path) = {} THEN Answer("404", r)
               ELSE Listing(r, m, allowHeader(r, path))
BY DEF dispatch, Decide, Found

\* The fields of the answers that are no routes.
LEMMA AnswerFields ==
  ASSUME NEW r
  PROVE  /\ \A kind : Answer(kind, r).kind = kind /\ Answer(kind, r).router = r
         /\ \A m, a : /\ Listing(r, m, a).router = r /\ Listing(r, m, a).allow = a
                      /\ Listing(r, m, a).kind =
                           IF m = "OPTIONS" /\ opts.HandleOPTIONS THEN "204" ELSE "405"
         /\ \A to : Redirect(r, to).kind = "redirect" /\ Redirect(r, to).router = r
BY DEF Answer, Redirect, Listing

\* The kind of an answer, and the methods it lists.
LEMMA DispatchKinds ==
  ASSUME NEW r, NEW m, NEW path
  PROVE  LET d == dispatch(r, m, path)
             allow == allowHeader(r, path)
         IN  /\ d.router = r
             /\ d.kind = IF Found(r, m, path) THEN "route"
                         ELSE IF Redirects(path, Lookup(r, m, path)) THEN "redirect"
                         ELSE IF AutoHead(m, path, Lookup(r, "GET", path)) THEN "route"
                         ELSE IF allow = {} THEN "404"
                         ELSE IF m = "OPTIONS" /\ opts.HandleOPTIONS THEN "204"
                         ELSE "405"
             /\ d.kind \in {"204", "405"} => d.allow = allow /\ allow # {}
<1>1. CASE Found(r, m, path)
  <2>1. dispatch(r, m, path) = Route(r, Lookup(r, m, path).handlers, TRUE)
    BY <1>1, Decisions
  <2>2. dispatch(r, m, path).kind = "route" /\ dispatch(r, m, path).router = r
    BY <2>1 DEF Route, Answer
  <2> QED
    BY <1>1, <2>2
<1>2. CASE ~Found(r, m, path) /\ Redirects(path, Lookup(r, m, path))
  <2>1. dispatch(r, m, path) = Redirect(r, Toggle(path))
    BY <1>2, Decisions
  <2>2. dispatch(r, m, path).kind = "redirect" /\ dispatch(r, m, path).router = r
    BY <2>1, AnswerFields
  <2> QED
    BY <1>2, <2>2
<1>3. CASE /\ ~Found(r, m, path) /\ ~Redirects(path, Lookup(r, m, path))
           /\ AutoHead(m, path, Lookup(r, "GET", path))
  <2>1. dispatch(r, m, path) = Route(r, Lookup(r, "GET", path).handlers, FALSE)
    BY <1>3, Decisions
  <2>2. dispatch(r, m, path).kind = "route" /\ dispatch(r, m, path).router = r
    BY <2>1 DEF Route, Answer
  <2> QED
    BY <1>3, <2>2
<1>4. CASE /\ ~Found(r, m, path) /\ ~Redirects(path, Lookup(r, m, path))
           /\ ~AutoHead(m, path, Lookup(r, "GET", path))
  <2>1. dispatch(r, m, path) = IF allowHeader(r, path) = {} THEN Answer("404", r)
                               ELSE Listing(r, m, allowHeader(r, path))
    BY <1>4, Decisions
  <2>2. CASE allowHeader(r, path) = {}
    <3>1. dispatch(r, m, path).kind = "404" /\ dispatch(r, m, path).router = r
      BY <2>1, <2>2, AnswerFields
    <3> QED
      BY <1>4, <2>2, <3>1
  <2>3. CASE allowHeader(r, path) # {}
    <3>1. /\ dispatch(r, m, path).router = r
          /\ dispatch(r, m, path).allow = allowHeader(r, path)
          /\ dispatch(r, m, path).kind =
               IF m = "OPTIONS" /\ opts.HandleOPTIONS THEN "204" ELSE "405"
      BY <2>1, <2>3, AnswerFields
    <3> QED
      BY <1>4, <2>3, <3>1
  <2> QED
    BY <2>2, <2>3
<1> QED
  BY <1>1, <1>2, <1>3, <1>4

\* allowHeader lists a method iff the router would serve it.
LEMMA AllowListsServed ==
  ASSUME NEW r, NEW path, NEW m \in AllMethods, NEW n \in AllMethods
  PROVE  Agrees(dispatch(r, m, path), n, dispatch(r, n, path))
<1> DEFINE d == dispatch(r, m, path)
           e == dispatch(r, n, path)
           methods == {q \in AllMethods : Found(r, q, path)}
           allow == allowHeader(r, path)
<1> SUFFICES ASSUME d.kind \in {"204", "405"}, e.kind # "redirect"
             PROVE  n \in d.allow <=> e.kind \in {"route", "204"}
  BY DEF Agrees
<1>1. d.allow = allow /\ allow # {}
  BY DispatchKinds
<1>2. e.kind = IF Found(r, n, path) THEN "route"
               ELSE IF Redirects(path, Lookup(r, n, path)) THEN "redirect"
               ELSE IF AutoHead(n, path, Lookup(r, "GET", path)) THEN "route"
               ELSE IF allow = {} THEN "404"
               ELSE IF n = "OPTIONS" /\ opts.HandleOPTIONS THEN "204"
               ELSE "405"
  BY DispatchKinds
<1> HIDE DEF d, e
<1>3. methods # {} /\ (\A q : q \in allow <=>
        \/ q \in methods \/ (q = "HEAD" /\ opts.HandleHEAD /\ "GET" \in methods)
        \/ (q = "OPTIONS" /\ opts.HandleOPTIONS))
  BY <1>1 DEF allowHeader, Advertised
<1>4. "GET" \in methods <=> Lookup(r, "GET", path).handlers # None
  BY DEF AllMethods, allMethods, Found
<1>5. n \in methods <=> Found(r, n, path)
  OBVIOUS
<1>6. AutoHead(n, path, Lookup(r, "GET", path)) <=>
        n = "HEAD" /\ opts.HandleHEAD /\ "GET" \in methods
  BY <1>4 DEF AutoHead
<1> HIDE DEF methods, allow
<1> QED
  BY <1>1, <1>2, <1>3, <1>5, <1>6

\* Allow is exact for any trees, whatever they find.
LEMMA AllowExact == AllowIsExact
BY AllowListsServed DEF AllowIsExact

\* A router that refuses a method, or answers OPTIONS by itself, lists exactly
\* the methods it would serve for this path, automatic HEAD and OPTIONS
\* included (allowHeader, dispatch).
THEOREM AllowHeaderIsExact == Spec => []AllowIsExact
BY AllowExact, PTL

-----------------------------------------------------------------------------
(* What was registered.                                                    *)

Keys == Routers \X AllMethods

Types ==
  /\ DOMAIN trees = Keys /\ DOMAIN registered = Keys
  /\ maxParams \in [Routers -> Nat] /\ mounts \subseteq Prefixes
  /\ panicked \in BOOLEAN

\* The trees have been built from what was registered.
Represented ==
  ~panicked => \A k \in Keys : Tree(k[1], trees[k], registered[k]) \in Built

\* A Context has room for the parameters of every pattern.
Counted ==
  \A k \in Keys : \A p \in registered[k] : countParams(p) \in 0 .. maxParams[k[1]]

\* The trees of the main router delegate to what is mounted.
Mounted ==
  ~panicked => \A prefix \in mounts, m \in allMethods :
                 Elements(MountPatterns(prefix)) \subseteq registered[<<"main", m>>]

Registration == Types /\ Represented /\ Counted /\ Mounted

\* Patterns of mounts, and the patterns of a sequence of one or two.
LEMMA ElementsFew ==
  /\ \A ps : Len(ps) = 1 => Elements(ps) = {ps[1]}
  /\ \A ps : Len(ps) = 2 => Elements(ps) = {ps[1], ps[2]}
BY DEF Elements

\* MountPatterns has the prefix and what is below it.
LEMMA MountElements ==
  ASSUME NEW prefix
  PROVE  /\ Len(MountPatterns(prefix)) = 2
         /\ Elements(MountPatterns(prefix)) = {prefix, prefix \o CatchAll}
<1>1. /\ Len(MountPatterns(prefix)) = 2 /\ MountPatterns(prefix)[1] = prefix
      /\ MountPatterns(prefix)[2] = prefix \o CatchAll
  BY DEF MountPatterns
<1> QED
  BY <1>1, ElementsFew

Bytes == STRING \cup {"/", "*", "p"}

\* What the assumption says of sequences of bytes.
LEMMA BytesType ==
  ASSUME NEW p \in Patterns \cup SubPatterns \cup MountPrefixes \cup Paths
  PROVE  p \in Seq(Bytes)
<1>1. p \in Seq(STRING)
  BY PatternsAssumption
<1>2. STRING \subseteq Bytes
  BY DEF Bytes
<1> QED
  BY <1>1, <1>2, SeqMonotonic

\* The prefix of a mount is a sequence of bytes.
LEMMA PrefixType ==
  ASSUME NEW prefix \in Prefixes
  PROVE  prefix \in Seq(Bytes) /\ prefix \o CatchAll \in Seq(Bytes)
<1>1. PICK given \in MountPrefixes : prefix = TrimSuffix(given)
  BY DEF Prefixes
<1>2. given \in Seq(Bytes)
  BY BytesType
<1>3. prefix \in Seq(Bytes)
  <2>1. CASE prefix = given
    BY <1>2, <2>1
  <2>2. CASE given # <<>> /\ prefix = SubSeq(given, 1, Len(given) - 1)
    <3>1. Len(given) \in Nat /\ Len(given) - 1 \in 0 .. Len(given)
      BY <1>2, <2>2
    <3> QED
      BY <1>2, <2>2, <3>1, SubSeqProperties
  <2> QED
    BY <1>1, <2>1, <2>2 DEF TrimSuffix, Take
<1>4. CatchAll \in Seq(Bytes)
  <2>1. \A x, y, z \in Bytes : <<x, y, z>> \in Seq(Bytes)
    OBVIOUS
  <2>2. "/" \in Bytes /\ "*" \in Bytes /\ "p" \in Bytes
    BY DEF Bytes
  <2> QED
    BY <2>1, <2>2 DEF CatchAll
<1> QED
  BY <1>3, <1>4

\* So is every pattern that a tree is given, and its wildcards can be counted.
LEMMA GivenType ==
  ASSUME NEW r, NEW p \in Given(r)
  PROVE  p \in Seq(Bytes) /\ countParams(p) \in Nat
<1>1. p \in Seq(Bytes)
  <2>1. CASE p \in Patterns \cup SubPatterns
    BY <2>1, BytesType
  <2>2. CASE \E prefix \in Prefixes : p \in Elements(MountPatterns(prefix))
    <3>1. PICK prefix \in Prefixes : p \in {prefix, prefix \o CatchAll}
      BY <2>2, MountElements
    <3> QED
      BY <3>1, PrefixType
  <2> QED
    BY <2>1, <2>2 DEF Given
<1>2. IsFiniteSet({i \in DOMAIN p : p[i] \in {":", "*"}})
  <2>1. DOMAIN p = 1 .. Len(p) /\ Len(p) \in Nat
    BY <1>1
  <2>2. IsFiniteSet(1 .. Len(p))
    BY <2>1, FS_Interval
  <2>3. {i \in DOMAIN p : p[i] \in {":", "*"}} \subseteq 1 .. Len(p)
    BY <2>1
  <2> QED
    BY <2>2, <2>3, FS_Subset
<1>3. Cardinality({i \in DOMAIN p : p[i] \in {":", "*"}}) \in Nat
  BY <1>2, FS_CardinalityType
<1> QED
  BY <1>1, <1>3 DEF countParams

\* A tree that takes all patterns of a call has been built from them as well.
LEMMA GrowBuilds ==
  ASSUME NEW r, NEW node, NEW patterns, Tree(r, node, patterns) \in Built,
         NEW ps, Len(ps) \in {1, 2}, Elements(ps) \subseteq Given(r),
         ~GrowAll(node, ps).panic
  PROVE  Tree(r, GrowAll(node, ps).node, patterns \cup Elements(ps)) \in Built
<1> DEFINE first == Grow(node, ps[1])
<1>1. ASSUME NEW n, NEW qs, Tree(r, n, qs) \in Built, NEW p \in Given(r), ~Grow(n, p).panic
      PROVE  Tree(r, Grow(n, p).node, qs \cup {p}) \in Built
  <2>1. /\ Tree(r, n, qs).router = r /\ Tree(r, n, qs).node = n
        /\ Tree(r, n, qs).patterns = qs
    BY DEF Tree
  <2> QED
    BY <1>1, <2>1, TreeAssumption
<1>2. CASE Len(ps) = 1
  <2>1. Elements(ps) = {ps[1]} /\ GrowAll(node, ps) = first
    BY <1>2, ElementsFew DEF GrowAll
  <2> QED
    BY <1>1, <2>1
<1>3. CASE Len(ps) = 2
  <2>1. Elements(ps) = {ps[1], ps[2]}
    BY <1>3, ElementsFew
  <2>2. ~first.panic /\ GrowAll(node, ps) = Grow(first.node, ps[2])
    BY <1>3 DEF GrowAll
  <2>3. Tree(r, first.node, patterns \cup {ps[1]}) \in Built
    BY <1>1, <2>1, <2>2
  <2>4. Tree(r, Grow(first.node, ps[2]).node, (patterns \cup {ps[1]}) \cup {ps[2]}) \in Built
    BY <1>1, <2>1, <2>2, <2>3
  <2>5. (patterns \cup {ps[1]}) \cup {ps[2]} = patterns \cup Elements(ps)
    BY <2>1
  <2> QED
    BY <2>2, <2>4, <2>5
<1> QED
  BY <1>2, <1>3

\* The greatest of a few numbers.
LEMMA Greatest ==
  ASSUME NEW a \in Nat, NEW b \in Nat, NEW c \in Nat
  PROVE  \E n \in {a, b, c} : \A x \in {a, b, c} : x <= n
<1>1. CASE a >= b /\ a >= c
  BY <1>1
<1>2. CASE b >= a /\ b >= c
  BY <1>2
<1>3. CASE c >= a /\ c >= b
  BY <1>3
<1> QED
  BY <1>1, <1>2, <1>3

\* What Handle and Mount do to the trees of a router.
LEMMA RegisterKeeps ==
  ASSUME Types, Represented, Counted, ~panicked,
         NEW r \in Routers, NEW ms, ms \subseteq AllMethods,
         NEW ps, Len(ps) \in {1, 2}, Elements(ps) \subseteq Given(r), Register(r, ms, ps)
  PROVE  /\ DOMAIN trees' = Keys /\ DOMAIN registered' = Keys
         /\ maxParams' \in [Routers -> Nat] /\ panicked' \in BOOLEAN
         /\ Represented' /\ Counted'
         /\ \A k \in Keys : registered'[k] =
              registered[k] \cup IF k \in {r} \X ms THEN Elements(ps) ELSE {}
<1> DEFINE grown == [m \in ms |-> GrowAll(trees[<<r, m>>], ps)]
           counts == {countParams(ps[i]) : i \in DOMAIN ps} \cup {maxParams[r]}
           mine == {r} \X ms
           most == CHOOSE n \in counts : \A c \in counts : c <= n
<1>1. /\ panicked' = (\E m \in ms : grown[m].panic)
      /\ trees' = [k \in DOMAIN trees |-> IF k \in mine THEN grown[k[2]].node ELSE trees[k]]
      /\ maxParams' = [maxParams EXCEPT ![r] = most]
      /\ registered' = [k \in DOMAIN registered |->
                          registered[k] \cup IF k \in mine THEN Elements(ps) ELSE {}]
  BY DEF Register
<1>2. \A k \in mine : k[1] = r /\ k[2] \in ms /\ k = <<r, k[2]>> /\ k \in Keys
  BY DEF Keys
<1> HIDE DEF mine
<1>3. /\ DOMAIN trees' = Keys /\ DOMAIN registered' = Keys /\ panicked' \in BOOLEAN
      /\ \A k \in Keys : registered'[k] =
           registered[k] \cup IF k \in mine THEN Elements(ps) ELSE {}
  BY <1>1 DEF Types
<1> DEFINE first == countParams(ps[1])
           last == countParams(ps[Len(ps)])
           most3 == {first, last, maxParams[r]}
<1>4. counts = most3 /\ Elements(ps) = {ps[1], ps[Len(ps)]}
  BY ElementsFew DEF Elements
<1>5. first \in Nat /\ last \in Nat /\ maxParams[r] \in Nat
  BY <1>4, GivenType DEF Types
<1>6. most \in counts /\ \A c \in counts : c <= most
  <2> HIDE DEF first, last, counts
  <2>1. \E n \in most3 : \A c \in most3 : c <= n
    BY <1>5, Greatest
  <2>2. \E n \in counts : \A c \in counts : c <= n
    BY <1>4, <2>1
  <2> QED
    BY <2>2
<1>7. most \in Nat /\ maxParams[r] <= most /\ \A p \in Elements(ps) : countParams(p) \in 0 .. most
  <2> HIDE DEF most
  <2> QED
    BY <1>4, <1>5, <1>6
<1> HIDE DEF most, counts
<1>8. maxParams' \in [Routers -> Nat]
  BY <1>1, <1>7 DEF Types
<1>9. Counted'
  <2> SUFFICES ASSUME NEW k \in Keys, NEW p \in registered'[k]
               PROVE  countParams(p) \in 0 .. maxParams'[k[1]]
    BY DEF Counted
  <2>1. k[1] \in Routers
    BY DEF Keys
  <2>2. maxParams'[k[1]] = IF k[1] = r THEN most ELSE maxParams[k[1]]
    BY <1>1, <2>1 DEF Types
  <2>3. CASE p \in registered[k]
    <3>1. countParams(p) \in 0 .. maxParams[k[1]] /\ maxParams[k[1]] \in Nat
      BY <2>1, <2>3 DEF Counted, Types
    <3> QED
      BY <1>7, <2>2, <3>1
  <2>4. CASE p \notin registered[k]
    <3>1. k \in mine /\ p \in Elements(ps)
      BY <1>3, <2>4
    <3> QED
      BY <1>2, <1>7, <2>2, <3>1
  <2> QED
    BY <2>3, <2>4
<1>10. Represented'
  <2> SUFFICES ASSUME ~panicked', NEW k \in Keys
               PROVE  Tree(k[1], trees'[k], registered'[k]) \in Built
    BY DEF Represented
  <2>1. Tree(k[1], trees[k], registered[k]) \in Built
    BY DEF Represented
  <2>2. CASE k \in mine
    <3>1. /\ k[1] = r /\ k[2] \in ms /\ trees[k] = trees[<<r, k[2]>>]
      BY <1>2, <2>2
    <3>2. trees'[k] = GrowAll(trees[k], ps).node /\ ~GrowAll(trees[k], ps).panic
      BY <1>1, <2>2, <3>1 DEF Types
    <3>3. Tree(r, GrowAll(trees[k], ps).node, registered[k] \cup Elements(ps)) \in Built
      BY <2>1, <3>1, <3>2, GrowBuilds
    <3> QED
      BY <1>3, <2>2, <3>1, <3>2, <3>3
  <2>3. CASE k \notin mine
    <3>1. trees'[k] = trees[k] /\ registered'[k] = registered[k]
      BY <1>1, <1>3, <2>3 DEF Types
    <3> QED
      BY <2>1, <3>1
  <2> QED
    BY <2>2, <2>3
<1> QED
  BY <1>3, <1>8, <1>9, <1>10 DEF mine

\* The program has registered nothing at first.
LEMMA RegistrationInit == Init => Registration
<1> SUFFICES ASSUME Init PROVE Registration
  OBVIOUS
<1>1. Types
  BY DEF Init, Types, Keys
<1>2. Represented
  <2> SUFFICES ASSUME NEW k \in Keys PROVE Tree(k[1], trees[k], registered[k]) \in Built
    BY DEF Represented
  <2>1. k[1] \in Routers /\ trees[k] = None /\ registered[k] = {}
    BY DEF Keys, Init
  <2> QED
    BY <2>1, TreeAssumption
<1>3. Counted /\ Mounted
  BY DEF Init, Counted, Mounted, Keys
<1> QED
  BY <1>1, <1>2, <1>3 DEF Registration

\* Handle adds a route.
LEMMA HandleKeeps ==
  ASSUME Registration, NEW r \in Routers, NEW m \in Methods, NEW p \in Given(r), Handle(r, m, p)
  PROVE  Registration'
<1>1. Types /\ Represented /\ Counted /\ Mounted /\ ~panicked /\ Register(r, {m}, <<p>>)
      /\ mounts' = mounts
  BY DEF Registration, Handle
<1>2. {m} \subseteq AllMethods /\ Len(<<p>>) \in {1, 2} /\ Elements(<<p>>) \subseteq Given(r)
  BY ElementsFew DEF AllMethods
<1>3. /\ DOMAIN trees' = Keys /\ DOMAIN registered' = Keys
      /\ maxParams' \in [Routers -> Nat] /\ panicked' \in BOOLEAN
      /\ Represented' /\ Counted'
      /\ \A k \in Keys : registered[k] \subseteq registered'[k]
  BY <1>1, <1>2, RegisterKeeps
<1>4. \A n \in allMethods : <<"main", n>> \in Keys
  BY DEF Keys, Routers, AllMethods
<1>5. Mounted'
  BY <1>1, <1>3, <1>4 DEF Mounted
<1> QED
  BY <1>1, <1>3, <1>5 DEF Registration, Types

\* Mount adds two routes to every tree, or panics.
LEMMA MountKeeps ==
  ASSUME Registration, NEW given \in MountPrefixes, Mount(given)
  PROVE  Registration'
<1> DEFINE prefix == TrimSuffix(given)
<1>1. Types /\ Represented /\ Counted /\ Mounted /\ ~panicked
  BY DEF Registration, Mount
<1>2. CASE prefix = <<>> \/ prefix[1] # "/"
  <2>1. panicked' = TRUE /\ UNCHANGED <<trees, maxParams, registered, mounts>>
    BY <1>2 DEF Mount
  <2> QED
    BY <1>1, <2>1 DEF Registration, Types, Represented, Counted, Mounted
<1>3. CASE ~(prefix = <<>> \/ prefix[1] # "/")
  <2>1. Register("main", allMethods, MountPatterns(prefix)) /\ mounts' = mounts \cup {prefix}
    BY <1>3 DEF Mount
  <2>2. prefix \in Prefixes
    BY <1>3 DEF Prefixes
  <2> HIDE DEF prefix
  <2>3. /\ "main" \in Routers /\ allMethods \subseteq AllMethods
        /\ Elements(MountPatterns(prefix)) \subseteq Given("main")
        /\ Len(MountPatterns(prefix)) \in {1, 2}
    BY <2>2, MountElements DEF Routers, AllMethods, Given
  <2>4. /\ DOMAIN trees' = Keys /\ DOMAIN registered' = Keys
        /\ maxParams' \in [Routers -> Nat] /\ panicked' \in BOOLEAN
        /\ Represented' /\ Counted'
        /\ \A k \in Keys : registered'[k] = registered[k] \cup
             IF k \in {"main"} \X allMethods THEN Elements(MountPatterns(prefix)) ELSE {}
    BY <1>1, <2>1, <2>3, RegisterKeeps
  <2>5. \A n \in allMethods : <<"main", n>> \in Keys /\ <<"main", n>> \in {"main"} \X allMethods
    BY DEF Keys, Routers, AllMethods
  <2>6. \A n \in allMethods : registered'[<<"main", n>>] =
          registered[<<"main", n>>] \cup Elements(MountPatterns(prefix))
    BY <2>4, <2>5
  <2>7. Mounted'
    BY <1>1, <2>1, <2>6 DEF Mounted
  <2> QED
    BY <1>1, <2>1, <2>2, <2>4, <2>7 DEF Registration, Types
<1> QED
  BY <1>2, <1>3

\* Every step of setup keeps the invariant.
LEMMA RegistrationStep == Registration /\ [Next]_vars => Registration'
<1> SUFFICES ASSUME Registration, [Next]_vars PROVE Registration'
  OBVIOUS
<1>1. ASSUME NEW m \in Methods, NEW p \in Patterns, Handle("main", m, p) PROVE Registration'
  BY <1>1, HandleKeeps DEF Routers, Given
<1>2. ASSUME NEW m \in Methods, NEW p \in SubPatterns, Handle("sub", m, p) PROVE Registration'
  BY <1>2, HandleKeeps DEF Routers, Given
<1>3. ASSUME NEW prefix \in MountPrefixes, Mount(prefix) PROVE Registration'
  BY <1>3, MountKeeps
<1>4. CASE UNCHANGED vars
  BY <1>4 DEF vars, Registration, Types, Represented, Counted, Mounted
<1> QED
  BY <1>1, <1>2, <1>3, <1>4 DEF Next

\* And so it holds always.
LEMMA RegistrationHolds == Spec => []Registration
BY RegistrationInit, RegistrationStep, PTL DEF Spec

-----------------------------------------------------------------------------
(* What is served.                                                         *)

\* A lookup finds the registered pattern that matches.
LEMMA Finds ==
  ASSUME Registration, Sound, NEW r \in Routers, NEW m \in AllMethods, NEW path \in Paths
  PROVE  /\ Found(r, m, path) =>
              /\ Lookup(r, m, path).handlers \in registered[<<r, m>>]
              /\ Matches(Lookup(r, m, path).handlers, path)
         /\ \A p \in registered[<<r, m>>] :
              Matches(p, path) => Found(r, m, path) /\ Lookup(r, m, path).handlers = p
<1> DEFINE k == <<r, m>>
           value == Value(trees[k], path)
<1>1. k \in Keys /\ k[1] = r /\ ~panicked
  BY DEF Keys, Sound
<1>2. NoConflicts(registered[k]) /\ Tree(r, trees[k], registered[k]) \in Built
  BY <1>1 DEF Registration, Types, Represented, Sound
<1> DEFINE b == Tree(r, trees[k], registered[k])
<1>3. b.node = trees[k] /\ b.patterns = registered[k]
  BY DEF Tree
<1> HIDE DEF b
<1>4. {p \in registered[k] : Matches(p, path)} =
        IF value.handlers = None THEN {} ELSE {value.handlers}
  BY <1>2, <1>3, TreeAssumption DEF b
<1>5. Lookup(r, m, path) = value
  BY DEF Lookup
<1> HIDE DEF value
<1> QED
  BY <1>4, <1>5 DEF Found

\* What a route that is served has to do with the path.
LEMMA ServedMatches ==
  ASSUME Registration, Sound, NEW r \in Routers, NEW m \in AllMethods, NEW path \in Paths,
         dispatch(r, m, path).kind = "route"
  PROVE  Matches(dispatch(r, m, path).pattern, path)
<1>1. "GET" \in AllMethods
  BY DEF AllMethods, allMethods
<1>2. CASE Found(r, m, path)
  <2>1. dispatch(r, m, path) = Route(r, Lookup(r, m, path).handlers, TRUE)
    BY <1>2, Decisions
  <2>2. dispatch(r, m, path).pattern = Lookup(r, m, path).handlers
    BY <2>1 DEF Route, Answer
  <2> QED
    BY <1>2, <2>2, Finds
<1>3. CASE ~Found(r, m, path)
  <2>1. /\ ~Redirects(path, Lookup(r, m, path))
        /\ AutoHead(m, path, Lookup(r, "GET", path))
    BY <1>3, DispatchKinds
  <2>2. Found(r, "GET", path)
    BY <2>1 DEF AutoHead, Found
  <2>3. dispatch(r, m, path) = Route(r, Lookup(r, "GET", path).handlers, FALSE)
    BY <1>3, <2>1, Decisions
  <2>4. dispatch(r, m, path).pattern = Lookup(r, "GET", path).handlers
    BY <2>3 DEF Route, Answer
  <2> QED
    BY <1>1, <2>2, <2>4, Finds
<1> QED
  BY <1>2, <1>3

\* One of the patterns of a mount matches what lies at or below its prefix.
LEMMA MountMatches ==
  ASSUME NEW prefix \in Prefixes, NEW path \in Paths
  PROVE  Below(prefix, path) <=> \E p \in Elements(MountPatterns(prefix)) : Matches(p, path)
<1>1. Elements(MountPatterns(prefix)) = {prefix, prefix \o CatchAll}
  BY MountElements
<1>2. /\ Matches(prefix, path) <=> path = prefix
      /\ Matches(prefix \o CatchAll, path) <=> Below(prefix, path) /\ path # prefix
  BY MountAssumption
<1>3. path = prefix => Below(prefix, path)
  <2> SUFFICES ASSUME path = prefix PROVE Below(prefix, prefix)
    OBVIOUS
  <2>1. prefix \in Seq(Bytes)
    BY PrefixType
  <2>2. SubSeq(prefix, 1, Len(prefix)) = prefix /\ Len(prefix) \in Nat
    BY <2>1, SubSeqFull
  <2> QED
    BY <2>2 DEF Below, Take
<1> QED
  BY <1>1, <1>2, <1>3

\* Only paths at or below a prefix are delegated.
LEMMA DelegatesBelow ==
  ASSUME Registration, Sound, NEW m \in AllMethods, NEW path \in Paths,
         NEW prefix \in Delegates(dispatch("main", m, path))
  PROVE  prefix \in mounts /\ prefix \in Prefixes /\ Below(prefix, path)
<1> DEFINE d == dispatch("main", m, path)
<1>1. prefix \in mounts /\ d.kind = "route" /\ d.pattern \in Elements(MountPatterns(prefix))
  BY DEF Delegates
<1>2. prefix \in Prefixes
  BY <1>1 DEF Registration, Types
<1>3. Matches(d.pattern, path)
  BY <1>1, ServedMatches DEF Routers
<1> QED
  BY <1>1, <1>2, <1>3, MountMatches

\* One router serves HEAD wherever it serves GET.
LEMMA HeadOfOne ==
  ASSUME Registration, Sound, opts.HandleHEAD, NEW r \in Routers, NEW path \in Paths
  PROVE  LET get == dispatch(r, "GET", path)
             head == dispatch(r, "HEAD", path)
         IN  get.kind = "route" =>
               /\ Found(r, "GET", path)
               /\ get = Route(r, Lookup(r, "GET", path).handlers, TRUE)
               /\ \/ head.kind = "redirect"
                  \/ /\ Found(r, "HEAD", path)
                     /\ head = Route(r, Lookup(r, "HEAD", path).handlers, TRUE)
                  \/ head = Route(r, Lookup(r, "GET", path).handlers, FALSE)
<1> SUFFICES ASSUME dispatch(r, "GET", path).kind = "route"
             PROVE  /\ Found(r, "GET", path)
                    /\ dispatch(r, "GET", path) =
                         Route(r, Lookup(r, "GET", path).handlers, TRUE)
                    /\ \/ dispatch(r, "HEAD", path).kind = "redirect"
                       \/ /\ Found(r, "HEAD", path)
                          /\ dispatch(r, "HEAD", path) =
                               Route(r, Lookup(r, "HEAD", path).handlers, TRUE)
                       \/ dispatch(r, "HEAD", path) =
                            Route(r, Lookup(r, "GET", path).handlers, FALSE)
  OBVIOUS
<1>1. Found(r, "GET", path)
  BY DispatchKinds DEF AutoHead
<1>2. dispatch(r, "GET", path) = Route(r, Lookup(r, "GET", path).handlers, TRUE)
  BY <1>1, Decisions
<1>3. CASE Found(r, "HEAD", path)
  <2>1. dispatch(r, "HEAD", path) = Route(r, Lookup(r, "HEAD", path).handlers, TRUE)
    BY <1>3, Decisions
  <2> QED
    BY <1>1, <1>2, <1>3, <2>1
<1>4. CASE ~Found(r, "HEAD", path) /\ Redirects(path, Lookup(r, "HEAD", path))
  <2>1. dispatch(r, "HEAD", path).kind = "redirect"
    BY <1>4, DispatchKinds
  <2> QED
    BY <1>1, <1>2, <2>1
<1>5. CASE ~Found(r, "HEAD", path) /\ ~Redirects(path, Lookup(r, "HEAD", path))
  <2>1. AutoHead("HEAD", path, Lookup(r, "GET", path))
    BY <1>1 DEF AutoHead, Found
  <2>2. dispatch(r, "HEAD", path) = Route(r, Lookup(r, "GET", path).handlers, FALSE)
    BY <1>5, <2>1, Decisions
  <2> QED
    BY <1>1, <1>2, <2>2
<1> QED
  BY <1>3, <1>4, <1>5

\* HEAD is answered like GET by one router, mounted or not.
LEMMA OneSameButBody ==
  ASSUME Registration, Sound, opts.HandleHEAD, NEW r \in Routers, NEW path \in Paths
  PROVE  SameButBody(dispatch(r, "GET", path), dispatch(r, "HEAD", path))
<1> DEFINE get == dispatch(r, "GET", path)
           head == dispatch(r, "HEAD", path)
           gp == Lookup(r, "GET", path).handlers
           hp == Lookup(r, "HEAD", path).handlers
<1> SUFFICES ASSUME get.kind = "route"
             PROVE  \/ head.kind = "redirect"
                    \/ /\ head.kind = "route" /\ head.body
                       /\ head.pattern \in registered[<<head.router, "HEAD">>]
                    \/ head = [get EXCEPT !.body = FALSE]
  BY DEF SameButBody
<1>1. /\ get = Route(r, gp, TRUE)
      /\ \/ head.kind = "redirect"
         \/ Found(r, "HEAD", path) /\ head = Route(r, hp, TRUE)
         \/ head = Route(r, gp, FALSE)
  BY HeadOfOne
<1>2. Found(r, "HEAD", path) => hp \in registered[<<r, "HEAD">>]
  BY Finds DEF AllMethods, allMethods
<1> HIDE DEF get, head, gp, hp
<1>3. CASE Found(r, "HEAD", path) /\ head = Route(r, hp, TRUE)
  <2>1. head.kind = "route" /\ head.body = TRUE /\ head.pattern = hp /\ head.router = r
    BY <1>3 DEF Route, Answer
  <2> QED
    BY <1>2, <1>3, <2>1
<1>4. CASE head = Route(r, gp, FALSE)
  BY <1>1, <1>4 DEF Route, Answer
<1> QED
  BY <1>1, <1>3, <1>4

\* Which delegate answers depends on the pattern that is served alone.
LEMMA SameDelegates ==
  ASSUME NEW r, NEW p
  PROVE  /\ Delegates(Route(r, p, TRUE)) =
              {prefix \in mounts : p \in Elements(MountPatterns(prefix))}
         /\ Delegates(Route(r, p, FALSE)) =
              {prefix \in mounts : p \in Elements(MountPatterns(prefix))}
<1> DEFINE with == Route(r, p, TRUE)
           without == Route(r, p, FALSE)
<1>1. /\ with.kind = "route" /\ with.pattern = p
      /\ without.kind = "route" /\ without.pattern = p
  BY DEF Route, Answer
<1> HIDE DEF with, without
<1>2. Delegates(with) = {prefix \in mounts : p \in Elements(MountPatterns(prefix))}
  BY <1>1 DEF Delegates
<1>3. Delegates(without) = {prefix \in mounts : p \in Elements(MountPatterns(prefix))}
  BY <1>1 DEF Delegates
<1> QED
  BY <1>2, <1>3 DEF with, without

\* A path that the patterns of a mount match is served by the delegate, for
\* every method that a mount registers.
LEMMA DelegateServes ==
  ASSUME Registration, Sound, NEW m \in allMethods, NEW path \in Paths,
         NEW prefix \in mounts, NEW p \in Elements(MountPatterns(prefix)), Matches(p, path)
  PROVE  /\ Found("main", m, path) /\ Lookup("main", m, path).handlers = p
         /\ dispatch("main", m, path) = Route("main", p, TRUE)
<1>1. "main" \in Routers /\ m \in AllMethods
  BY DEF Routers, AllMethods
<1>2. p \in registered[<<"main", m>>]
  BY DEF Registration, Mounted, Sound
<1>3. Found("main", m, path) /\ Lookup("main", m, path).handlers = p
  BY <1>1, <1>2, Finds
<1> QED
  BY <1>3, Decisions

\* HEAD and GET reach the same router, the mounted one or the main one.
LEMMA HeadFollows ==
  ASSUME Registration, Sound, opts.HandleHEAD, NEW path \in Paths
  PROVE  SameButBody(Serve("GET", path), Serve("HEAD", path))
<1> DEFINE get == dispatch("main", "GET", path)
           head == dispatch("main", "HEAD", path)
           gp == Lookup("main", "GET", path).handlers
           hp == Lookup("main", "HEAD", path).handlers
<1>1. /\ "main" \in Routers /\ "sub" \in Routers /\ "GET" \in allMethods /\ "HEAD" \in allMethods
      /\ "GET" \in AllMethods /\ "HEAD" \in AllMethods
  BY DEF Routers, AllMethods, allMethods
<1>2. SameButBody(get, head)
  BY <1>1, OneSameButBody
<1>3. CASE Delegates(get) = {} /\ Delegates(head) = {}
  <2>1. Serve("GET", path) = get /\ Serve("HEAD", path) = head
    BY <1>3 DEF Serve, Forward, Delegated
  <2> QED
    BY <1>2, <2>1
<1>4. CASE Delegates(get) # {} \/ Delegates(head) # {}
  <2>1. PICK prefix : prefix \in Delegates(get) \/ prefix \in Delegates(head)
    BY <1>4
  <2>2. prefix \in mounts /\ prefix \in Prefixes /\ Below(prefix, path)
    BY <1>1, <2>1, DelegatesBelow
  <2>3. PICK p \in Elements(MountPatterns(prefix)) : Matches(p, path)
    BY <2>2, MountMatches
  <2>4. get = Route("main", p, TRUE) /\ head = Route("main", p, TRUE)
    BY <1>1, <2>2, <2>3, DelegateServes
  <2> DEFINE under == Delegates(get)
             one == CHOOSE q \in under : TRUE
  <2>5. under = Delegates(head) /\ one \in under
    BY <1>4, <2>4
  <2>6. /\ Serve("GET", path) = dispatch("sub", "GET", Stripped(one, path))
        /\ Serve("HEAD", path) = dispatch("sub", "HEAD", Stripped(one, path))
    BY <2>5 DEF Serve, Forward, Delegated
  <2>7. one \in Prefixes /\ Below(one, path)
    BY <1>1, <2>5, DelegatesBelow
  <2>8. Stripped(one, path) \in Paths
    BY <2>7, MountAssumption
  <2> QED
    BY <1>1, <2>6, <2>8, OneSameButBody
<1> QED
  BY <1>3, <1>4

\* With HandleHEAD, a path that GET serves is served for HEAD too, through a
\* mount as well: by a HEAD route, or by the same handlers without a body.  Only
\* a redirect of the HEAD tree comes before that (dispatch).
THEOREM HeadIsServed == Spec => []HeadFollowsGet
<1>1. Registration => HeadFollowsGet
  BY HeadFollows DEF HeadFollowsGet
<1> QED
  BY <1>1, RegistrationHolds, PTL

\* A request at or below a prefix goes to the mounted router, and no other.
LEMMA Transparency ==
  ASSUME Registration, Sound, NEW path \in Paths, NEW m \in allMethods
  PROVE  Transparent(m, path, Serve(m, path), {prefix \in mounts : Below(prefix, path)})
<1> DEFINE d == dispatch("main", m, path)
           over == {prefix \in mounts : Below(prefix, path)}
<1>1. m \in AllMethods /\ mounts \subseteq Prefixes
  BY DEF AllMethods, Registration, Types
<1>2. Delegates(d) \subseteq over
  BY <1>1, DelegatesBelow
<1>3. CASE over = {}
  <2>1. Serve(m, path) = d
    BY <1>2, <1>3 DEF Serve, Forward, Delegated
  <2>2. d.router = "main"
    BY DispatchKinds
  <2> QED
    BY <1>3, <2>1, <2>2 DEF Transparent
<1>4. CASE over # {}
  <2>1. PICK prefix \in mounts : Below(prefix, path)
    BY <1>4
  <2>2. PICK p \in Elements(MountPatterns(prefix)) : Matches(p, path)
    BY <1>1, <2>1, MountMatches
  <2>3. d = Route("main", p, TRUE)
    BY <2>2, DelegateServes
  <2>4. prefix \in Delegates(d)
    BY <2>2, <2>3, SameDelegates
  <2> DEFINE under == Delegates(d)
             one == CHOOSE q \in under : TRUE
  <2>5. one \in under
    BY <2>4
  <2>6. Serve(m, path) = dispatch("sub", m, Stripped(one, path))
    BY <2>4 DEF Serve, Forward, Delegated
  <2>7. one \in over /\ one \in Prefixes /\ Below(one, path)
    BY <1>1, <1>2, <2>5
  <2> HIDE DEF one
  <2>8. Len(path) = Len(one) <=> path = one
    <3>1. path \in Seq(Bytes)
      BY BytesType
    <3>2. SubSeq(path, 1, Len(path)) = path
      BY <3>1, SubSeqFull
    <3> QED
      BY <2>7, <3>2 DEF Below, Take
  <2>9. Stripped(one, path) = IF Len(path) = Len(one) THEN <<"/">> ELSE Drop(path, Len(one))
    BY <2>8 DEF Stripped
  <2> QED
    BY <1>4, <2>6, <2>7, <2>9 DEF Transparent
<1> QED
  BY <1>3, <1>4

\* Requests at or below the prefix of a mount are answered as the mounted
\* router answers the rest of the path, whatever else is registered, and no
\* others are (Mount).
THEOREM MountsAreTransparent == Spec => []MountIsTransparent
<1>1. Registration => MountIsTransparent
  BY Transparency DEF MountIsTransparent
<1> QED
  BY <1>1, RegistrationHolds, PTL

\* A lookup captures what one of the patterns has room for.
LEMMA Captures ==
  ASSUME Registration, Sound, NEW k \in Keys, NEW path \in Paths
  PROVE  Len(Lookup(k[1], k[2], path).params) <= maxParams[k[1]]
<1> DEFINE value == Value(trees[k], path)
           b == Tree(k[1], trees[k], registered[k])
<1>1. k[1] \in Routers /\ k = <<k[1], k[2]>> /\ maxParams[k[1]] \in Nat
  BY DEF Keys, Registration, Types
<1>2. NoConflicts(registered[k]) /\ b \in Built
  BY DEF Registration, Types, Represented, Sound
<1>3. b.node = trees[k] /\ b.patterns = registered[k]
  BY DEF Tree
<1> HIDE DEF b
<1>4. \/ value.params = <<>>
      \/ \E p \in registered[k] :
           Len(value.params) \in 0 .. Cardinality({i \in DOMAIN p : p[i] \in Wild})
  BY <1>2, <1>3, TreeAssumption DEF b
<1>5. Lookup(k[1], k[2], path) = value
  BY <1>1 DEF Lookup
<1> HIDE DEF value
<1>6. CASE value.params = <<>>
  BY <1>1, <1>5, <1>6
<1>7. ASSUME NEW p \in registered[k],
             Len(value.params) \in 0 .. Cardinality({i \in DOMAIN p : p[i] \in Wild})
      PROVE  Len(value.params) <= maxParams[k[1]]
  <2>1. Cardinality({i \in DOMAIN p : p[i] \in Wild}) = countParams(p)
    BY DEF countParams, Wild
  <2>2. countParams(p) \in 0 .. maxParams[k[1]]
    BY DEF Registration, Counted
  <2> HIDE DEF countParams
  <2> QED
    BY <1>1, <1>7, <2>1, <2>2
<1> QED
  BY <1>4, <1>5, <1>6, <1>7

\* No lookup, successful or not, captures more parameters than the Contexts of
\* the router have room for (maxParams).
THEOREM ContextsHaveRoom == Spec => []ParamsFit
<1>1. Registration => ParamsFit
  BY Captures DEF ParamsFit, Registration, Types
<1> QED
  BY <1>1, RegistrationHolds, PTL

-----------------------------------------------------------------------------
(* Redirects.                                                              *)

\* A part of a sequence, byte by byte.
LEMMA PartOf ==
  ASSUME NEW s \in Seq(Bytes), NEW i \in 1 .. Len(s) + 1, NEW j \in 0 .. Len(s)
  PROVE  /\ SubSeq(s, i, j) \in Seq(Bytes)
         /\ Len(SubSeq(s, i, j)) = IF i <= j THEN j - i + 1 ELSE 0
         /\ \A k \in 1 .. j - i + 1 : SubSeq(s, i, j)[k] = s[i + k - 1]
<1>1. \A k \in i .. j : s[k] \in Bytes
  <2> SUFFICES ASSUME NEW k \in i .. j PROVE s[k] \in Bytes
    OBVIOUS
  <2>1. k \in 1 .. Len(s)
    OBVIOUS
  <2> QED
    BY <2>1
<1>2. i \in Int /\ j \in Int
  OBVIOUS
<1> QED
  BY <1>1, <1>2, SubSeqProperties

\* The two ways in which a path is changed.
LEMMA ToggleCases ==
  ASSUME NEW path \in Seq(Bytes), path # <<>>
  PROVE  LET other == Toggle(path)
             n == Len(path)
         IN  /\ other \in Seq(Bytes) /\ n \in Nat /\ n > 0
             /\ \/ /\ n > 1 /\ path[n] = "/" /\ Len(other) = n - 1
                   /\ \A i \in 1 .. n - 1 : other[i] = path[i]
                \/ /\ Len(other) = n + 1 /\ other[n + 1] = "/" /\ Toggle(other) = path
                   /\ \A i \in 1 .. n : other[i] = path[i]
<1> DEFINE other == Toggle(path)
           n == Len(path)
<1>1. n \in Nat /\ n > 0 /\ "/" \in Bytes
  BY DEF Bytes
<1>2. CASE n > 1 /\ Last(path) = "/"
  <2>1. other = SubSeq(path, 1, n - 1) /\ path[n] = "/"
    BY <1>2 DEF Toggle, Take, Last
  <2>2. 1 \in 1 .. n + 1 /\ n - 1 \in 0 .. n
    BY <1>1
  <2>3. /\ other \in Seq(Bytes) /\ Len(other) = n - 1
        /\ \A k \in 1 .. n - 1 : other[k] = path[k]
    <3>1. /\ other \in Seq(Bytes) /\ Len(other) = IF 1 <= n - 1 THEN n - 1 - 1 + 1 ELSE 0
          /\ \A k \in 1 .. n - 1 - 1 + 1 : other[k] = path[1 + k - 1]
      BY <2>1, <2>2, PartOf
    <3> HIDE DEF other
    <3> QED
      BY <1>1, <1>2, <3>1
  <2> QED
    BY <1>1, <1>2, <2>1, <2>3
<1>3. CASE ~(n > 1 /\ Last(path) = "/")
  <2>1. other = Append(path, "/")
    BY <1>3 DEF Toggle
  <2>2. /\ other \in Seq(Bytes) /\ Len(other) = n + 1 /\ other[n + 1] = "/"
        /\ \A i \in 1 .. n : other[i] = path[i]
    BY <1>1, <2>1, AppendProperties
  <2> HIDE DEF other
  <2>3. Toggle(other) = SubSeq(other, 1, n)
    <3>1. Len(other) > 1 /\ Last(other) = "/" /\ Len(other) - 1 = n
      BY <1>1, <2>2 DEF Last
    <3> QED
      BY <3>1 DEF Toggle, Take
  <2>4. SubSeq(other, 1, n) = path
    <3>1. 1 \in 1 .. Len(other) + 1 /\ n \in 0 .. Len(other)
      BY <1>1, <2>2
    <3> DEFINE part == SubSeq(other, 1, n)
    <3>2. /\ part \in Seq(Bytes) /\ Len(part) = IF 1 <= n THEN n - 1 + 1 ELSE 0
          /\ \A k \in 1 .. n - 1 + 1 : part[k] = other[1 + k - 1]
      BY <2>2, <3>1, PartOf
    <3> HIDE DEF part
    <3>3. Len(part) = Len(path) /\ \A k \in 1 .. Len(part) : part[k] = path[k]
      BY <1>1, <2>2, <3>2
    <3>4. part = path
      BY <3>2, <3>3, SeqEqual
    <3> QED
      BY <3>4 DEF part
  <2> QED
    BY <1>1, <2>2, <2>3, <2>4 DEF other
<1> QED
  BY <1>2, <1>3

\* What lies at or below a prefix, byte by byte.
LEMMA BelowBytes ==
  ASSUME NEW prefix \in Seq(Bytes), NEW path \in Seq(Bytes)
  PROVE  Below(prefix, path) <=>
           /\ Len(prefix) <= Len(path)
           /\ \A i \in 1 .. Len(prefix) : path[i] = prefix[i]
           /\ Len(prefix) = Len(path) \/ path[Len(prefix) + 1] = "/"
<1> DEFINE n == Len(prefix)
           part == SubSeq(path, 1, n)
<1>1. n \in Nat /\ Len(path) \in Nat
  OBVIOUS
<1>2. ASSUME n <= Len(path)
      PROVE  part = prefix <=> \A i \in 1 .. n : path[i] = prefix[i]
  <2>1. 1 \in 1 .. Len(path) + 1 /\ n \in 0 .. Len(path)
    BY <1>1, <1>2
  <2>2. /\ part \in Seq(Bytes) /\ Len(part) = IF 1 <= n THEN n - 1 + 1 ELSE 0
        /\ \A k \in 1 .. n - 1 + 1 : part[k] = path[1 + k - 1]
    BY <2>1, PartOf
  <2> HIDE DEF part
  <2>3. Len(part) = n /\ \A k \in 1 .. n : part[k] = path[k]
    BY <1>1, <2>2
  <2>4. (\A k \in 1 .. n : path[k] = prefix[k]) => part = prefix
    BY <2>2, <2>3, SeqEqual
  <2> QED
    BY <2>3, <2>4
<1> QED
  BY <1>2 DEF Below, Take

\* A path that is not below a prefix but whose other spelling is: that is the
\* prefix itself.
LEMMA ToggleBelow ==
  ASSUME NEW prefix \in Seq(Bytes), NEW path \in Seq(Bytes), path # <<>>,
         ~Below(prefix, path), Below(prefix, Toggle(path))
  PROVE  Toggle(path) = prefix
<1> DEFINE other == Toggle(path)
           n == Len(path)
           k == Len(prefix)
<1>1. /\ other \in Seq(Bytes) /\ n \in Nat /\ n > 0 /\ k \in Nat
      /\ \/ /\ n > 1 /\ path[n] = "/" /\ Len(other) = n - 1
            /\ \A i \in 1 .. n - 1 : other[i] = path[i]
         \/ /\ Len(other) = n + 1 /\ other[n + 1] = "/"
            /\ \A i \in 1 .. n : other[i] = path[i]
  BY ToggleCases
<1>2. /\ k <= Len(other) /\ \A i \in 1 .. k : other[i] = prefix[i]
      /\ k = Len(other) \/ other[k + 1] = "/"
  BY <1>1, BelowBytes
<1>3. ~(/\ k <= n /\ \A i \in 1 .. k : path[i] = prefix[i]
        /\ k = n \/ path[k + 1] = "/")
  BY BelowBytes
<1> HIDE DEF other, n, k
<1>4. CASE Len(other) = n - 1
  <2>1. \A i \in 1 .. n - 1 : other[i] = path[i]
    BY <1>1, <1>4
  <2>2. path[n] = "/"
    BY <1>1, <1>4
  <2>3. k <= n /\ \A i \in 1 .. k : path[i] = prefix[i]
    BY <1>1, <1>2, <1>4, <2>1
  <2>4. path[k + 1] = "/"
    BY <1>1, <1>2, <1>4, <2>1, <2>2
  <2> QED
    BY <1>3, <2>3, <2>4
<1>5. CASE Len(other) = n + 1 /\ k <= n
  <2>1. \A i \in 1 .. n : other[i] = path[i]
    BY <1>1, <1>5
  <2>2. \A i \in 1 .. k : path[i] = prefix[i]
    BY <1>1, <1>2, <1>5, <2>1
  <2>3. k = n \/ path[k + 1] = "/"
    BY <1>1, <1>2, <1>5, <2>1
  <2> QED
    BY <1>3, <1>5, <2>2, <2>3
<1>6. CASE Len(other) = n + 1 /\ k = n + 1
  <2>1. other \in Seq(Bytes) /\ Len(other) = Len(prefix)
    BY <1>1, <1>6 DEF k
  <2>2. \A i \in 1 .. Len(other) : other[i] = prefix[i]
    BY <1>2, <2>1 DEF k
  <2>3. other = prefix
    BY <2>1, <2>2, SeqEqual
  <2> QED
    BY <2>3 DEF other
<1> QED
  BY <1>1, <1>2, <1>4, <1>5, <1>6

\* A route that delegates is in the tree of the method that asks.
LEMMA DelegateRegistered ==
  ASSUME Registration, Sound, NEW m \in AllMethods, NEW path \in Paths,
         NEW one \in Delegates(dispatch("main", m, path))
  PROVE  dispatch("main", m, path).pattern \in registered[<<"main", m>>]
<1> DEFINE d == dispatch("main", m, path)
<1>1. one \in mounts /\ d.kind = "route" /\ d.pattern \in Elements(MountPatterns(one))
  BY DEF Delegates
<1>2. "main" \in Routers
  BY DEF Routers
<1>3. CASE Found("main", m, path)
  <2>1. d = Route("main", Lookup("main", m, path).handlers, TRUE)
    BY <1>3, Decisions
  <2>2. d.pattern = Lookup("main", m, path).handlers
    BY <2>1 DEF Route, Answer
  <2> QED
    BY <1>2, <1>3, <2>2, Finds
<1>4. CASE ~Found("main", m, path)
  <2>1. m = "HEAD"
    BY <1>1, <1>4, DispatchKinds DEF AutoHead
  <2>2. m \in allMethods
    BY <2>1 DEF allMethods
  <2> QED
    BY <1>1, <2>2 DEF Registration, Mounted, Sound
<1> QED
  BY <1>3, <1>4

\* The mounted router answers the root without a redirect.
LEMMA RootStays ==
  ASSUME NEW r, NEW m
  PROVE  dispatch(r, m, <<"/">>).kind # "redirect"
BY DispatchKinds DEF Redirects

\* What is left of a path below a prefix.
LEMMA StrippedBytes ==
  ASSUME NEW prefix \in Seq(Bytes), NEW path \in Seq(Bytes), Below(prefix, path),
         path # prefix
  PROVE  /\ Stripped(prefix, path) \in Seq(Bytes)
         /\ Len(Stripped(prefix, path)) = Len(path) - Len(prefix)
         /\ Len(path) - Len(prefix) > 0
         /\ Stripped(prefix, path)[1] = "/"
<1> DEFINE n == Len(path)
           k == Len(prefix)
           rest == SubSeq(path, k + 1, n)
<1>1. /\ n \in Nat /\ k \in Nat /\ k <= n /\ \A i \in 1 .. k : path[i] = prefix[i]
      /\ k = n \/ path[k + 1] = "/"
  BY BelowBytes
<1>2. k < n
  BY <1>1, SeqEqual
<1>3. k + 1 \in 1 .. n + 1 /\ n \in 0 .. n
  BY <1>1
<1>4. /\ rest \in Seq(Bytes) /\ Len(rest) = IF k + 1 <= n THEN n - (k + 1) + 1 ELSE 0
      /\ \A i \in 1 .. n - (k + 1) + 1 : rest[i] = path[k + 1 + i - 1]
  BY <1>3, PartOf
<1>5. Stripped(prefix, path) = rest
  BY DEF Stripped, Drop
<1> HIDE DEF rest
<1>6. Len(rest) = n - k /\ n - k > 0 /\ rest[1] = path[k + 1]
  BY <1>1, <1>2, <1>4
<1> QED
  BY <1>1, <1>2, <1>4, <1>5, <1>6

\* A slash after the prefix leaves the root.
LEMMA StrippedRoot ==
  ASSUME NEW prefix \in Seq(Bytes), NEW path \in Seq(Bytes), Below(prefix, path),
         Len(path) <= Len(prefix) + 1
  PROVE  Stripped(prefix, path) = <<"/">>
<1>1. CASE path = prefix
  BY <1>1 DEF Stripped
<1>2. CASE path # prefix
  <2> DEFINE rest == Stripped(prefix, path)
  <2>1. /\ rest \in Seq(Bytes) /\ Len(rest) = Len(path) - Len(prefix)
        /\ Len(path) - Len(prefix) > 0 /\ rest[1] = "/"
    BY <1>2, StrippedBytes
  <2> HIDE DEF rest
  <2>2. Len(rest) = 1 /\ rest[1] = "/"
    BY <2>1
  <2>3. <<"/">> \in Seq(Bytes)
    BY DEF Bytes
  <2>4. rest = <<"/">>
    BY <2>1, <2>2, <2>3, SeqEqual
  <2> QED
    BY <2>4 DEF rest
<1> QED
  BY <1>1, <1>2

\* Where the main router redirects to, it answers, or the delegate of a mount
\* answers the root, unless the path had slashes to spare.
LEMMA MainRedirects ==
  ASSUME Registration, Sound, NEW m \in AllMethods, NEW path \in Paths,
         dispatch("main", m, path).kind = "redirect", Toggle(Toggle(path)) = path
  PROVE  Serve(m, Toggle(path)).kind # "redirect"
<1> DEFINE other == Toggle(path)
           d == dispatch("main", m, other)
           own == trees[<<"main", m>>]
<1>1. ~Found("main", m, path) /\ Redirects(path, Lookup("main", m, path))
  BY DispatchKinds
<1>2. path # <<"/">> /\ Astray(own, path)
  BY <1>1 DEF Redirects, Found, Lookup, Astray
<1>3. "main" \in Routers /\ other \in Paths /\ path # <<>>
  BY <1>2, PatternsAssumption DEF Routers
<1>4. ~Astray(own, other)
  <2> DEFINE k == <<"main", m>>
             b == Tree(k[1], trees[k], registered[k])
  <2>1. k \in Keys /\ ~panicked
    BY <1>3 DEF Keys, Sound
  <2>2. NoConflicts(registered[k]) /\ b \in Built
    BY <2>1 DEF Registration, Types, Represented, Sound
  <2>3. b.node = own /\ b.patterns = registered[k]
    BY DEF Tree
  <2> HIDE DEF b
  <2>4. Toggle(Toggle(path)) = path /\ Astray(b.node, path) => ~Astray(b.node, Toggle(path))
    BY <2>2, <2>3, TreeAssumption
  <2> QED
    BY <1>2, <2>3, <2>4
<1>5. d.kind # "redirect"
  <2>1. Found("main", m, other) \/ ~Redirects(other, Lookup("main", m, other))
    BY <1>4 DEF Redirects, Found, Lookup, Astray
  <2> QED
    BY <2>1, DispatchKinds
<1>6. CASE Delegates(d) = {}
  BY <1>5, <1>6 DEF Serve, Forward, Delegated
<1>7. CASE Delegates(d) # {}
  <2> DEFINE under == Delegates(d)
             one == CHOOSE q \in under : TRUE
  <2>1. one \in under /\ Serve(m, other) = dispatch("sub", m, Stripped(one, other))
    BY <1>7 DEF Serve, Forward, Delegated
  <2> HIDE DEF one
  <2>2. one \in Prefixes /\ Below(one, other)
    BY <1>3, <2>1, DelegatesBelow
  <2>3. one \in Seq(Bytes) /\ path \in Seq(Bytes) /\ other \in Seq(Bytes)
    BY <1>3, <2>2, PrefixType, BytesType
  <2>4. Stripped(one, other) = <<"/">>
    <3>1. CASE other = one
      BY <3>1 DEF Stripped
    <3>2. CASE other # one
      <4>1. d.pattern \in {one, one \o CatchAll} /\ d.kind = "route"
        BY <2>1, MountElements DEF Delegates
      <4>2. Matches(d.pattern, other) /\ d.pattern \in registered[<<"main", m>>]
        BY <1>3, <2>1, <4>1, ServedMatches, DelegateRegistered
      <4>3. d.pattern = one \o CatchAll
        BY <1>3, <2>2, <3>2, <4>1, <4>2, MountAssumption
      <4>4. ~Matches(one \o CatchAll, path)
        <5>1. ~Matches(d.pattern, path)
          BY <1>1, <1>3, <4>2, Finds
        <5> QED
          BY <4>3, <5>1
      <4>5. path = one \/ ~Below(one, path)
        BY <2>2, <4>4, MountAssumption
      <4>6. path = one
        BY <1>3, <2>2, <2>3, <3>2, <4>5, ToggleBelow
      <4>7. Len(other) <= Len(one) + 1
        BY <1>3, <2>3, <4>6, ToggleCases
      <4> QED
        BY <2>2, <2>3, <4>7, StrippedRoot
    <3> QED
      BY <3>1, <3>2
  <2> QED
    BY <2>1, <2>4, RootStays
<1> QED
  BY <1>6, <1>7

\* A redirect leads to a path that is shorter, or that is answered.
LEMMA RedirectLeads ==
  ASSUME Registration, Sound, NEW m \in AllMethods, NEW path \in Paths,
         Serve(m, path).kind = "redirect"
  PROVE  LET to == Serve(m, path).to
         IN  \/ to \in Paths /\ Len(to) < Len(path)
             \/ Serve(m, to).kind # "redirect"
<1> DEFINE d == dispatch("main", m, path)
<1>1. ASSUME NEW r, NEW p, dispatch(r, m, p).kind = "redirect"
      PROVE  p # <<"/">> /\ dispatch(r, m, p).to = Toggle(p)
  <2>1. ~Found(r, m, p) /\ Redirects(p, Lookup(r, m, p))
    BY <1>1, DispatchKinds
  <2>2. dispatch(r, m, p) = Redirect(r, Toggle(p))
    BY <2>1, Decisions
  <2> QED
    BY <2>1, <2>2 DEF Redirects, Redirect, Answer
<1>2. path \in Seq(Bytes)
  BY BytesType
<1>3. CASE Delegates(d) = {}
  <2>1. Serve(m, path) = d
    BY <1>3 DEF Serve, Forward, Delegated
  <2>2. path # <<"/">> /\ Serve(m, path).to = Toggle(path) /\ d.kind = "redirect"
    BY <1>1, <2>1
  <2>3. path # <<>> /\ Toggle(path) \in Paths
    BY <2>2, PatternsAssumption
  <2>4. CASE Toggle(Toggle(path)) = path
    BY <2>2, <2>4, MainRedirects
  <2>5. CASE Toggle(Toggle(path)) # path
    <3>1. Len(Toggle(path)) = Len(path) - 1 /\ Len(path) \in Nat
      BY <1>2, <2>3, <2>5, ToggleCases
    <3> QED
      BY <2>2, <2>3, <3>1
  <2> QED
    BY <2>4, <2>5
<1>4. CASE Delegates(d) # {}
  <2> DEFINE under == Delegates(d)
             one == CHOOSE q \in under : TRUE
             rest == Stripped(one, path)
  <2>1. one \in under /\ Serve(m, path) = dispatch("sub", m, rest)
    BY <1>4 DEF Serve, Forward, Delegated
  <2> HIDE DEF one
  <2>2. one \in Prefixes /\ Below(one, path)
    BY <2>1, DelegatesBelow
  <2>3. rest # <<"/">> /\ Serve(m, path).to = Toggle(rest)
    BY <1>1, <2>1
  <2>4. path # one
    BY <2>3 DEF Stripped
  <2>5. rest \in Paths /\ Len(one) > 1
    BY <2>2, MountAssumption
  <2>6. rest # <<>> /\ Toggle(rest) \in Paths
    BY <2>3, <2>5, PatternsAssumption
  <2>7. one \in Seq(Bytes)
    BY <2>2, PrefixType
  <2>8. rest \in Seq(Bytes) /\ Len(rest) = Len(path) - Len(one)
    BY <1>2, <2>2, <2>4, <2>7, StrippedBytes
  <2> HIDE DEF rest
  <2>9. Len(Toggle(rest)) <= Len(rest) + 1
    BY <2>6, <2>8, ToggleCases
  <2>10. /\ Len(Toggle(rest)) \in Nat /\ Len(rest) \in Nat /\ Len(path) \in Nat
         /\ Len(one) \in Nat
    BY <1>2, <2>6, <2>7, <2>8, BytesType
  <2>11. Len(Toggle(rest)) < Len(path)
    BY <2>5, <2>8, <2>9, <2>10
  <2> QED
    BY <2>3, <2>6, <2>11
<1> QED
  BY <1>3, <1>4

\* f is the solution of the recursion in RedirectsEnd.
IsHop(f, m, d, n) ==
  f = [i \in 0 .. n |-> IF i = 0 THEN d ELSE Follow(m, f[i - 1])]

\* What such a solution satisfies.
LEMMA IsHopSteps ==
  ASSUME NEW n \in Nat, NEW f, NEW m, NEW d, IsHop(f, m, d, n)
  PROVE  f[0] = d /\ \A i \in 1 .. n : f[i] = Follow(m, f[i - 1])
<1> DEFINE e(i) == IF i = 0 THEN d ELSE Follow(m, f[i - 1])
<1>1. f = [i \in 0 .. n |-> e(i)]
  BY DEF IsHop
<1> HIDE DEF e
<1>2. \A i \in 0 .. n : f[i] = e(i)
  BY <1>1
<1> QED
  BY <1>2 DEF e

\* There is one.
LEMMA IsHopExists == ASSUME NEW m, NEW d PROVE \A n \in Nat : \E f : IsHop(f, m, d, n)
<1> DEFINE S == {n \in Nat : \E f : IsHop(f, m, d, n)}
<1>1. 0 \in S
  <2>1. IsHop([i \in 0 .. 0 |-> d], m, d, 0)
    BY DEF IsHop
  <2> QED
    BY <2>1
<1>2. ASSUME NEW n \in Nat, n \in S PROVE n + 1 \in S
  <2>1. PICK f : IsHop(f, m, d, n)
    BY <1>2
  <2> DEFINE e == Follow(m, f[n])
             g == [i \in 0 .. n + 1 |-> IF i = n + 1 THEN e ELSE f[i]]
             h(i) == IF i = 0 THEN d ELSE Follow(m, g[i - 1])
  <2>2. f[0] = d /\ \A i \in 1 .. n : f[i] = Follow(m, f[i - 1])
    BY <2>1, IsHopSteps
  <2> HIDE DEF e
  <2>3. /\ \A i \in 0 .. n : g[i] = f[i]
        /\ g[n + 1] = e /\ g = [i \in 0 .. n + 1 |-> g[i]]
    OBVIOUS
  <2> HIDE DEF g
  <2>4. ASSUME NEW i \in 0 .. n + 1 PROVE g[i] = h(i)
    <3>1. CASE i = 0
      <4>1. 0 \in 0 .. n
        OBVIOUS
      <4>2. g[0] = d
        BY <2>2, <2>3, <4>1
      <4> QED
        BY <3>1, <4>2
    <3>2. CASE i = n + 1
      <4>1. i - 1 = n /\ n \in 0 .. n /\ i # 0
        BY <3>2
      <4>2. g[n] = f[n] /\ g[i] = e
        BY <2>3, <3>2, <4>1
      <4> QED
        BY <3>2, <4>1, <4>2 DEF e
    <3>3. CASE i \in 1 .. n
      <4>1. i - 1 \in 0 .. n /\ i # 0 /\ i \in 0 .. n
        BY <3>3
      <4>2. g[i] = f[i] /\ g[i - 1] = f[i - 1]
        BY <2>3, <4>1
      <4> QED
        BY <2>2, <3>3, <4>1, <4>2
    <3> QED
      BY <3>1, <3>2, <3>3
  <2> HIDE DEF h
  <2>5. g = [i \in 0 .. n + 1 |-> h(i)]
    BY <2>3, <2>4
  <2>6. IsHop(g, m, d, n + 1)
    BY <2>5 DEF IsHop, h
  <2> QED
    BY <2>6
<1> HIDE DEF S
<1>3. Nat \subseteq S
  BY <1>1, <1>2, NaturalInduction
<1> QED
  BY <1>3 DEF S

\* After i hops a client has an answer, or is redirected from a path that is
\* shorter by i bytes.
LEMMA HopsEnd ==
  ASSUME Registration, Sound, NEW m \in AllMethods, NEW path \in Paths
  PROVE  LET hop[i \in 0 .. Len(path)] ==
               IF i = 0 THEN Serve(m, path) ELSE Follow(m, hop[i - 1])
         IN  hop[Len(path)].kind # "redirect"
<1> DEFINE n == Len(path)
           f == CHOOSE f : IsHop(f, m, Serve(m, path), n)
           Way(i) == f[i].kind = "redirect" =>
                       \E p \in Paths : f[i] = Serve(m, p) /\ Len(p) + i <= n
           S == {i \in Nat : i <= n => Way(i)}
<1>1. n \in Nat
  BY BytesType
<1>2. IsHop(f, m, Serve(m, path), n)
  BY <1>1, IsHopExists
<1>3. f[0] = Serve(m, path) /\ \A i \in 1 .. n : f[i] = Follow(m, f[i - 1])
  BY <1>1, <1>2, IsHopSteps
<1> SUFFICES f[n].kind # "redirect"
  BY DEF IsHop
<1> HIDE DEF f, n
<1>4. 0 \in S
  BY <1>1, <1>3 DEF n
<1>5. ASSUME NEW i \in Nat, i \in S PROVE i + 1 \in S
  <2> SUFFICES ASSUME i + 1 <= n, f[i + 1].kind = "redirect"
               PROVE  \E p \in Paths : f[i + 1] = Serve(m, p) /\ Len(p) + (i + 1) <= n
    OBVIOUS
  <2>1. f[i + 1] = Follow(m, f[i]) /\ Way(i)
    BY <1>1, <1>3, <1>5
  <2>2. f[i].kind = "redirect" /\ f[i + 1] = Serve(m, f[i].to)
    BY <2>1 DEF Follow
  <2>3. PICK p \in Paths : f[i] = Serve(m, p) /\ Len(p) + i <= n
    BY <2>1, <2>2
  <2>4. f[i].to \in Paths /\ Len(f[i].to) < Len(p)
    BY <2>2, <2>3, RedirectLeads
  <2>5. Len(f[i].to) \in Nat /\ Len(p) \in Nat
    BY <2>4, BytesType
  <2> DEFINE k == Len(p)
             l == Len(f[i].to)
  <2>6. l + (i + 1) <= n
    <3>1. k \in Nat /\ l \in Nat /\ l < k /\ k + i <= n
      BY <2>3, <2>4, <2>5
    <3> HIDE DEF k, l
    <3> QED
      BY <1>1, <3>1
  <2> QED
    BY <2>2, <2>4, <2>6
<1> HIDE DEF S
<1>6. Nat \subseteq S
  BY <1>4, <1>5, NaturalInduction
<1>7. Way(n)
  BY <1>1, <1>6 DEF S
<1>8. ASSUME NEW p \in Paths, Len(p) + n <= n PROVE FALSE
  <2>1. p \in Seq(Bytes) /\ p # <<>>
    BY BytesType, PatternsAssumption
  <2>2. Len(p) \in Nat /\ Len(p) # 0
    BY <2>1
  <2> QED
    BY <1>1, <1>8, <2>2
<1> QED
  BY <1>7, <1>8

\* A client that follows redirects gets another answer in the end, even if the
\* mounted router redirects it out of the mount.
THEOREM ClientsAreAnswered == Spec => []RedirectsEnd
<1>1. Registration => RedirectsEnd
  BY HopsEnd DEF RedirectsEnd
<1> QED
  BY <1>1, RegistrationHolds, PTL
=============================================================================
