---------------------------- MODULE LayersProofs ----------------------------
(***************************************************************************)
(* Proofs about Layers: the context that layers find again, the writers    *)
(* that lead to the connection, what Logger logs, and what the client gets *)
(* of a body and of a failure.                                             *)
(***************************************************************************)
EXTENDS Layers, Induction, FiniteSetTheorems, SequenceTheorems

-----------------------------------------------------------------------------
(* The way from a writer to the connection.                                *)

\* f is the solution of the recursion in Way.
IsWay(f, u, w, n) == f = [i \in 0 .. n |-> IF i = 0 THEN w ELSE u[f[i - 1]]]

\* What such a solution satisfies.
LEMMA IsWaySteps ==
  ASSUME NEW n \in Nat, NEW f, NEW u, NEW w, IsWay(f, u, w, n)
  PROVE  /\ DOMAIN f = 0 .. n /\ f[0] = w
         /\ \A i \in 1 .. n : f[i] = u[f[i - 1]]
<1> DEFINE e(i) == IF i = 0 THEN w ELSE u[f[i - 1]]
<1>1. f = [i \in 0 .. n |-> e(i)]
  BY DEF IsWay
<1> HIDE DEF e
<1>2. DOMAIN f = 0 .. n /\ \A i \in 0 .. n : f[i] = e(i)
  BY <1>1
<1> QED
  BY <1>2 DEF e

\* There is one.
LEMMA IsWayExists == \A n \in Nat : \A u, w : \E f : IsWay(f, u, w, n)
<1> DEFINE S == {n \in Nat : \A u, w : \E f : IsWay(f, u, w, n)}
<1>1. 0 \in S
  <2> SUFFICES ASSUME NEW u, NEW w PROVE \E f : IsWay(f, u, w, 0)
    OBVIOUS
  <2> WITNESS [i \in 0 .. 0 |-> w]
  <2> QED
    BY DEF IsWay
<1>2. ASSUME NEW n \in Nat, n \in S PROVE n + 1 \in S
  <2> SUFFICES ASSUME NEW u, NEW w PROVE \E f : IsWay(f, u, w, n + 1)
    OBVIOUS
  <2>1. PICK f : IsWay(f, u, w, n)
    BY <1>2
  <2> DEFINE e == u[f[n]]
             g == [i \in 0 .. n + 1 |-> IF i = n + 1 THEN e ELSE f[i]]
             h(i) == IF i = 0 THEN w ELSE u[g[i - 1]]
  <2>2. f[0] = w /\ \A i \in 1 .. n : f[i] = u[f[i - 1]]
    BY <2>1, IsWaySteps
  <2> HIDE DEF e
  <2>3. /\ \A i \in 0 .. n : g[i] = f[i]
        /\ g[n + 1] = e /\ g = [i \in 0 .. n + 1 |-> g[i]]
    OBVIOUS
  <2> HIDE DEF g
  <2>4. ASSUME NEW i \in 0 .. n + 1 PROVE g[i] = h(i)
    <3>1. CASE i = 0
      <4>1. 0 \in 0 .. n
        OBVIOUS
      <4>2. g[0] = w
        BY <2>2, <2>3, <4>1
      <4> QED
        BY <3>1, <4>2
    <3>2. CASE i = n + 1
      <4>1. i - 1 = n /\ n \in 0 .. n /\ i # 0
        BY <3>2
      <4>2. g[n] = f[n] /\ g[i] = e
        BY <2>3, <3>2, <4>1
      <4> QED
        BY <3>2, <4>1, <4>2 DEF e
    <3>3. CASE i \in 1 .. n
      <4>1. i - 1 \in 0 .. n /\ i # 0 /\ i \in 0 .. n
        BY <3>3
      <4>2. g[i] = f[i] /\ g[i - 1] = f[i - 1]
        BY <2>3, <4>1
      <4> QED
        BY <2>2, <3>3, <4>1, <4>2
    <3> QED
      BY <3>1, <3>2, <3>3
  <2> HIDE DEF h
  <2>5. g = [i \in 0 .. n + 1 |-> h(i)]
    BY <2>3, <2>4
  <2>6. IsWay(g, u, w, n + 1)
    BY <2>5 DEF IsWay, h
  <2> QED
    BY <2>6
<1> HIDE DEF S
<1>3. Nat \subseteq S
  BY <1>1, <1>2, NaturalInduction
<1> QED
  BY <1>3 DEF S

\* The bounds are numbers.
LEMMA DepthNat == MaxDepth \in Nat /\ MaxLayers \in Nat /\ MaxDepth = MaxLayers + 2
BY LayersAssumption DEF MaxDepth

\* The steps of a way.
LEMMA WaySteps ==
  ASSUME NEW o, NEW w
  PROVE  /\ Way(o, w)[0] = w
         /\ \A i \in 1 .. MaxDepth : Way(o, w)[i] = o.under[Way(o, w)[i - 1]]
<1> DEFINE f == CHOOSE f : IsWay(f, o.under, w, MaxDepth)
<1>1. IsWay(f, o.under, w, MaxDepth)
  BY DepthNat, IsWayExists
<1>2. Way(o, w) = f
  BY DEF Way, IsWay
<1> HIDE DEF f
<1>3. f[0] = w /\ \A i \in 1 .. MaxDepth : f[i] = o.under[f[i - 1]]
  BY <1>1, IsWaySteps, DepthNat
<1> QED
  BY <1>2, <1>3

\* The way of a writer is the writer and the way of the one below it.
LEMMA WayShift ==
  ASSUME NEW o, NEW w
  PROVE  \A i \in 0 .. MaxDepth - 1 : Way(o, w)[i + 1] = Way(o, o.under[w])[i]
<1> DEFINE v == o.under[w]
           S == {i \in Nat : i < MaxDepth => Way(o, w)[i + 1] = Way(o, v)[i]}
<1>1. 0 \in S
  BY WaySteps, DepthNat
<1>2. ASSUME NEW i \in Nat, i \in S PROVE i + 1 \in S
  <2> SUFFICES ASSUME i + 1 < MaxDepth
               PROVE  Way(o, w)[(i + 1) + 1] = Way(o, v)[i + 1]
    OBVIOUS
  <2>1. Way(o, w)[i + 1] = Way(o, v)[i]
    BY <1>2, DepthNat
  <2>2. Way(o, v)[i + 1] = o.under[Way(o, v)[(i + 1) - 1]]
    BY WaySteps, DepthNat
  <2>3. Way(o, w)[(i + 1) + 1] = o.under[Way(o, w)[((i + 1) + 1) - 1]]
    BY WaySteps, DepthNat
  <2>4. (i + 1) - 1 = i /\ ((i + 1) + 1) - 1 = i + 1
    OBVIOUS
  <2> QED
    BY <2>1, <2>2, <2>3, <2>4
<1> HIDE DEF S
<1>3. Nat \subseteq S
  BY <1>1, <1>2, NaturalInduction
<1> QED
  BY <1>3, DepthNat DEF S

\* It depends on nothing but what is below what.
LEMMA WaySame ==
  ASSUME NEW o, NEW p, o.under = p.under, NEW w
  PROVE  \A i \in 0 .. MaxDepth : Way(o, w)[i] = Way(p, w)[i]
<1> DEFINE S == {i \in Nat : i <= MaxDepth => Way(o, w)[i] = Way(p, w)[i]}
<1>1. 0 \in S
  BY WaySteps
<1>2. ASSUME NEW i \in Nat, i \in S PROVE i + 1 \in S
  <2> SUFFICES ASSUME i + 1 <= MaxDepth
               PROVE  Way(o, w)[i + 1] = Way(p, w)[i + 1]
    OBVIOUS
  <2>1. Way(o, w)[i] = Way(p, w)[i]
    BY <1>2, DepthNat
  <2>2. /\ Way(o, w)[i + 1] = o.under[Way(o, w)[(i + 1) - 1]]
        /\ Way(p, w)[i + 1] = p.under[Way(p, w)[(i + 1) - 1]]
    BY WaySteps, DepthNat
  <2>3. (i + 1) - 1 = i
    OBVIOUS
  <2> QED
    BY <2>1, <2>2, <2>3
<1> HIDE DEF S
<1>3. Nat \subseteq S
  BY <1>1, <1>2, NaturalInduction
<1> QED
  BY <1>3, DepthNat DEF S

-----------------------------------------------------------------------------
(* Responses.                                                              *)

Encodings == {"identity", "gzip"}

\* o is a value of the variable out.
IsOut(o) ==
  /\ DOMAIN o = {"under", "recorded", "begun", "buffer", "header", "status",
                 "encoding", "body"}
  /\ o = [x \in DOMAIN o |-> o[x]]
  /\ o.under \in [Writers -> Writers] /\ o.recorded \in [Contexts -> Nat]
  /\ o.begun \subseteq Layer /\ o.buffer = [i \in Layer |-> o.buffer[i]]
  /\ o.header \in Encodings /\ o.status \in Nat /\ o.encoding \in Encodings

\* A header leaves the writers as they are.
LEMMA HeaderKeeps ==
  ASSUME NEW o, IsOut(o), NEW w, NEW code \in Nat
  PROVE  LET p == WriteHeader(o, w, code)
         IN  /\ IsOut(p) /\ p.under = o.under /\ p.header = o.header
             /\ p.begun = o.begun /\ p.buffer = o.buffer /\ p.body = o.body
BY DEF IsOut, WriteHeader, Encodings

\* The kinds of writers, which differ from each other.
LEMMA WritersKinds ==
  /\ Wire \in Writers /\ \A c \in Contexts : Base(c) \in Writers
  /\ \A i \in Layer : Gzip(i) \in Writers
  /\ \A w \in Writers :
       \/ w = Wire
       \/ w[1] = "base" /\ w[2] \in Contexts /\ w = Base(w[2]) /\ w # Wire
       \/ w[1] = "gzip" /\ w[2] \in Layer /\ w = Gzip(w[2]) /\ w # Wire
       \/ w[1] = "wrapper" /\ w # Wire
BY DEF Writers, Wire, Base, Gzip, Wrapper

\* One writer of a Write leaves the writers as they are.
LEMMA WriteAtKeeps ==
  ASSUME NEW o, IsOut(o), NEW v \in Writers, NEW token
  PROVE  LET s == WriteAt(o, v, token)
         IN  /\ IsOut(s.out) /\ s.out.under = o.under /\ s.out.header = o.header
             /\ s = [out |-> s.out, pass |-> s.pass]
             /\ s.pass = <<>> \/ s.pass = <<s.pass[1]>>
             /\ v = Wire => s.pass = <<>>
<1> DEFINE E(st) == Ensure(o, v, st)
<1>1. ASSUME NEW st PROVE IsOut(E(st)) /\ E(st).under = o.under /\ E(st).header = o.header
  BY HeaderKeeps DEF Ensure
<1> HIDE DEF E
<1>2. CASE v = Wire
  <2>1. WriteAt(o, v, token) =
          [out |-> IF E(o.status).status = 204 THEN E(o.status)
                   ELSE [E(o.status) EXCEPT !.body = Append(@, token)],
           pass |-> <<>>]
    <3>1. v[1] # "base" /\ v[1] # "gzip"
      BY <1>2 DEF Wire
    <3> QED
      BY <1>2, <3>1 DEF WriteAt, E
  <2> DEFINE p == E(o.status)
             q == [p EXCEPT !.body = Append(@, token)]
  <2>2. IsOut(p) /\ p.under = o.under /\ p.header = o.header
    BY <1>1
  <2> HIDE DEF p
  <2>3. IsOut(q) /\ q.under = p.under /\ q.header = p.header
    BY <2>2 DEF IsOut
  <2> HIDE DEF q
  <2> QED
    BY <2>1, <2>2, <2>3 DEF p, q
<1>3. CASE v[1] = "base" /\ v # Wire
  <2>1. WriteAt(o, v, token) = [out |-> E(o.recorded[v[2]]), pass |-> <<token>>]
    BY <1>3 DEF WriteAt, E
  <2> QED
    BY <1>1, <1>3, <2>1
<1>4. CASE v[1] = "gzip" /\ v # Wire
  <2>1. WriteAt(o, v, token) =
          [out |-> [E(Status(o, v)) EXCEPT !.begun = @ \cup {v[2]},
                                           !.buffer[v[2]] = Append(@, token)],
           pass |-> IF v[2] \in o.begun THEN <<>> ELSE <<GzipHeader>>]
    BY <1>4 DEF WriteAt, E
  <2>2. v[2] \in Layer
    BY <1>4, WritersKinds
  <2> DEFINE p == E(Status(o, v))
             q == [p EXCEPT !.begun = @ \cup {v[2]},
                            !.buffer[v[2]] = Append(@, token)]
  <2>3. IsOut(p) /\ p.under = o.under /\ p.header = o.header
    BY <1>1
  <2> HIDE DEF p
  <2>4. IsOut(q) /\ q.under = p.under /\ q.header = p.header
    BY <2>2, <2>3 DEF IsOut
  <2> HIDE DEF q
  <2>5. WriteAt(o, v, token) =
          [out |-> q, pass |-> IF v[2] \in o.begun THEN <<>> ELSE <<GzipHeader>>]
    BY <2>1 DEF p, q
  <2> QED
    BY <1>4, <2>3, <2>4, <2>5
<1>5. CASE v[1] = "wrapper" /\ v # Wire
  <2>1. WriteAt(o, v, token) = [out |-> o, pass |-> <<token>>]
    BY <1>5 DEF WriteAt
  <2> QED
    BY <1>5, <2>1
<1> QED
  BY <1>2, <1>3, <1>4, <1>5, WritersKinds

\* Every writer on a way is one.
LEMMA WayWriters ==
  ASSUME NEW o, IsOut(o), NEW w \in Writers
  PROVE  \A i \in 0 .. MaxDepth : Way(o, w)[i] \in Writers
<1> DEFINE S == {i \in Nat : i <= MaxDepth => Way(o, w)[i] \in Writers}
<1>1. 0 \in S
  BY WaySteps
<1>2. ASSUME NEW i \in Nat, i \in S PROVE i + 1 \in S
  <2> SUFFICES ASSUME i + 1 <= MaxDepth PROVE Way(o, w)[i + 1] \in Writers
    OBVIOUS
  <2>1. Way(o, w)[i] \in Writers
    BY <1>2, DepthNat
  <2>2. Way(o, w)[i + 1] = o.under[Way(o, w)[(i + 1) - 1]] /\ (i + 1) - 1 = i
    BY WaySteps, DepthNat
  <2> QED
    BY <2>1, <2>2 DEF IsOut
<1> HIDE DEF S
<1>3. Nat \subseteq S
  BY <1>1, <1>2, NaturalInduction
<1> QED
  BY <1>3, DepthNat DEF S

\* f is the solution of the recursion in Write, over the way.
IsWrite(f, s, way, n) ==
  f = [i \in 0 .. n |-> IF i = 0 THEN s ELSE Pass(f[i - 1], way[i - 1])]

\* What such a solution satisfies.
LEMMA IsWriteSteps ==
  ASSUME NEW n \in Nat, NEW f, NEW s, NEW way, IsWrite(f, s, way, n)
  PROVE  /\ DOMAIN f = 0 .. n /\ f[0] = s
         /\ \A i \in 1 .. n : f[i] = Pass(f[i - 1], way[i - 1])
<1> DEFINE e(i) == IF i = 0 THEN s ELSE Pass(f[i - 1], way[i - 1])
<1>1. f = [i \in 0 .. n |-> e(i)]
  BY DEF IsWrite
<1> HIDE DEF e
<1>2. DOMAIN f = 0 .. n /\ \A i \in 0 .. n : f[i] = e(i)
  BY <1>1
<1> QED
  BY <1>2 DEF e

\* There is one.
LEMMA IsWriteExists == \A n \in Nat : \A s, way : \E f : IsWrite(f, s, way, n)
<1> DEFINE S == {n \in Nat : \A s, way : \E f : IsWrite(f, s, way, n)}
<1>1. 0 \in S
  <2> SUFFICES ASSUME NEW s, NEW way PROVE \E f : IsWrite(f, s, way, 0)
    OBVIOUS
  <2> WITNESS [i \in 0 .. 0 |-> s]
  <2> QED
    BY DEF IsWrite
<1>2. ASSUME NEW n \in Nat, n \in S PROVE n + 1 \in S
  <2> SUFFICES ASSUME NEW s, NEW way PROVE \E f : IsWrite(f, s, way, n + 1)
    OBVIOUS
  <2>1. PICK f : IsWrite(f, s, way, n)
    BY <1>2
  <2> DEFINE e == Pass(f[n], way[n])
             g == [i \in 0 .. n + 1 |-> IF i = n + 1 THEN e ELSE f[i]]
             h(i) == IF i = 0 THEN s ELSE Pass(g[i - 1], way[i - 1])
  <2>2. f[0] = s /\ \A i \in 1 .. n : f[i] = Pass(f[i - 1], way[i - 1])
    BY <2>1, IsWriteSteps
  <2> HIDE DEF e
  <2>3. /\ \A i \in 0 .. n : g[i] = f[i]
        /\ g[n + 1] = e /\ g = [i \in 0 .. n + 1 |-> g[i]]
    OBVIOUS
  <2> HIDE DEF g
  <2>4. ASSUME NEW i \in 0 .. n + 1 PROVE g[i] = h(i)
    <3>1. CASE i = 0
      <4>1. 0 \in 0 .. n
        OBVIOUS
      <4>2. g[0] = s
        BY <2>2, <2>3, <4>1
      <4> QED
        BY <3>1, <4>2
    <3>2. CASE i = n + 1
      <4>1. i - 1 = n /\ n \in 0 .. n /\ i # 0
        BY <3>2
      <4>2. g[n] = f[n] /\ g[i] = e
        BY <2>3, <3>2, <4>1
      <4> QED
        BY <3>2, <4>1, <4>2 DEF e
    <3>3. CASE i \in 1 .. n
      <4>1. i - 1 \in 0 .. n /\ i # 0 /\ i \in 0 .. n
        BY <3>3
      <4>2. g[i] = f[i] /\ g[i - 1] = f[i - 1]
        BY <2>3, <4>1
      <4> QED
        BY <2>2, <3>3, <4>1, <4>2
    <3> QED
      BY <3>1, <3>2, <3>3
  <2> HIDE DEF h
  <2>5. g = [i \in 0 .. n + 1 |-> h(i)]
    BY <2>3, <2>4
  <2>6. IsWrite(g, s, way, n + 1)
    BY <2>5 DEF IsWrite, h
  <2> QED
    BY <2>6
<1> HIDE DEF S
<1>3. Nat \subseteq S
  BY <1>1, <1>2, NaturalInduction
<1> QED
  BY <1>3 DEF S

\* The steps of f are those of Write.
Writing(f, o, w, token) ==
  /\ f[0] = [out |-> o, pass |-> <<token>>]
  /\ \A i \in 0 .. MaxDepth : f[i + 1] = Pass(f[i], Way(o, w)[i])

\* Write takes one step at each writer of the way.
LEMMA WriteSteps ==
  ASSUME NEW o, NEW w, NEW token
  PROVE  \E f : Writing(f, o, w, token) /\ Write(o, w, token) = f[MaxDepth + 1].out
<1> DEFINE s == [out |-> o, pass |-> <<token>>]
           f == CHOOSE f : IsWrite(f, s, Way(o, w), MaxDepth + 1)
<1>1. IsWrite(f, s, Way(o, w), MaxDepth + 1)
  BY DepthNat, IsWriteExists
<1>2. Write(o, w, token) = f[MaxDepth + 1].out
  BY DEF Write, IsWrite
<1> HIDE DEF f
<1>3. /\ f[0] = s
      /\ \A i \in 1 .. MaxDepth + 1 : f[i] = Pass(f[i - 1], Way(o, w)[i - 1])
  BY <1>1, IsWriteSteps, DepthNat
<1>4. ASSUME NEW i \in 0 .. MaxDepth PROVE f[i + 1] = Pass(f[i], Way(o, w)[i])
  <2>1. i + 1 \in 1 .. MaxDepth + 1 /\ (i + 1) - 1 = i
    BY DepthNat
  <2> QED
    BY <1>3, <2>1
<1>5. Writing(f, o, w, token)
  BY <1>3, <1>4 DEF Writing
<1> QED
  BY <1>2, <1>5

\* A state of a write in progress.
IsPassing(s, o) ==
  /\ s = [out |-> s.out, pass |-> s.pass]
  /\ IsOut(s.out) /\ s.out.under = o.under /\ s.out.header = o.header
  /\ s.pass = <<>> \/ s.pass = <<s.pass[1]>>

\* So do all of them.
LEMMA WritingKeeps ==
  ASSUME NEW o, IsOut(o), NEW w \in Writers, NEW token, NEW f,
         Writing(f, o, w, token)
  PROVE  \A i \in 0 .. MaxDepth + 1 : IsPassing(f[i], o)
<1> DEFINE S == {i \in Nat : i <= MaxDepth + 1 => IsPassing(f[i], o)}
<1>1. 0 \in S
  BY DEF Writing, IsPassing
<1>2. ASSUME NEW i \in Nat, i \in S PROVE i + 1 \in S
  <2> SUFFICES ASSUME i + 1 <= MaxDepth + 1 PROVE IsPassing(f[i + 1], o)
    OBVIOUS
  <2>1. IsPassing(f[i], o) /\ i \in 0 .. MaxDepth
    BY <1>2, DepthNat
  <2>2. f[i + 1] = Pass(f[i], Way(o, w)[i]) /\ Way(o, w)[i] \in Writers
    BY <2>1, WayWriters DEF Writing
  <2>3. CASE f[i].pass = <<>>
    BY <2>1, <2>2, <2>3 DEF Pass
  <2>4. CASE f[i].pass # <<>>
    <3>1. f[i + 1] = WriteAt(f[i].out, Way(o, w)[i], f[i].pass[1])
      BY <2>2, <2>4 DEF Pass
    <3>2. IsOut(f[i].out) /\ f[i].out.under = o.under /\ f[i].out.header = o.header
      BY <2>1 DEF IsPassing
    <3> QED
      BY <2>2, <3>1, <3>2, WriteAtKeeps DEF IsPassing
  <2> QED
    BY <2>3, <2>4
<1> HIDE DEF S
<1>3. Nat \subseteq S
  BY <1>1, <1>2, NaturalInduction
<1> QED
  BY <1>3, DepthNat DEF S

\* Writes do not change which writer is below which.
LEMMA WriteKeeps ==
  ASSUME NEW o, IsOut(o), NEW w \in Writers, NEW token
  PROVE  LET p == Write(o, w, token)
         IN  IsOut(p) /\ p.under = o.under /\ p.header = o.header
<1>1. PICK f : Writing(f, o, w, token) /\ Write(o, w, token) = f[MaxDepth + 1].out
  BY WriteSteps
<1>2. IsPassing(f[MaxDepth + 1], o)
  BY <1>1, WritingKeeps, DepthNat
<1> QED
  BY <1>1, <1>2 DEF IsPassing

\* Once a token has been taken nothing more happens.
LEMMA WritingEnds ==
  ASSUME NEW o, NEW w, NEW token, NEW f, Writing(f, o, w, token),
         NEW j \in 0 .. MaxDepth + 1, f[j].pass = <<>>
  PROVE  \A i \in j .. MaxDepth + 1 : f[i] = f[j]
<1> DEFINE S == {i \in Nat : j + i <= MaxDepth + 1 => f[j + i] = f[j]}
<1>1. 0 \in S
  OBVIOUS
<1>2. ASSUME NEW i \in Nat, i \in S PROVE i + 1 \in S
  <2> SUFFICES ASSUME j + (i + 1) <= MaxDepth + 1 PROVE f[j + (i + 1)] = f[j]
    OBVIOUS
  <2>1. f[j + i] = f[j] /\ j + i \in 0 .. MaxDepth
    BY <1>2, DepthNat
  <2>2. f[(j + i) + 1] = Pass(f[j + i], Way(o, w)[j + i])
    BY <2>1 DEF Writing
  <2>3. j + (i + 1) = (j + i) + 1
    OBVIOUS
  <2> QED
    BY <2>1, <2>2, <2>3 DEF Pass
<1> HIDE DEF S
<1>3. Nat \subseteq S
  BY <1>1, <1>2, NaturalInduction
<1> SUFFICES ASSUME NEW i \in j .. MaxDepth + 1 PROVE f[i] = f[j]
  OBVIOUS
<1>4. i - j \in S /\ j + (i - j) = i /\ i <= MaxDepth + 1
  BY <1>3, DepthNat
<1> QED
  BY <1>4 DEF S

\* A write that ends at a writer, and one that goes on below it.
LEMMA WriteUnfolds ==
  ASSUME NEW o, IsOut(o), NEW w \in Writers, NEW token,
         NEW k \in 0 .. MaxDepth, Way(o, w)[k] = Wire
  PROVE  LET s == WriteAt(o, w, token)
         IN  Write(o, w, token) =
               IF s.pass = <<>> THEN s.out
               ELSE Write(s.out, o.under[w], s.pass[1])
<1> DEFINE s == WriteAt(o, w, token)
           v == o.under[w]
<1>1. PICK f : Writing(f, o, w, token) /\ Write(o, w, token) = f[MaxDepth + 1].out
  BY WriteSteps
<1>2. f[1] = s
  <2>1. f[0] = [out |-> o, pass |-> <<token>>] /\ f[0 + 1] = Pass(f[0], Way(o, w)[0])
    BY <1>1, DepthNat DEF Writing
  <2>2. Way(o, w)[0] = w /\ 0 + 1 = 1
    BY WaySteps
  <2>3. Pass(f[0], w) = WriteAt(o, w, token)
    BY <2>1 DEF Pass
  <2> QED
    BY <2>1, <2>2, <2>3
<1>3. IsPassing(s, o) /\ v \in Writers
  BY WriteAtKeeps DEF IsPassing, IsOut
<1>4. CASE s.pass = <<>>
  BY <1>1, <1>2, <1>4, WritingEnds, DepthNat
<1>5. CASE s.pass # <<>>
  <2>1. PICK g : /\ Writing(g, s.out, v, s.pass[1])
                 /\ Write(s.out, v, s.pass[1]) = g[MaxDepth + 1].out
    BY WriteSteps
  <2> HIDE DEF s, v
  <2>2. g[0] = s
    BY <1>3, <1>5, <2>1 DEF Writing, IsPassing
  <2> DEFINE S == {i \in Nat : i <= MaxDepth => f[i + 1] = g[i]}
  <2>3. 0 \in S
    BY <1>2, <2>2
  <2>4. ASSUME NEW i \in Nat, i \in S PROVE i + 1 \in S
    <3> SUFFICES ASSUME i + 1 <= MaxDepth PROVE f[(i + 1) + 1] = g[i + 1]
      OBVIOUS
    <3>1. f[i + 1] = g[i] /\ i \in 0 .. MaxDepth - 1 /\ i \in 0 .. MaxDepth
          /\ i + 1 \in 0 .. MaxDepth
      BY <2>4, DepthNat
    <3>2. f[(i + 1) + 1] = Pass(f[i + 1], Way(o, w)[i + 1])
      BY <1>1, <3>1 DEF Writing
    <3>3. g[i + 1] = Pass(g[i], Way(s.out, v)[i])
      BY <2>1, <3>1 DEF Writing
    <3>4. Way(o, w)[i + 1] = Way(o, v)[i]
      BY <3>1, WayShift DEF v
    <3>5. Way(o, v)[i] = Way(s.out, v)[i]
      BY <1>3, <3>1, WaySame DEF IsPassing
    <3> QED
      BY <3>1, <3>2, <3>3, <3>4, <3>5
  <2> HIDE DEF S
  <2>5. Nat \subseteq S
    BY <2>3, <2>4, NaturalInduction
  <2>6. f[MaxDepth + 1] = g[MaxDepth]
    BY <2>5, DepthNat DEF S
  <2>7. f[k + 1].pass = <<>>
    <3>1. f[k + 1] = Pass(f[k], Wire)
      BY <1>1 DEF Writing
    <3>2. CASE f[k].pass = <<>>
      BY <3>1, <3>2 DEF Pass
    <3>3. CASE f[k].pass # <<>>
      <4>1. f[k + 1] = WriteAt(f[k].out, Wire, f[k].pass[1])
        BY <3>1, <3>3 DEF Pass
      <4>2. IsOut(f[k].out)
        <5>1. k \in 0 .. MaxDepth + 1
          BY DepthNat
        <5> QED
          BY <1>1, <5>1, WritingKeeps DEF IsPassing
      <4> QED
        BY <4>1, <4>2, WriteAtKeeps, WritersKinds
    <3> QED
      BY <3>2, <3>3
  <2>8. f[MaxDepth + 1].pass = <<>>
    <3>1. k + 1 \in 0 .. MaxDepth + 1 /\ MaxDepth + 1 \in k + 1 .. MaxDepth + 1
      BY DepthNat
    <3> QED
      BY <1>1, <2>7, <3>1, WritingEnds
  <2>9. g[MaxDepth + 1] = Pass(g[MaxDepth], Way(s.out, v)[MaxDepth])
    BY <2>1, DepthNat DEF Writing
  <2>10. g[MaxDepth + 1] = g[MaxDepth]
    BY <2>6, <2>8, <2>9 DEF Pass
  <2> QED
    BY <1>1, <1>5, <2>1, <2>6, <2>10 DEF s, v
<1> QED
  BY <1>4, <1>5

-----------------------------------------------------------------------------
(* The state.                                                              *)

\* The program has no net/http middleware that wraps the writer it was given.
\* FromStd fails with such middleware: see the run std_wrapper.
NoWrapper == \A ch \in Chains : \A i \in DOMAIN ch : ch[i] # "wrapper"

Proper ==
  /\ chain \in Seq(Kinds) /\ Len(chain) \in 1 .. MaxLayers
  /\ \A i \in 1 .. Len(chain) :
       (chain[i] = "handler" <=> i = Len(chain)) /\ chain[i] # "wrapper"
  /\ \A i, j \in 1 .. Len(chain) :
       chain[i] = "mount" /\ chain[j] = "mount" => i = j

Types ==
  /\ Proper /\ accepts \in BOOLEAN /\ recovery \in BOOLEAN
  /\ at \in 0 .. Len(chain)
  /\ dir \in {"down", "up", "panic", "done", "aborted"}
  /\ IsOut(out) /\ writer \in [Contexts -> Writers] /\ path \in {"full", "rest"}
  /\ logged \in [Layer -> Nat \cup {None}] /\ saved \in [Layer -> Saved \cup {None}]
  /\ chunks \in Nat /\ failed \in Failure \cup {None}
  /\ err \in Nat \cup {None, ErrAbortHandler, OtherPanic}
  /\ dir = "up" => err \in (Nat \ {0}) \cup {None}
  /\ dir = "down" => err = None

\* Layer i has called Next.
Entered(i) == saved[i] # None

\* Layer i compresses.
Packs(i) == chain[i] = "compress" /\ accepts

\* The writer that layer i found when it was called.
Found(i) ==
  IF i = 1 THEN Base(1)
  ELSE IF chain[i - 1] = "mount" THEN Base(2) ELSE saved[i - 1].writer

\* The writers that layers before i have put into the Context c.
Live(c, i) ==
  {Base(c)} \cup
  {Gzip(j) : j \in {k \in 1 .. i - 1 : Entered(k) /\ Packs(k) /\ Ctx(k) = c}}

\* The path in front of layer i.
Place(i) == IF Ctx(i) = 2 THEN "rest" ELSE "full"

\* A panic has kept a layer from restoring what it changed.
Dirty ==
  \E i \in DOMAIN chain :
    <<i, "panic">> \in unwound /\ chain[i] \in {"compress", "mount"}

Running == dir \in {"down", "up", "panic"}

\* Control goes down the layers and comes back through the ones it passed.
Control ==
  /\ dir = "down" => at > 0 /\ \A i \in Layer : Entered(i) <=> i < at
  /\ dir \in {"up", "panic"} => \A i \in 1 .. at : Entered(i)
  /\ dir \in {"done", "aborted"} => at = 0
  /\ \A i \in Layer :
       Entered(i) => i < Len(chain) /\ \A j \in 1 .. i : Entered(j)

\* What a layer that has called Next did to the writers.
Placed(i) ==
  /\ saved[i] = [writer |-> IF Packs(i) THEN Gzip(i) ELSE Found(i),
                 path |-> Place(i + 1)]
  /\ Found(i) \in Live(Ctx(i), i)
  /\ Packs(i) => out.under[Gzip(i)] = Found(i)
  /\ chain[i] = "mount" => out.under[Base(2)] = Found(i)

Linked ==
  /\ out.under[Wire] = Wire /\ out.under[Base(1)] = Wire
  /\ \A i \in Layer : Entered(i) => Placed(i)

\* What the Contexts have.
Held ==
  /\ \A c \in Contexts : writer[c] \in Live(c, MaxLayers + 1)
  /\ dir = "down" => W = Found(at) /\ path = Place(at)
  /\ dir \in {"up", "panic"} /\ at > 0 /\ ~Dirty =>
       saved[at] = [writer |-> W, path |-> path]
  /\ Running => \A m \in 1 .. at - 1 :
       chain[m] = "mount" => writer[1] = saved[m].writer

Structure == Types /\ Control /\ Linked /\ Held

\* Contexts change at a mount.
LEMMA CtxSteps ==
  ASSUME Proper
  PROVE  /\ Ctx(1) = 1 /\ \A i \in Nat : Ctx(i) \in Contexts
         /\ \A i \in 1 .. Len(chain) :
              Ctx(i + 1) = IF chain[i] = "mount" THEN 2 ELSE Ctx(i)
         /\ \A i \in 1 .. Len(chain) : chain[i] = "mount" =>
              /\ Ctx(i) = 1
              /\ \A j \in 1 .. Len(chain) : Ctx(j) = 2 <=> j > i
         /\ \A i \in 1 .. Len(chain) : Ctx(i) = 2 =>
              \E m \in 1 .. i - 1 : chain[m] = "mount"
<1>1. Len(chain) \in Nat
  BY DEF Proper
<1>2. Ctx(1) = 1 /\ \A i \in Nat : Ctx(i) \in Contexts
  BY DEF Ctx, Contexts
<1>3. ASSUME NEW i \in 1 .. Len(chain)
      PROVE  Ctx(i + 1) = IF chain[i] = "mount" THEN 2 ELSE Ctx(i)
  <2>1. 1 .. (i + 1) - 1 = (1 .. i - 1) \cup {i}
    BY <1>1
  <2> QED
    BY <2>1 DEF Ctx
<1>4. ASSUME NEW i \in 1 .. Len(chain), chain[i] = "mount"
      PROVE  Ctx(i) = 1 /\ \A j \in 1 .. Len(chain) : Ctx(j) = 2 <=> j > i
  <2>1. \A j \in 1 .. Len(chain) : chain[j] = "mount" => i = j
    BY <1>4 DEF Proper
  <2> QED
    BY <1>1, <1>4, <2>1 DEF Ctx
<1>5. ASSUME NEW i \in 1 .. Len(chain), Ctx(i) = 2
      PROVE  \E m \in 1 .. i - 1 : chain[m] = "mount"
  BY <1>5 DEF Ctx
<1> QED
  BY <1>2, <1>3, <1>4, <1>5

-----------------------------------------------------------------------------
(* Every live writer leads to the connection.                              *)

\* The way from w goes through gzip writers, the writer of its Context c, the
\* h-th, and that of the first Context, the k-th and last before the connection.
Leads(o, w, c, h, k) ==
  /\ k \in 0 .. MaxLayers + 1 /\ h \in 0 .. k
  /\ Way(o, w)[h] = Base(c) /\ Way(o, w)[k] = Base(1) /\ (c = 1 <=> h = k)
  /\ \A i \in 0 .. k - 1 : i # h => Way(o, w)[i][1] = "gzip"
  /\ \A i \in k + 1 .. MaxDepth : Way(o, w)[i] = Wire

\* The connection leads to itself.
LEMMA WireWay ==
  ASSUME NEW o, o.under[Wire] = Wire
  PROVE  \A i \in 0 .. MaxDepth : Way(o, Wire)[i] = Wire
<1> DEFINE S == {i \in Nat : i <= MaxDepth => Way(o, Wire)[i] = Wire}
<1>1. 0 \in S
  BY WaySteps
<1>2. ASSUME NEW i \in Nat, i \in S PROVE i + 1 \in S
  <2> SUFFICES ASSUME i + 1 <= MaxDepth PROVE Way(o, Wire)[i + 1] = Wire
    OBVIOUS
  <2>1. Way(o, Wire)[i] = Wire
    BY <1>2, DepthNat
  <2>2. Way(o, Wire)[i + 1] = o.under[Way(o, Wire)[(i + 1) - 1]] /\ (i + 1) - 1 = i
    BY WaySteps, DepthNat
  <2> QED
    BY <2>1, <2>2
<1> HIDE DEF S
<1>3. Nat \subseteq S
  BY <1>1, <1>2, NaturalInduction
<1> QED
  BY <1>3, DepthNat DEF S

\* The writer of the main router is on top of the connection.
LEMMA BaseLeads ==
  ASSUME NEW o, o.under[Wire] = Wire, o.under[Base(1)] = Wire
  PROVE  Leads(o, Base(1), 1, 0, 0)
<1>1. Way(o, Base(1))[0] = Base(1)
  BY WaySteps
<1>2. ASSUME NEW i \in 0 + 1 .. MaxDepth PROVE Way(o, Base(1))[i] = Wire
  <2>1. i - 1 \in 0 .. MaxDepth - 1 /\ (i - 1) + 1 = i /\ i - 1 \in 0 .. MaxDepth
    BY DepthNat
  <2>2. Way(o, Base(1))[(i - 1) + 1] = Way(o, Wire)[i - 1]
    BY <2>1, WayShift
  <2> QED
    BY <2>1, <2>2, WireWay
<1> QED
  BY <1>1, <1>2, DepthNat DEF Leads

\* A writer above one that leads to the connection does.
LEMMA LeadsStep ==
  ASSUME NEW o, NEW w, NEW c \in Contexts, NEW h, NEW k \in 0 .. MaxLayers,
         Leads(o, o.under[w], c, h, k)
  PROVE  /\ w[1] = "gzip" => Leads(o, w, c, h + 1, k + 1)
         /\ w = Base(2) /\ c = 1 => Leads(o, w, 2, 0, k + 1)
<1> DEFINE v == o.under[w]
<1>1. /\ h \in 0 .. k /\ Way(o, v)[h] = Base(c) /\ Way(o, v)[k] = Base(1)
      /\ (c = 1 <=> h = k)
      /\ \A i \in 0 .. k - 1 : i # h => Way(o, v)[i][1] = "gzip"
      /\ \A i \in k + 1 .. MaxDepth : Way(o, v)[i] = Wire
  BY DEF Leads
<1>2. \A i \in 0 .. MaxDepth - 1 : Way(o, w)[i + 1] = Way(o, v)[i]
  BY WayShift
<1>3. Way(o, w)[0] = w
  BY WaySteps
<1> HIDE DEF v
<1>4. Way(o, w)[h + 1] = Base(c) /\ Way(o, w)[k + 1] = Base(1)
  BY <1>1, <1>2, DepthNat
<1>5. ASSUME NEW i \in (k + 1) + 1 .. MaxDepth PROVE Way(o, w)[i] = Wire
  <2>1. /\ i - 1 \in 0 .. MaxDepth - 1 /\ (i - 1) + 1 = i
        /\ i - 1 \in k + 1 .. MaxDepth
    BY DepthNat
  <2> QED
    BY <1>1, <1>2, <2>1
<1>6. ASSUME NEW i \in 1 .. k, i # h + 1 PROVE Way(o, w)[i][1] = "gzip"
  <2>1. /\ i - 1 \in 0 .. MaxDepth - 1 /\ (i - 1) + 1 = i
        /\ i - 1 \in 0 .. k - 1 /\ i - 1 # h
    BY <1>1, <1>6, DepthNat
  <2> QED
    BY <1>1, <1>2, <2>1
<1>7. ASSUME w[1] = "gzip" PROVE Leads(o, w, c, h + 1, k + 1)
  <2>1. \A i \in 0 .. (k + 1) - 1 : i # h + 1 => Way(o, w)[i][1] = "gzip"
    BY <1>3, <1>6, <1>7
  <2> QED
    BY <1>1, <1>4, <1>5, <2>1, DepthNat DEF Leads
<1>8. ASSUME w = Base(2), c = 1 PROVE Leads(o, w, 2, 0, k + 1)
  <2>1. \A i \in 0 .. (k + 1) - 1 : i # 0 => Way(o, w)[i][1] = "gzip"
    BY <1>1, <1>6, <1>8
  <2> QED
    BY <1>1, <1>3, <1>4, <1>5, <1>8, <2>1, DepthNat DEF Leads
<1> QED
  BY <1>7, <1>8

\* Live of the next layer.
LEMMA LiveStep ==
  ASSUME Types, NEW c \in Contexts, NEW n \in Nat
  PROVE  /\ Live(c, n) \subseteq Live(c, n + 1)
         /\ \A w \in Live(c, n + 1) : w \in Live(c, n) \/
              (w = Gzip(n) /\ n > 0 /\ Entered(n) /\ Packs(n) /\ Ctx(n) = c)
<1>1. 1 .. n - 1 \subseteq 1 .. (n + 1) - 1
  OBVIOUS
<1>2. \A k \in 1 .. (n + 1) - 1 : k \in 1 .. n - 1 \/ (k = n /\ n > 0)
  OBVIOUS
<1> QED
  BY <1>1, <1>2 DEF Live

\* Every writer of the main Context leads to the connection.
LEMMA LiveLeads1 ==
  ASSUME Types, Linked, NEW o, o.under = out.under
  PROVE  \A n \in 0 .. MaxLayers + 1 : \A w \in Live(1, n) :
           \E k \in 0 .. n : Leads(o, w, 1, k, k)
<1> DEFINE S == {n \in Nat : n <= MaxLayers + 1 => \A w \in Live(1, n) :
                   \E k \in 0 .. n : Leads(o, w, 1, k, k)}
<1>1. 1 \in Contexts
  BY DEF Contexts
<1>2. 0 \in S
  <2>1. Live(1, 0) = {Base(1)}
    BY DEF Live
  <2>2. Leads(o, Base(1), 1, 0, 0)
    BY BaseLeads DEF Linked
  <2> QED
    BY <2>1, <2>2
<1>3. ASSUME NEW n \in Nat, n \in S PROVE n + 1 \in S
  <2> SUFFICES ASSUME n + 1 <= MaxLayers + 1, NEW w \in Live(1, n + 1)
               PROVE  \E k \in 0 .. n + 1 : Leads(o, w, 1, k, k)
    OBVIOUS
  <2>1. \A v \in Live(1, n) : \E k \in 0 .. n : Leads(o, v, 1, k, k)
    BY <1>3, DepthNat
  <2>2. CASE w \in Live(1, n)
    BY <2>1, <2>2
  <2>3. CASE w = Gzip(n) /\ n > 0 /\ Entered(n) /\ Packs(n) /\ Ctx(n) = 1
    <3>1. n \in Layer
      BY <2>3, DepthNat DEF Layer
    <3>2. o.under[w] = Found(n) /\ Found(n) \in Live(1, n)
      BY <2>3, <3>1 DEF Linked, Placed
    <3>3. PICK k \in 0 .. n : Leads(o, o.under[w], 1, k, k)
      BY <2>1, <3>2
    <3>4. w[1] = "gzip"
      BY <2>3 DEF Gzip
    <3>5. k \in 0 .. MaxLayers
      BY <3>3, DepthNat
    <3>6. Leads(o, w, 1, k + 1, k + 1)
      BY <1>1, <3>3, <3>4, <3>5, LeadsStep
    <3> QED
      BY <3>3, <3>6
  <2> QED
    BY <1>1, <2>2, <2>3, LiveStep
<1> HIDE DEF S
<1>4. Nat \subseteq S
  BY <1>2, <1>3, NaturalInduction
<1> QED
  BY <1>4, DepthNat DEF S

\* So does every writer of the mounted one, through those of the main one.
LEMMA LiveLeads2 ==
  ASSUME Types, Linked, NEW o, o.under = out.under,
         NEW m \in 1 .. Len(chain), chain[m] = "mount", Entered(m)
  PROVE  \A n \in m + 1 .. MaxLayers + 1 : \A w \in Live(2, n) :
           \E h \in 0 .. n : \E k \in 0 .. n : Leads(o, w, 2, h, k)
<1> DEFINE S == {i \in Nat : (m + 1) + i <= MaxLayers + 1 =>
                   \A w \in Live(2, (m + 1) + i) :
                     \E h \in 0 .. (m + 1) + i : \E k \in 0 .. (m + 1) + i :
                       Leads(o, w, 2, h, k)}
<1>1. /\ 1 \in Contexts /\ 2 \in Contexts /\ m \in Nat /\ m \in Layer
      /\ Len(chain) \in Nat /\ Len(chain) <= MaxLayers /\ Ctx(m) = 1
      /\ \A j \in 1 .. Len(chain) : Ctx(j) = 2 <=> j > m
  BY CtxSteps, DepthNat DEF Contexts, Types, Proper, Layer
<1>2. 0 \in S
  <2>1. Live(2, (m + 1) + 0) = {Base(2)}
    BY <1>1 DEF Live
  <2>2. o.under[Base(2)] = Found(m) /\ Found(m) \in Live(1, m)
    BY <1>1 DEF Linked, Placed
  <2>3. m \in 0 .. MaxLayers + 1
    BY <1>1, DepthNat
  <2>4. PICK k \in 0 .. m : Leads(o, o.under[Base(2)], 1, k, k)
    BY <2>2, <2>3, LiveLeads1
  <2>5. k \in 0 .. MaxLayers
    BY <1>1, <2>4, DepthNat
  <2>6. Leads(o, Base(2), 2, 0, k + 1)
    BY <1>1, <2>4, <2>5, LeadsStep
  <2>7. 0 \in 0 .. (m + 1) + 0 /\ k + 1 \in 0 .. (m + 1) + 0
    BY <1>1, <2>4
  <2> QED
    BY <2>1, <2>6, <2>7
<1>3. ASSUME NEW i \in Nat, i \in S PROVE i + 1 \in S
  <2> DEFINE n == (m + 1) + i
  <2>0. (m + 1) + (i + 1) = n + 1 /\ n \in Nat /\ n > 0
    BY <1>1
  <2> SUFFICES ASSUME n + 1 <= MaxLayers + 1, NEW w \in Live(2, n + 1)
               PROVE  \E h \in 0 .. n + 1 : \E k \in 0 .. n + 1 : Leads(o, w, 2, h, k)
    BY <2>0
  <2>1. \A v \in Live(2, n) : \E h \in 0 .. n : \E k \in 0 .. n : Leads(o, v, 2, h, k)
    BY <1>3, <2>0, DepthNat
  <2> HIDE DEF n
  <2>2. CASE w \in Live(2, n)
    <3>1. 0 .. n \subseteq 0 .. n + 1
      BY <2>0
    <3>2. PICK h \in 0 .. n, k \in 0 .. n : Leads(o, w, 2, h, k)
      BY <2>1, <2>2
    <3> QED
      BY <3>1, <3>2
  <2>3. CASE w = Gzip(n) /\ n > 0 /\ Entered(n) /\ Packs(n) /\ Ctx(n) = 2
    <3>1. n \in Layer
      BY <2>0, <2>3, DepthNat DEF Layer
    <3>2. o.under[w] = Found(n) /\ Found(n) \in Live(2, n)
      BY <2>3, <3>1 DEF Linked, Placed
    <3>3. PICK h \in 0 .. n, k \in 0 .. n : Leads(o, o.under[w], 2, h, k)
      BY <2>1, <3>2
    <3>4. w[1] = "gzip"
      BY <2>3 DEF Gzip
    <3>5. k \in 0 .. MaxLayers /\ h + 1 \in 0 .. n + 1 /\ k + 1 \in 0 .. n + 1
      BY <2>0, <3>3, DepthNat
    <3>6. Leads(o, w, 2, h + 1, k + 1)
      BY <1>1, <3>3, <3>4, <3>5, LeadsStep
    <3> QED
      BY <3>5, <3>6
  <2> QED
    BY <1>1, <2>0, <2>2, <2>3, LiveStep
<1> HIDE DEF S
<1>4. Nat \subseteq S
  BY <1>2, <1>3, NaturalInduction
<1> SUFFICES ASSUME NEW n \in m + 1 .. MaxLayers + 1
             PROVE  \A w \in Live(2, n) :
                      \E h \in 0 .. n : \E k \in 0 .. n : Leads(o, w, 2, h, k)
  OBVIOUS
<1>5. n - (m + 1) \in S /\ (m + 1) + (n - (m + 1)) = n /\ n <= MaxLayers + 1
  BY <1>1, <1>4, DepthNat
<1> QED
  BY <1>5 DEF S

\* The Context c is in use.
Open(c) ==
  \/ c = 1
  \/ c = 2 /\ \E m \in 1 .. Len(chain) : chain[m] = "mount" /\ Entered(m)

\* The writers a Context in use may have.
LEMMA LiveLeads ==
  ASSUME Types, Linked, NEW o, o.under = out.under, NEW c, Open(c),
         NEW w \in Live(c, MaxLayers + 1)
  PROVE  c \in Contexts /\ \E h, k : Leads(o, w, c, h, k)
<1>1. CASE c = 1
  <2>1. MaxLayers + 1 \in 0 .. MaxLayers + 1
    BY DepthNat
  <2> QED
    BY <1>1, <2>1, LiveLeads1 DEF Contexts
<1>2. CASE c = 2
  <2>1. PICK m \in 1 .. Len(chain) : chain[m] = "mount" /\ Entered(m)
    BY <1>2 DEF Open
  <2>2. MaxLayers + 1 \in m + 1 .. MaxLayers + 1
    BY DepthNat DEF Types, Proper
  <2>3. \A v \in Live(2, MaxLayers + 1) :
          \E h \in 0 .. MaxLayers + 1 : \E k \in 0 .. MaxLayers + 1 :
            Leads(o, v, 2, h, k)
    BY <2>1, <2>2, LiveLeads2
  <2> QED
    BY <1>2, <2>3 DEF Contexts
<1> QED
  BY <1>1, <1>2 DEF Open

\* Such a writer leads to the connection.
LEMMA LeadsReaches ==
  ASSUME NEW o, NEW w, NEW c, NEW h, NEW k, Leads(o, w, c, h, k)
  PROVE  Reaches(o, w) /\ MaxDepth \in 0 .. MaxDepth /\ Way(o, w)[MaxDepth] = Wire
BY DepthNat DEF Leads, Reaches

-----------------------------------------------------------------------------
(* What the operations of a live writer do.                                *)

\* Its status is that of its Context's writer.
LEMMA StatusForm ==
  ASSUME NEW o, NEW w, NEW c \in Contexts, NEW h, NEW k, Leads(o, w, c, h, k)
  PROVE  Status(o, w) = o.recorded[c]
<1> DEFINE way == Way(o, w)
           First(i) == way[i][1] = "base" /\ \A j \in 0 .. i - 1 : way[j][1] # "base"
<1>1. /\ h \in 0 .. MaxDepth /\ k \in Nat /\ h \in 0 .. k /\ way[h] = Base(c)
      /\ \A i \in 0 .. k - 1 : i # h => way[i][1] = "gzip"
  BY DepthNat DEF Leads
<1>2. way[h][1] = "base" /\ way[h][2] = c
  BY <1>1 DEF Base
<1> HIDE DEF way
<1>3. First(h)
  <2> SUFFICES ASSUME NEW j \in 0 .. h - 1 PROVE way[j][1] # "base"
    BY <1>2
  <2>1. j \in 0 .. k - 1 /\ j # h
    BY <1>1
  <2> QED
    BY <1>1, <2>1
<1>4. ASSUME NEW i \in 0 .. MaxDepth, First(i) PROVE i = h
  <2>1. CASE i < h
    <3>1. i \in 0 .. k - 1 /\ i # h
      BY <1>1, <2>1
    <3> QED
      BY <1>1, <1>4, <3>1
  <2>2. CASE h < i
    <3>1. h \in 0 .. i - 1
      BY <1>1, <2>2
    <3> QED
      BY <1>2, <1>4, <3>1
  <2> QED
    BY <1>1, <2>1, <2>2
<1> DEFINE first == CHOOSE i \in 0 .. MaxDepth : First(i)
<1>5. first = h
  BY <1>1, <1>3, <1>4
<1>6. Status(o, w) = o.recorded[way[first][2]]
  BY DEF Status, way
<1> QED
  BY <1>2, <1>5, <1>6

\* The header goes out through the writers of the Contexts up to c.
Headed(o, c, code) ==
  IF o.status # 0 THEN o
  ELSE [o EXCEPT !.recorded = [b \in Contexts |-> IF b <= c THEN code
                                                  ELSE o.recorded[b]],
                 !.status = code, !.encoding = o.header]

\* The writers of the Contexts up to c have recorded what the client got.
Agree(o, c) == \A b \in 1 .. c : o.recorded[b] = o.status

\* What WriteHeader does at a writer that leads to the connection.
LEMMA HeaderForm ==
  ASSUME NEW o, IsOut(o), NEW w, NEW c \in Contexts, NEW h, NEW k,
         Leads(o, w, c, h, k), Agree(o, c), NEW code \in Nat
  PROVE  WriteHeader(o, w, code) = Headed(o, c, code)
<1> DEFINE way == Way(o, w)
           informed == {way[i] : i \in {q \in 0 .. MaxDepth :
                          \A j \in 0 .. q - 1 : ~Written(o, way[j])}}
           sent == Wire \in informed /\ o.status = 0
           records == [b \in Contexts |->
                         IF o.recorded[b] = 0 /\ Base(b) \in informed
                         THEN code ELSE o.recorded[b]]
<1>1. WriteHeader(o, w, code) =
        [o EXCEPT !.recorded = records, !.status = IF sent THEN code ELSE @,
                  !.encoding = IF sent THEN o.header ELSE @]
  BY DEF WriteHeader
<1>2. /\ k \in 0 .. MaxDepth /\ k + 1 \in 0 .. MaxDepth /\ h \in 0 .. k
      /\ h \in 0 .. MaxDepth
      /\ way[h] = Base(c) /\ way[k] = Base(1) /\ (c = 1 <=> h = k)
      /\ \A i \in 0 .. k - 1 : i # h => way[i][1] = "gzip"
      /\ \A i \in k + 1 .. MaxDepth : way[i] = Wire
  BY DepthNat DEF Leads
<1>3. way[k + 1] = Wire
  BY <1>2, DepthNat
<1> HIDE DEF way
<1>4. Contexts = {1, 2} /\ c \in {1, 2}
  BY DEF Contexts
<1>5. o.recorded[1] = o.status /\ o.recorded[c] = o.status
  BY <1>4 DEF Agree
<1>6. ASSUME NEW i \in 0 .. MaxDepth
      PROVE  way[i] = Wire \/ way[i][1] = "gzip" \/ way[i] = Base(1) \/ way[i] = Base(c)
  <2>1. i \in 0 .. k - 1 \/ i = k \/ i \in k + 1 .. MaxDepth
    BY <1>2
  <2> QED
    BY <1>2, <2>1
<1>7. Base(1) # Base(2) /\ Wire # Base(2) /\ Base(2)[1] # "gzip"
  BY DEF Base, Wire
<1>8. c = 1 => Base(2) \notin informed
  BY <1>6, <1>7
<1>9. CASE o.status # 0
  <2>1. records = o.recorded
    <3>1. \A b \in Contexts : records[b] = o.recorded[b]
      BY <1>4, <1>5, <1>8, <1>9
    <3> QED
      BY <3>1 DEF IsOut
  <2> HIDE DEF records
  <2>2. ~sent
    BY <1>9
  <2> HIDE DEF sent
  <2> QED
    BY <1>1, <1>9, <2>1, <2>2 DEF Headed, IsOut
<1>10. CASE o.status = 0
  <2>1. ASSUME NEW i \in 0 .. MaxDepth PROVE ~Written(o, way[i])
    BY <1>5, <1>6, <1>10 DEF Written, Base, Wire
  <2>2. ASSUME NEW i \in 0 .. MaxDepth PROVE way[i] \in informed
    <3>1. \A j \in 0 .. i - 1 : ~Written(o, way[j])
      BY <2>1, DepthNat
    <3> QED
      BY <3>1
  <2>3. Base(1) \in informed /\ Base(c) \in informed /\ Wire \in informed
    BY <1>2, <1>3, <2>2
  <2>4. sent
    BY <1>10, <2>3
  <2>5. records = [b \in Contexts |-> IF b <= c THEN code ELSE o.recorded[b]]
    <3>1. ASSUME NEW b \in Contexts
          PROVE  records[b] = IF b <= c THEN code ELSE o.recorded[b]
      BY <1>4, <1>5, <1>8, <1>10, <2>3
    <3> QED
      BY <3>1
  <2> HIDE DEF records, sent
  <2> QED
    BY <1>1, <1>10, <2>4, <2>5 DEF Headed
<1> QED
  BY <1>9, <1>10 DEF IsOut

\* What Headed is.
LEMMA HeadedFacts ==
  ASSUME NEW o, IsOut(o), NEW c \in Contexts, NEW code \in Nat \ {0}
  PROVE  LET p == Headed(o, c, code)
         IN  /\ IsOut(p) /\ p.under = o.under /\ p.header = o.header
             /\ p.begun = o.begun /\ p.buffer = o.buffer /\ p.body = o.body
             /\ p.status = IF o.status = 0 THEN code ELSE o.status
             /\ p.encoding = IF o.status = 0 THEN o.header ELSE o.encoding
             /\ Agree(o, c) => Agree(p, c)
             /\ c = 1 => p.recorded[2] = o.recorded[2]
<1> DEFINE p == Headed(o, c, code)
           r == [b \in Contexts |-> IF b <= c THEN code ELSE o.recorded[b]]
           q == [o EXCEPT !.recorded = r, !.status = code, !.encoding = o.header]
<1>1. CASE o.status # 0
  BY <1>1 DEF Headed
<1>2. CASE o.status = 0
  <2>1. p = q
    BY <1>2 DEF Headed
  <2>2. r \in [Contexts -> Nat] /\ \A b \in Contexts : b <= c => r[b] = code
    BY DEF IsOut
  <2>3. Contexts = {1, 2} /\ c \in {1, 2} /\ (c = 1 => r[2] = o.recorded[2])
    BY DEF Contexts
  <2> HIDE DEF r
  <2>4. /\ IsOut(q) /\ q.under = o.under /\ q.header = o.header
        /\ q.begun = o.begun /\ q.buffer = o.buffer /\ q.body = o.body
        /\ q.status = code /\ q.encoding = o.header /\ q.recorded = r
    BY <2>2 DEF IsOut
  <2> HIDE DEF q
  <2>5. Agree(q, c)
    BY <2>2, <2>3, <2>4 DEF Agree
  <2> HIDE DEF p
  <2> QED
    BY <1>2, <2>1, <2>3, <2>4, <2>5 DEF p
<1>3. o.status \in Nat
  BY DEF IsOut
<1> QED
  BY <1>1, <1>2, <1>3

\* The header leaves the body alone.
LEMMA HeadedBody ==
  ASSUME NEW o, IsOut(o), NEW c, NEW code
  PROVE  /\ Headed(o, c, code).begun = o.begun /\ Headed(o, c, code).buffer = o.buffer
         /\ Headed(o, c, code).body = o.body /\ Headed(o, c, code).header = o.header
BY DEF Headed, IsOut

\* The header that was sent, if it was the first.
LEMMA HeadedStatus ==
  ASSUME NEW o, IsOut(o), NEW c, NEW code
  PROVE  /\ Headed(o, c, code).status = IF o.status = 0 THEN code ELSE o.status
         /\ Headed(o, c, code).encoding = IF o.status = 0 THEN o.header ELSE o.encoding
BY DEF Headed, IsOut

\* Then the Contexts agree with the connection.
LEMMA HeadedAgree ==
  ASSUME NEW o, IsOut(o), NEW c \in Contexts, NEW code \in Nat \ {0}, Agree(o, c)
  PROVE  /\ IsOut(Headed(o, c, code)) /\ Headed(o, c, code).under = o.under
         /\ Agree(Headed(o, c, code), c)
BY HeadedFacts

\* A token comes to the connection.
Deliver(p, token) ==
  IF p.status = 204 THEN p ELSE [p EXCEPT !.body = Append(@, token)]

\* A token comes to the gzip.Writer of layer i.
Packed(p, i, token) ==
  [p EXCEPT !.begun = @ \cup {i}, !.buffer[i] = Append(@, token)]

\* A token that is sent changes the body only.
LEMMA DeliverFacts ==
  ASSUME NEW p, IsOut(p), NEW token
  PROVE  LET q == Deliver(p, token)
         IN  /\ IsOut(q) /\ q.under = p.under /\ q.header = p.header
             /\ q.begun = p.begun /\ q.buffer = p.buffer
             /\ q.recorded = p.recorded /\ q.status = p.status
             /\ q.encoding = p.encoding
             /\ q.body = IF p.status = 204 THEN p.body ELSE Append(p.body, token)
<1> DEFINE q == [p EXCEPT !.body = Append(@, token)]
<1>1. /\ IsOut(q) /\ q.under = p.under /\ q.header = p.header
      /\ q.begun = p.begun /\ q.buffer = p.buffer
      /\ q.recorded = p.recorded /\ q.status = p.status
      /\ q.encoding = p.encoding /\ q.body = Append(p.body, token)
  BY DEF IsOut
<1> HIDE DEF q
<1> QED
  BY <1>1 DEF Deliver, q

\* A token that is kept changes one gzip.Writer only.
LEMMA PackedFacts ==
  ASSUME NEW p, IsOut(p), NEW i \in Layer, NEW token
  PROVE  LET q == Packed(p, i, token)
         IN  /\ IsOut(q) /\ q.under = p.under /\ q.header = p.header
             /\ q.begun = p.begun \cup {i} /\ q.body = p.body
             /\ q.buffer = [p.buffer EXCEPT ![i] = Append(@, token)]
             /\ q.recorded = p.recorded /\ q.status = p.status
             /\ q.encoding = p.encoding
BY DEF IsOut, Packed

\* WriteAt at each kind of writer.
LEMMA WriteAtWire ==
  ASSUME NEW o, o.status # 0, NEW token
  PROVE  WriteAt(o, Wire, token) = [out |-> Deliver(o, token), pass |-> <<>>]
<1>1. Wire[1] # "base" /\ Wire[1] # "gzip"
  BY DEF Wire
<1> QED
  BY <1>1 DEF WriteAt, Ensure, Deliver

\* Write at a responseWriter.
LEMMA WriteAtBase ==
  ASSUME NEW o, IsOut(o), NEW c \in Contexts, NEW h, NEW k,
         Leads(o, Base(c), c, h, k), Agree(o, c), NEW token
  PROVE  WriteAt(o, Base(c), token) =
           [out |-> Headed(o, c, 200), pass |-> <<token>>]
<1>1. Base(c) # Wire /\ Base(c)[1] = "base" /\ Base(c)[2] = c
  BY DEF Base, Wire
<1>2. o.recorded[c] = o.status
  BY DEF Agree, Contexts
<1>3. WriteAt(o, Base(c), token) =
        [out |-> Ensure(o, Base(c), o.recorded[c]), pass |-> <<token>>]
  BY <1>1 DEF WriteAt
<1>4. WriteHeader(o, Base(c), 200) = Headed(o, c, 200)
  BY HeaderForm
<1>5. Ensure(o, Base(c), o.recorded[c]) = Headed(o, c, 200)
  BY <1>2, <1>4 DEF Ensure, Headed
<1> QED
  BY <1>3, <1>5

\* Write at a gzipResponseWriter.
LEMMA WriteAtGzip ==
  ASSUME NEW o, IsOut(o), NEW i \in Layer, NEW c \in Contexts, NEW h, NEW k,
         Leads(o, Gzip(i), c, h, k), Agree(o, c), NEW token
  PROVE  WriteAt(o, Gzip(i), token) =
           [out |-> Packed(Headed(o, c, 200), i, token),
            pass |-> IF i \in o.begun THEN <<>> ELSE <<GzipHeader>>]
<1>1. Gzip(i) # Wire /\ Gzip(i)[1] = "gzip" /\ Gzip(i)[2] = i
  BY DEF Gzip, Wire
<1>2. o.recorded[c] = o.status /\ Status(o, Gzip(i)) = o.recorded[c]
  BY StatusForm DEF Agree, Contexts
<1>3. WriteHeader(o, Gzip(i), 200) = Headed(o, c, 200)
  BY HeaderForm
<1>4. Ensure(o, Gzip(i), Status(o, Gzip(i))) = Headed(o, c, 200)
  BY <1>2, <1>3 DEF Ensure, Headed
<1>5. WriteAt(o, Gzip(i), token) =
        [out |-> [Ensure(o, Gzip(i), Status(o, Gzip(i)))
                    EXCEPT !.begun = @ \cup {i}, !.buffer[i] = Append(@, token)],
         pass |-> IF i \in o.begun THEN <<>> ELSE <<GzipHeader>>]
  BY <1>1 DEF WriteAt
<1> QED
  BY <1>4, <1>5 DEF Packed

\* Write at each kind of writer.
LEMMA WriteWire ==
  ASSUME NEW o, IsOut(o), o.status # 0, NEW token
  PROVE  Write(o, Wire, token) = Deliver(o, token)
<1>1. Way(o, Wire)[0] = Wire /\ 0 \in 0 .. MaxDepth /\ Wire \in Writers
  BY WaySteps, DepthNat, WritersKinds
<1>2. WriteAt(o, Wire, token) = [out |-> Deliver(o, token), pass |-> <<>>]
  BY WriteAtWire
<1> QED
  BY <1>1, <1>2, WriteUnfolds

\* Write to a responseWriter goes on below it.
LEMMA WriteBase ==
  ASSUME NEW o, IsOut(o), NEW c \in Contexts, NEW h, NEW k,
         Leads(o, Base(c), c, h, k), Agree(o, c), NEW token
  PROVE  Write(o, Base(c), token) =
           Write(Headed(o, c, 200), o.under[Base(c)], token)
<1>1. WriteAt(o, Base(c), token) =
        [out |-> Headed(o, c, 200), pass |-> <<token>>]
  BY WriteAtBase
<1>2. Base(c) \in Writers /\ MaxDepth \in 0 .. MaxDepth
      /\ Way(o, Base(c))[MaxDepth] = Wire
  BY WritersKinds, LeadsReaches
<1> DEFINE s == WriteAt(o, Base(c), token)
<1>3. s.out = Headed(o, c, 200) /\ s.pass # <<>> /\ s.pass[1] = token
  BY <1>1
<1>4. Write(o, Base(c), token) =
        IF s.pass = <<>> THEN s.out
        ELSE Write(s.out, o.under[Base(c)], s.pass[1])
  BY <1>2, WriteUnfolds
<1> HIDE DEF s
<1> QED
  BY <1>3, <1>4

\* Write to a gzipResponseWriter goes on below it with the header, if at all.
LEMMA WriteGzip ==
  ASSUME NEW o, IsOut(o), NEW i \in Layer, NEW c \in Contexts, NEW h, NEW k,
         Leads(o, Gzip(i), c, h, k), Agree(o, c), NEW token
  PROVE  LET p == Packed(Headed(o, c, 200), i, token)
         IN  Write(o, Gzip(i), token) =
               IF i \in o.begun THEN p ELSE Write(p, o.under[Gzip(i)], GzipHeader)
<1> DEFINE p == Packed(Headed(o, c, 200), i, token)
<1>1. WriteAt(o, Gzip(i), token) =
        [out |-> p, pass |-> IF i \in o.begun THEN <<>> ELSE <<GzipHeader>>]
  BY WriteAtGzip
<1>2. Gzip(i) \in Writers /\ MaxDepth \in 0 .. MaxDepth
      /\ Way(o, Gzip(i))[MaxDepth] = Wire
  BY WritersKinds, LeadsReaches
<1>3. <<GzipHeader>> # <<>> /\ <<GzipHeader>>[1] = GzipHeader
  OBVIOUS
<1> HIDE DEF p
<1>4. CASE i \in o.begun
  BY <1>1, <1>2, <1>4, WriteUnfolds DEF p
<1>5. CASE i \notin o.begun
  <2> DEFINE s == WriteAt(o, Gzip(i), token)
  <2>1. s.out = p /\ s.pass = <<GzipHeader>>
    BY <1>1, <1>5
  <2>2. Write(o, Gzip(i), token) =
          IF s.pass = <<>> THEN s.out
          ELSE Write(s.out, o.under[Gzip(i)], s.pass[1])
    BY <1>2, WriteUnfolds
  <2> HIDE DEF s
  <2>3. Write(o, Gzip(i), token) = Write(p, o.under[Gzip(i)], GzipHeader)
    BY <1>3, <2>1, <2>2
  <2> QED
    BY <1>5, <2>3 DEF p
<1> QED
  BY <1>4, <1>5

\* p and q have sent the same headers.
SameHead(p, q) ==
  /\ IsOut(p) /\ p.under = q.under /\ p.header = q.header
  /\ p.recorded = q.recorded /\ p.status = q.status /\ p.encoding = q.encoding

\* What a token packed after the header is sent leaves to be written below.
LEMMA PackedHead ==
  ASSUME NEW o, IsOut(o), NEW c \in Contexts, Agree(o, c), NEW i \in Layer, NEW token
  PROVE  LET p == Packed(Headed(o, c, 200), i, token)
         IN  /\ SameHead(p, Headed(o, c, 200)) /\ p.status # 0 /\ Agree(p, c)
             /\ p.under = o.under /\ Headed(p, c, 200) = p
<1> DEFINE q == Headed(o, c, 200)
           p == Packed(q, i, token)
<1>1. IsOut(q) /\ q.under = o.under /\ Agree(q, c) /\ q.status # 0
  BY HeadedFacts
<1> HIDE DEF q
<1>a. /\ IsOut(p) /\ p.under = q.under /\ p.header = q.header
      /\ p.recorded = q.recorded /\ p.status = q.status /\ p.encoding = q.encoding
  <2>1. IsOut(q) /\ i \in Layer
    BY <1>1
  <2> HIDE DEF p
  <2> QED
    BY <2>1 DEF IsOut, Packed, p
<1> HIDE DEF p
<1>2. IsOut(p) /\ SameHead(p, q) /\ p.under = q.under /\ p.recorded = q.recorded
      /\ p.status = q.status
  BY <1>a DEF SameHead
<1>3. Agree(p, c)
  BY <1>1, <1>2 DEF Agree
<1>4. Headed(p, c, 200) = p
  BY <1>1, <1>2 DEF Headed
<1> QED
  BY <1>1, <1>2, <1>3, <1>4 DEF p, q

\* A write to any writer of the first Context sends the header, if it has not
\* been sent, and no other.
LEMMA WriteHead1 ==
  ASSUME Types, Linked
  PROVE  \A n \in 0 .. MaxLayers + 1 : \A w \in Live(1, n) : \A o, token :
           IsOut(o) /\ o.under = out.under /\ Agree(o, 1) =>
             SameHead(Write(o, w, token), Headed(o, 1, 200))
<1> DEFINE S == {n \in Nat : n <= MaxLayers + 1 =>
                   \A w \in Live(1, n) : \A o, token :
                     IsOut(o) /\ o.under = out.under /\ Agree(o, 1) =>
                       SameHead(Write(o, w, token), Headed(o, 1, 200))}
<1>1. 1 \in Contexts
  BY DEF Contexts
<1>2. 0 \in S
  <2> SUFFICES ASSUME NEW w \in Live(1, 0), NEW o, NEW token,
                      IsOut(o), o.under = out.under, Agree(o, 1)
               PROVE  SameHead(Write(o, w, token), Headed(o, 1, 200))
    OBVIOUS
  <2>1. w = Base(1)
    BY DEF Live
  <2>2. Leads(o, Base(1), 1, 0, 0) /\ o.under[Base(1)] = Wire
    BY BaseLeads DEF Linked
  <2> DEFINE q == Headed(o, 1, 200)
  <2>3. IsOut(q) /\ q.status # 0
    BY <1>1, HeadedFacts
  <2>4. Write(o, w, token) = Write(q, Wire, token)
    BY <1>1, <2>1, <2>2, WriteBase
  <2> HIDE DEF q
  <2>5. Write(o, w, token) = Deliver(q, token)
    BY <2>3, <2>4, WriteWire
  <2>6. SameHead(Deliver(q, token), q)
    BY <2>3, DeliverFacts DEF SameHead
  <2> QED
    BY <2>5, <2>6 DEF q
<1>3. ASSUME NEW n \in Nat, n \in S PROVE n + 1 \in S
  <2> SUFFICES ASSUME n + 1 <= MaxLayers + 1, NEW w \in Live(1, n + 1),
                      NEW o, NEW token,
                      IsOut(o), o.under = out.under, Agree(o, 1)
               PROVE  SameHead(Write(o, w, token), Headed(o, 1, 200))
    OBVIOUS
  <2>1. \A v \in Live(1, n) : \A p, t :
          IsOut(p) /\ p.under = out.under /\ Agree(p, 1) =>
            SameHead(Write(p, v, t), Headed(p, 1, 200))
    BY <1>3, DepthNat
  <2>2. CASE w \in Live(1, n)
    BY <2>1, <2>2
  <2>3. CASE w = Gzip(n) /\ n > 0 /\ Entered(n) /\ Packs(n) /\ Ctx(n) = 1
    <3>1. n \in Layer
      BY <2>3, DepthNat DEF Layer
    <3>2. o.under[w] = Found(n) /\ Found(n) \in Live(1, n)
      BY <2>3, <3>1 DEF Linked, Placed
    <3>3. PICK k : Leads(o, w, 1, k, k)
      BY LiveLeads1, DepthNat
    <3> DEFINE p == Packed(Headed(o, 1, 200), n, token)
    <3>4. /\ SameHead(p, Headed(o, 1, 200)) /\ Agree(p, 1) /\ p.under = o.under
          /\ Headed(p, 1, 200) = p
      BY <1>1, <3>1, PackedHead
    <3>5. Write(o, w, token) =
            IF n \in o.begun THEN p ELSE Write(p, Found(n), GzipHeader)
      BY <1>1, <2>3, <3>1, <3>2, <3>3, WriteGzip
    <3> HIDE DEF p
    <3>6. IsOut(p)
      BY <3>4 DEF SameHead
    <3>7. SameHead(Write(p, Found(n), GzipHeader), p)
      BY <2>1, <3>2, <3>4, <3>6
    <3>8. SameHead(Write(p, Found(n), GzipHeader), Headed(o, 1, 200))
      BY <3>4, <3>7 DEF SameHead
    <3> QED
      BY <3>4, <3>5, <3>8
  <2> QED
    BY <1>1, <2>2, <2>3, LiveStep
<1> HIDE DEF S
<1>4. Nat \subseteq S
  BY <1>2, <1>3, NaturalInduction
<1> QED
  BY <1>4, DepthNat DEF S

\* The same for the second Context.
LEMMA WriteHead2 ==
  ASSUME Types, Linked,
         NEW m \in 1 .. Len(chain), chain[m] = "mount", Entered(m)
  PROVE  \A n \in m + 1 .. MaxLayers + 1 : \A w \in Live(2, n) : \A o, token :
           IsOut(o) /\ o.under = out.under /\ Agree(o, 2) =>
             SameHead(Write(o, w, token), Headed(o, 2, 200))
<1> DEFINE P(n) == \A w \in Live(2, n) : \A o, token :
                     IsOut(o) /\ o.under = out.under /\ Agree(o, 2) =>
                       SameHead(Write(o, w, token), Headed(o, 2, 200))
           S == {i \in Nat : (m + 1) + i <= MaxLayers + 1 => P((m + 1) + i)}
<1>1. /\ 1 \in Contexts /\ 2 \in Contexts /\ m \in Nat /\ m \in Layer
      /\ Len(chain) \in Nat /\ Len(chain) <= MaxLayers /\ Ctx(m) = 1
      /\ \A j \in 1 .. Len(chain) : Ctx(j) = 2 <=> j > m
  BY CtxSteps, DepthNat DEF Contexts, Types, Proper, Layer
<1>2. ASSUME NEW o, Agree(o, 2) PROVE Agree(o, 1)
  BY <1>2 DEF Agree
<1>3. 0 \in S
  <2> SUFFICES ASSUME NEW w \in Live(2, (m + 1) + 0), NEW o, NEW token,
                      IsOut(o), o.under = out.under, Agree(o, 2)
               PROVE  SameHead(Write(o, w, token), Headed(o, 2, 200))
    OBVIOUS
  <2>1. w = Base(2)
    BY <1>1 DEF Live
  <2>2. o.under[Base(2)] = Found(m) /\ Found(m) \in Live(1, m)
    BY <1>1 DEF Linked, Placed
  <2>3. Open(2) /\ Base(2) \in Live(2, MaxLayers + 1)
    BY DEF Open, Live
  <2>4. PICK h, k : Leads(o, Base(2), 2, h, k)
    BY <2>3, LiveLeads
  <2> DEFINE q == Headed(o, 2, 200)
  <2>5. IsOut(q) /\ q.status # 0 /\ q.under = out.under /\ Agree(q, 2)
    <3>1. 2 \in Contexts /\ 200 \in Nat \ {0}
      BY <1>1
    <3>2. IsOut(q) /\ q.under = o.under /\ Agree(q, 2)
      BY <3>1, HeadedFacts
    <3>3. q.status = IF o.status = 0 THEN 200 ELSE o.status
      BY <3>1, HeadedFacts
    <3> HIDE DEF q
    <3> QED
      BY <3>2, <3>3
  <2>6. Write(o, w, token) = Write(q, Found(m), token)
    BY <1>1, <2>1, <2>2, <2>4, WriteBase
  <2> HIDE DEF q
  <2>7. m \in 0 .. MaxLayers + 1
    BY <1>1, DepthNat
  <2>8. SameHead(Write(q, Found(m), token), Headed(q, 1, 200))
    BY <1>2, <2>2, <2>5, <2>7, WriteHead1
  <2>9. Headed(q, 1, 200) = q
    BY <2>5 DEF Headed
  <2> QED
    BY <2>6, <2>8, <2>9 DEF q
<1>4. ASSUME NEW i \in Nat, i \in S PROVE i + 1 \in S
  <2> DEFINE n == (m + 1) + i
  <2>0. (m + 1) + (i + 1) = n + 1 /\ n \in Nat /\ n > 0
    BY <1>1
  <2>00. (n <= MaxLayers + 1 => P(n))
    BY <1>4
  <2> HIDE DEF n
  <2> SUFFICES ASSUME n + 1 <= MaxLayers + 1, NEW w \in Live(2, n + 1),
                      NEW o, NEW token,
                      IsOut(o), o.under = out.under, Agree(o, 2)
               PROVE  SameHead(Write(o, w, token), Headed(o, 2, 200))
    BY <2>0
  <2>1. \A v \in Live(2, n) : \A p, t :
          IsOut(p) /\ p.under = out.under /\ Agree(p, 2) =>
            SameHead(Write(p, v, t), Headed(p, 2, 200))
    BY <2>0, <2>00, DepthNat
  <2>2. CASE w \in Live(2, n)
    BY <2>1, <2>2
  <2>3. CASE w = Gzip(n) /\ n > 0 /\ Entered(n) /\ Packs(n) /\ Ctx(n) = 2
    <3>1. n \in Layer
      BY <2>0, <2>3, DepthNat DEF Layer
    <3>2. o.under[w] = Found(n) /\ Found(n) \in Live(2, n)
      BY <2>3, <3>1 DEF Linked, Placed
    <3>3. Open(2) /\ w \in Live(2, MaxLayers + 1)
      BY <2>3, <3>1, DepthNat DEF Open, Live, Layer
    <3>4. PICK h, k : Leads(o, w, 2, h, k)
      BY <3>3, LiveLeads
    <3> DEFINE p == Packed(Headed(o, 2, 200), n, token)
    <3>5. /\ SameHead(p, Headed(o, 2, 200)) /\ Agree(p, 2) /\ p.under = o.under
          /\ Headed(p, 2, 200) = p
      BY <1>1, <3>1, PackedHead
    <3>6. Write(o, w, token) =
            IF n \in o.begun THEN p ELSE Write(p, Found(n), GzipHeader)
      <4>1. 2 \in Contexts /\ w = Gzip(n)
        BY <1>1, <2>3
      <4>2. Leads(o, Gzip(n), 2, h, k)
        BY <3>4, <4>1
      <4>3. Write(o, Gzip(n), token) =
              IF n \in o.begun THEN p ELSE Write(p, o.under[Gzip(n)], GzipHeader)
        BY <3>1, <4>1, <4>2, WriteGzip
      <4> HIDE DEF p
      <4> QED
        BY <3>2, <4>1, <4>3
    <3> HIDE DEF p
    <3>7. IsOut(p)
      BY <3>5 DEF SameHead
    <3>8. SameHead(Write(p, Found(n), GzipHeader), p)
      BY <2>1, <3>2, <3>5, <3>7
    <3>9. SameHead(Write(p, Found(n), GzipHeader), Headed(o, 2, 200))
      BY <3>5, <3>8 DEF SameHead
    <3> QED
      BY <3>5, <3>6, <3>9
  <2> QED
    BY <1>1, <2>0, <2>2, <2>3, LiveStep
<1> HIDE DEF S, P
<1>5. Nat \subseteq S
  BY <1>3, <1>4, NaturalInduction
<1> SUFFICES ASSUME NEW n \in m + 1 .. MaxLayers + 1 PROVE P(n)
  BY DEF P
<1>6. n - (m + 1) \in S /\ (m + 1) + (n - (m + 1)) = n /\ n <= MaxLayers + 1
  BY <1>1, <1>5, DepthNat
<1> QED
  BY <1>6 DEF S

\* What the operations of a writer that a Context in use may have do to the
\* headers.
LEMMA Operations ==
  ASSUME Types, Linked, NEW c, Open(c), NEW w \in Live(c, MaxLayers + 1),
         NEW o, IsOut(o), o.under = out.under, Agree(o, c)
  PROVE  /\ c \in Contexts /\ w \in Writers /\ Reaches(o, w)
         /\ Status(o, w) = o.status
         /\ \A code \in Nat \ {0} : WriteHeader(o, w, code) = Headed(o, c, code)
         /\ \A token : SameHead(Write(o, w, token), Headed(o, c, 200))
<1>1. c \in Contexts
  BY LiveLeads
<1>2. PICK h, k : Leads(o, w, c, h, k)
  BY LiveLeads
<1>3. w \in Writers
  BY <1>1, WritersKinds, DepthNat DEF Live, Layer
<1>4. Status(o, w) = o.status
  BY <1>1, <1>2, StatusForm DEF Agree, Contexts
<1>5. ASSUME NEW token PROVE SameHead(Write(o, w, token), Headed(o, c, 200))
  <2>1. CASE c = 1
    BY <2>1, WriteHead1, DepthNat
  <2>2. CASE c = 2
    <3>1. PICK m \in 1 .. Len(chain) : chain[m] = "mount" /\ Entered(m)
      BY <2>2 DEF Open
    <3>2. MaxLayers + 1 \in m + 1 .. MaxLayers + 1
      BY DepthNat DEF Types, Proper
    <3> QED
      BY <2>2, <3>1, <3>2, WriteHead2
  <2> QED
    BY <2>1, <2>2 DEF Open
<1> QED
  BY <1>1, <1>2, <1>3, <1>4, <1>5, HeaderForm, LeadsReaches

-----------------------------------------------------------------------------
(* Which Contexts are in use.                                              *)

\* The Context whose writer the layer that has control uses: on its way up
\* control comes from the layer below.
Level == IF dir = "down" THEN Ctx(at) ELSE Ctx(at + 1)

\* The Context that has control is in use.
LEMMA LevelOpen ==
  ASSUME Structure, Running
  PROVE  /\ Level \in Contexts /\ Open(Level)
         /\ at > 0 => Ctx(at) \in Contexts /\ Open(Ctx(at)) /\ Ctx(at) <= Level
         /\ at > 0 /\ chain[at] # "mount" => Ctx(at) = Level
         /\ at > 0 /\ chain[at] = "mount" => Ctx(at) = 1 /\ (dir # "down" => Level = 2)
         /\ at = 0 => Level = 1
<1>1. /\ Types /\ Proper /\ Len(chain) \in Nat /\ at \in 0 .. Len(chain)
      /\ Len(chain) <= MaxLayers /\ MaxLayers \in Nat
  BY DepthNat DEF Structure, Types, Proper
<1>2. Contexts = {1, 2}
  BY DEF Contexts
<1>3. ASSUME NEW i \in 1 .. Len(chain), Ctx(i) = 2, \A j \in 1 .. i - 1 : Entered(j)
      PROVE  Open(2)
  <2>1. PICK m \in 1 .. i - 1 : chain[m] = "mount"
    BY <1>1, <1>3, CtxSteps
  <2>2. m \in 1 .. Len(chain)
    BY <1>1
  <2> QED
    BY <1>3, <2>1, <2>2 DEF Open
<1>4. CASE dir = "down"
  <2>1. at \in 1 .. Len(chain) /\ \A i \in Layer : Entered(i) <=> i < at
    BY <1>1, <1>4 DEF Structure, Control
  <2>2. \A j \in 1 .. at - 1 : Entered(j)
    BY <1>1, <2>1 DEF Layer
  <2>3. Ctx(at) \in Contexts /\ Open(Ctx(at))
    BY <1>1, <1>2, <1>3, <2>1, <2>2, CtxSteps DEF Open
  <2> QED
    BY <1>1, <1>2, <1>4, <2>1, <2>3, CtxSteps DEF Level
<1>5. CASE dir # "down"
  <2>1. Level = Ctx(at + 1) /\ \A j \in 1 .. at : Entered(j)
    BY <1>5 DEF Level, Structure, Control, Running
  <2>2. CASE at = 0
    <3>1. Level = 1
      BY <1>1, <2>1, <2>2, CtxSteps
    <3> QED
      BY <1>2, <2>2, <3>1 DEF Open
  <2>3. CASE at > 0
    <3>1. at \in 1 .. Len(chain) /\ at \in Layer
      BY <1>1, <2>3 DEF Layer
    <3>2. Level = IF chain[at] = "mount" THEN 2 ELSE Ctx(at)
      BY <1>1, <2>1, <3>1, CtxSteps
    <3>3. chain[at] = "mount" => Open(2) /\ Ctx(at) = 1
      BY <1>1, <2>1, <3>1, CtxSteps DEF Open
    <3>4. Ctx(at) \in Contexts /\ Open(Ctx(at))
      BY <1>1, <1>2, <1>3, <2>1, <3>1, CtxSteps DEF Open
    <3> QED
      BY <1>2, <2>3, <3>2, <3>3, <3>4
  <2> QED
    BY <1>1, <2>2, <2>3
<1> QED
  BY <1>4, <1>5

\* The writers that are called lead to the connection.
LEMMA Reaching ==
  ASSUME Structure
  PROVE  /\ Reaches(out, writer[1])
         /\ Running /\ at > 0 => /\ Reaches(out, W) /\ Status(out, W) \in Nat
                                 /\ Status(out, W) = out.recorded[Ctx(at)]
<1>1. Types /\ Linked /\ IsOut(out) /\ \A c \in Contexts : writer[c] \in Live(c, MaxLayers + 1)
  BY DEF Structure, Types, Held
<1>2. Reaches(out, writer[1])
  <2>1. Open(1) /\ 1 \in Contexts
    BY DEF Open, Contexts
  <2>2. PICK h, k : Leads(out, writer[1], 1, h, k)
    BY <1>1, <2>1, LiveLeads
  <2> QED
    BY <2>2, LeadsReaches
<1>3. ASSUME Running, at > 0
      PROVE  Reaches(out, W) /\ Status(out, W) \in Nat
             /\ Status(out, W) = out.recorded[Ctx(at)]
  <2>1. Ctx(at) \in Contexts /\ Open(Ctx(at))
    BY <1>3, LevelOpen
  <2>2. PICK h, k : Leads(out, W, Ctx(at), h, k)
    BY <1>1, <2>1, LiveLeads DEF W
  <2>3. Status(out, W) = out.recorded[Ctx(at)] /\ Reaches(out, W)
    BY <2>1, <2>2, StatusForm, LeadsReaches
  <2> QED
    BY <1>1, <2>1, <2>3 DEF IsOut
<1> QED
  BY <1>2, <1>3

-----------------------------------------------------------------------------
(* The moves of control.                                                   *)

\* The layer calls Next, with its own writer in the Context if it compresses,
\* and with the mounted router's if it is a mount.
Descend ==
  /\ dir = "down" /\ chain[at] # "handler" /\ at' = at + 1
  /\ saved' = [saved EXCEPT ![at] =
                 [writer |-> IF Packs(at) THEN Gzip(at) ELSE Found(at),
                  path |-> Place(at + 1)]]
  /\ path' = Place(at + 1)
  /\ \/ /\ Packs(at)
        /\ out' = [out EXCEPT !.header = "gzip", !.under[Gzip(at)] = Found(at),
                              !.buffer[at] = <<>>]
        /\ writer' = [writer EXCEPT ![Ctx(at)] = Gzip(at)]
     \/ /\ chain[at] = "mount"
        /\ out' = [out EXCEPT !.under[Base(2)] = Found(at), !.recorded[2] = 0]
        /\ writer' = [writer EXCEPT ![2] = Base(2)]
     \/ /\ ~Packs(at) /\ chain[at] # "mount" /\ UNCHANGED <<out, writer>>
  /\ UNCHANGED <<request, dir, err, logged, chunks, failed, unwound>>

\* The handler calls its writer.
Stay ==
  /\ dir = "down" /\ chain[at] = "handler"
  /\ \/ \E code \in Codes : out' = WriteHeader(out, W, code) /\ UNCHANGED chunks
     \/ out' = Write(out, W, <<"chunk", chunks + 1>>) /\ chunks' = chunks + 1
  /\ UNCHANGED <<request, at, dir, err, writer, path, logged, saved, failed,
                 unwound>>

\* A layer answers instead of calling Next.
Answer ==
  /\ dir = "down" /\ dir' = "up" /\ at' = at - 1
  /\ \/ chain[at] = "handler" /\ UNCHANGED out
     \/ chain[at] = "cors" /\ out' = WriteHeader(out, W, 204)
  /\ UNCHANGED <<request, err, writer, path, logged, saved, chunks, failed, unwound>>

\* A layer fails instead of calling Next.
Fail ==
  /\ dir = "down" /\ at' = at - 1
  /\ \/ dir' = "up" /\ err' \in Nat \ {0} /\ failed'.code = err'
     \/ dir' = "panic" /\ err' \in {OtherPanic, ErrAbortHandler} /\ failed'.code = 500
  /\ failed' = [at |-> at, dir |-> dir', code |-> failed'.code,
                recorded |-> Status(out, W)]
  /\ UNCHANGED <<request, out, writer, path, logged, saved, chunks, unwound>>

\* Control leaves a layer that has nothing to restore, or panics.
Back ==
  /\ dir \in {"up", "panic"} /\ at > 0 /\ Leave
  /\ Packs(at) => dir = "panic"
  /\ chain[at] = "mount" => dir = "panic" /\ ~Recovers
  /\ chain[at] = "recoverer" => dir = "up" \/ err = ErrAbortHandler
  /\ logged' = IF dir = "up" /\ chain[at] = "logger"
               THEN [logged EXCEPT ![at] = LogStatus] ELSE logged
  /\ UNCHANGED <<dir, err, out, writer, path>>

\* Compress gets control back, and closes its gzip.Writer.
Close ==
  /\ dir = "up" /\ at > 0 /\ Packs(at) /\ Leave
  /\ out' = CloseGzip(out, at) /\ writer' = Restore
  /\ UNCHANGED <<dir, err, path, logged>>

\* The next-state relation, as moves.
LEMMA Moves ==
  ASSUME Structure, [Next]_vars
  PROVE  \/ Descend \/ Stay \/ Answer \/ Fail \/ Back \/ Close
         \/ RecovererPanic \/ MountUp \/ (Finish /\ dir' = "done") \/ Abort
         \/ UNCHANGED vars
<1> USE DEF request
<1>1. Len(chain) \in Nat /\ at \in 0 .. Len(chain) /\ Types /\ Linked
  BY DEF Structure, Types, Proper
<1>2. ASSUME dir = "down"
      PROVE  /\ at \in 1 .. Len(chain) /\ W = Found(at) /\ path = Place(at)
             /\ chain[at] # "wrapper" /\ Ctx(at) \in Contexts /\ W \in Writers
             /\ Place(at + 1) = IF chain[at] = "mount" THEN "rest" ELSE path
  <2>1. at \in 1 .. Len(chain) /\ W = Found(at) /\ path = Place(at)
    BY <1>1, <1>2 DEF Structure, Control, Held
  <2>2. Ctx(at) \in Contexts /\ Proper
    BY <1>1, <2>1, CtxSteps DEF Types
  <2>3. Ctx(at + 1) = IF chain[at] = "mount" THEN 2 ELSE Ctx(at)
    BY <2>1, <2>2, CtxSteps
  <2>4. W \in Writers
    BY <2>2 DEF W, Structure, Types
  <2> QED
    BY <2>1, <2>2, <2>3, <2>4 DEF Proper, Place
<1>3. ASSUME LoggerDown \/ RecovererDown PROVE Descend
  <2>1. dir = "down" /\ chain[at] # "mount" /\ ~Packs(at)
    BY <1>3 DEF LoggerDown, RecovererDown, Down, Packs
  <2> QED
    BY <1>2, <1>3, <2>1 DEF LoggerDown, RecovererDown, Down, CallNext, Descend
<1>4. ASSUME CompressDown PROVE Descend
  <2>1. dir = "down" /\ chain[at] = "compress"
    BY <1>4 DEF CompressDown, Down
  <2>2. CASE accepts
    BY <1>2, <1>4, <2>1, <2>2 DEF CompressDown, CallNext, Descend, Packs
  <2>3. CASE ~accepts
    BY <1>2, <1>4, <2>1, <2>3 DEF CompressDown, CallNext, Descend, Packs
  <2> QED
    BY <2>2, <2>3
<1>5. ASSUME NEW p \in BOOLEAN, CorsDown(p) PROVE Descend \/ Answer
  <2>1. dir = "down" /\ chain[at] = "cors" /\ ~Packs(at)
    BY <1>5 DEF CorsDown, Down, Packs
  <2>2. CASE p
    BY <1>5, <2>1, <2>2 DEF CorsDown, Answers, Answer
  <2>3. CASE ~p
    BY <1>2, <1>5, <2>1, <2>3 DEF CorsDown, CallNext, Descend
  <2> QED
    BY <2>2, <2>3
<1>6. ASSUME NEW e \in Refusals \cup {None}, GuardDown(e) PROVE Descend \/ Fail
  <2>1. dir = "down" /\ chain[at] = "guard" /\ ~Packs(at)
    BY <1>6 DEF GuardDown, Down, Packs
  <2>2. CASE e = None
    BY <1>2, <1>6, <2>1, <2>2 DEF GuardDown, CallNext, Descend
  <2>3. CASE e # None
    <3>1. e \in Nat \ {0}
      BY <2>3 DEF Refusals, Unauthorized, RequestEntityTooLarge, BadRequest
    <3> QED
      BY <1>6, <2>1, <2>3, <3>1 DEF GuardDown, Begin, Fail
  <2> QED
    BY <2>2, <2>3
<1>7. ASSUME StdDown PROVE Descend
  <2>1. dir = "down" /\ chain[at] = "std" /\ ~Packs(at)
    BY <1>2, <1>7 DEF StdDown, Packs
  <2>2. writer = [writer EXCEPT ![Ctx(at)] = W] /\ writer[Ctx(at)] = W
    BY <1>1, <1>2, <2>1 DEF Types, W
  <2>3. CASE W[1] = "wrapper"
    <3>1. W \in Live(Ctx(at), MaxLayers + 1)
      BY <1>2, <2>1 DEF Structure, Held, W
    <3> QED
      BY <2>3, <3>1 DEF Live, Base, Gzip
  <2>4. CASE W[1] # "wrapper"
    <3>1. writer' = writer /\ out' = out
      BY <1>7, <2>1, <2>2, <2>4 DEF StdDown, Adopt
    <3> QED
      BY <1>2, <1>7, <2>1, <2>2, <3>1 DEF StdDown, CallNext, Descend
  <2> QED
    BY <2>3, <2>4
<1>8. ASSUME MountDown PROVE Descend
  <2>1. dir = "down" /\ chain[at] = "mount" /\ ~Packs(at)
    BY <1>8 DEF MountDown, Down, Packs
  <2> QED
    BY <1>2, <1>8, <2>1 DEF MountDown, CallNext, Descend
<1>9. ASSUME LoggerUp \/ PassUp \/ PanicUp PROVE Back
  <2>1. CASE LoggerUp
    BY <2>1 DEF LoggerUp, Up, Back, Leave, Packs
  <2>2. CASE PassUp
    BY <2>2 DEF PassUp, Back, Leave, Packs
  <2>3. CASE PanicUp
    BY <2>3 DEF PanicUp, Back, Leave, Packs
  <2> QED
    BY <1>9, <2>1, <2>2, <2>3
<1>10. ASSUME CompressUp PROVE Back \/ Close
  BY <1>10 DEF CompressUp, Up, Back, Close, Leave, Packs
<1>11. ASSUME NEW code \in Codes, HandlerStatus(code) PROVE Stay
  BY <1>11 DEF HandlerStatus, InHandler, Down, Stay
<1>12. ASSUME NEW code \in Codes, HandlerFails("up", code) PROVE Fail
  <2>1. code \in Nat \ {0}
    BY LayersAssumption
  <2> QED
    BY <1>12, <2>1 DEF HandlerFails, InHandler, Down, Begin, Fail
<1>13. ASSUME NEW e \in {OtherPanic, ErrAbortHandler}, HandlerFails("panic", e)
       PROVE  Fail
  BY <1>13 DEF HandlerFails, InHandler, Down, Begin, Fail
<1>14. ASSUME HandlerWrite PROVE Stay
  <2>1. dir = "down" /\ chain[at] = "handler"
    BY <1>14 DEF HandlerWrite, InHandler, Down
  <2>2. Reaches(out, W)
    BY <1>1, <1>2, <2>1, Reaching DEF Running
  <2> QED
    BY <1>14, <2>1, <2>2 DEF HandlerWrite, Stay
<1>15. ASSUME HandlerReturns PROVE Answer
  BY <1>15 DEF HandlerReturns, InHandler, Down, Answers, Answer
<1>16. ASSUME Finish PROVE dir' = "done"
  <2>1. Reaches(out, writer[1])
    BY Reaching
  <2> QED
    BY <1>16, <2>1 DEF Finish
<1> HIDE DEF request
<1> QED
  BY <1>3, <1>4, <1>5, <1>6, <1>7, <1>8, <1>9, <1>10, <1>11, <1>12, <1>13,
     <1>14, <1>15, <1>16, Zenon DEF Next

-----------------------------------------------------------------------------
(* The structure of the writers is invariant.                              *)

\* What depends on the request only.
LEMMA SameChain ==
  ASSUME chain' = chain, accepts' = accepts
  PROVE  \A i : Ctx(i)' = Ctx(i) /\ Packs(i)' = Packs(i) /\ Place(i)' = Place(i)
BY DEF Ctx, Packs, Place

\* And on the calls of Next.
LEMMA SameSaved ==
  ASSUME chain' = chain, accepts' = accepts, saved' = saved
  PROVE  \A i : /\ Entered(i)' = Entered(i) /\ Found(i)' = Found(i)
                /\ \A c : Live(c, i)' = Live(c, i)
BY DEF Entered, Found, Live, Packs, Ctx

\* The writers of a Context are writers.
LEMMA LiveWriters ==
  ASSUME Types, NEW c \in Contexts, NEW i \in Nat
  PROVE  /\ Live(c, i) \subseteq Live(c, i + 1)
         /\ i <= MaxLayers + 1 => /\ Live(c, i) \subseteq Writers
                                  /\ Live(c, i) \subseteq Live(c, MaxLayers + 1)
<1>1. ASSUME i <= MaxLayers + 1
      PROVE  1 .. i - 1 \subseteq Layer /\ 1 .. i - 1 \subseteq 1 .. (MaxLayers + 1) - 1
  BY <1>1, DepthNat DEF Layer
<1> QED
  BY <1>1, LiveStep, WritersKinds DEF Live

\* A layer calls Next.
LEMMA DescendKeeps ==
  ASSUME Structure, Descend
  PROVE  Structure'
<1>1. /\ Types /\ Proper /\ Len(chain) \in Nat /\ at \in 1 .. Len(chain)
      /\ Len(chain) <= MaxLayers /\ MaxLayers \in Nat /\ at \in Layer
      /\ \A i \in Layer : Entered(i) <=> i < at
  BY DepthNat DEF Structure, Types, Proper, Control, Descend, Layer
<1>2. at # Len(chain) /\ at' = at + 1 /\ at' \in 1 .. Len(chain)
  BY <1>1 DEF Descend, Proper
<1>3. chain' = chain /\ accepts' = accepts /\ recovery' = recovery /\ dir' = "down"
      /\ dir = "down"
  BY DEF Descend, request
<1>4. /\ Ctx(at) \in Contexts /\ Contexts = {1, 2}
      /\ Ctx(at + 1) = IF chain[at] = "mount" THEN 2 ELSE Ctx(at)
  BY <1>1, CtxSteps DEF Contexts
<1>5. W = Found(at) /\ path = Place(at) /\ writer[Ctx(at)] = Found(at)
  BY <1>3 DEF Structure, Held, W
<1> DEFINE new == [writer |-> IF Packs(at) THEN Gzip(at) ELSE Found(at),
                   path |-> Place(at + 1)]
<1>6. Found(at) \in Live(Ctx(at), at) /\ Found(at) \in Writers
  <2>1. Found(at) \in Live(Ctx(at), MaxLayers + 1)
    BY <1>4, <1>5 DEF Structure, Held
  <2>2. \A k \in 1 .. (MaxLayers + 1) - 1 : Entered(k) => k \in 1 .. at - 1
    BY <1>1 DEF Layer
  <2>3. Found(at) \in Live(Ctx(at), at)
    BY <2>1, <2>2 DEF Live
  <2>4. at \in Nat /\ at <= MaxLayers + 1
    BY <1>1
  <2> QED
    BY <1>1, <1>4, <2>3, <2>4, LiveWriters
<1>7. new \in Saved /\ new # None
  BY <1>1, <1>6, WritersKinds, NoneAssumption DEF Saved, Place
<1>8. saved' = [saved EXCEPT ![at] = new] /\ path' = Place(at + 1)
  BY DEF Descend
<1>9. /\ saved' \in [Layer -> Saved \cup {None}] /\ saved'[at] = new
      /\ \A i \in Layer : i # at => saved'[i] = saved[i]
  BY <1>1, <1>7, <1>8 DEF Types
<1> HIDE DEF new
<1>10. \A i \in Layer : Entered(i)' <=> i < at'
  BY <1>1, <1>2, <1>7, <1>9 DEF Entered, Layer
<1>11. /\ IsOut(out') /\ writer' \in [Contexts -> Writers]
       /\ \A v \in Writers : v # Gzip(at) /\ v # Base(2) => out'.under[v] = out.under[v]
       /\ Packs(at) => out'.under[Gzip(at)] = Found(at)
                       /\ out'.under[Base(2)] = out.under[Base(2)]
       /\ chain[at] = "mount" => out'.under[Base(2)] = Found(at)
       /\ ~Packs(at) => out'.under[Gzip(at)] = out.under[Gzip(at)]
       /\ ~Packs(at) /\ chain[at] # "mount" => out' = out
  <2>1. Gzip(at) \in Writers /\ Base(2) \in Writers /\ Gzip(at) # Base(2)
    BY <1>1, <1>4, WritersKinds DEF Gzip, Base
  <2>2. IsOut(out) /\ writer \in [Contexts -> Writers]
    BY <1>1 DEF Types
  <2>3. CASE Packs(at)
    <3>1. chain[at] # "mount"
      BY <2>3 DEF Packs
    <3>2. out' = [out EXCEPT !.header = "gzip", !.under[Gzip(at)] = Found(at),
                             !.buffer[at] = <<>>]
          /\ writer' = [writer EXCEPT ![Ctx(at)] = Gzip(at)]
      BY <2>3, <3>1 DEF Descend
    <3>3. IsOut(out') /\ out'.under = [out.under EXCEPT ![Gzip(at)] = Found(at)]
      BY <1>1, <1>6, <2>1, <2>2, <3>2 DEF IsOut, Encodings
    <3>4. writer' \in [Contexts -> Writers]
      BY <1>4, <2>1, <2>2, <3>2
    <3>5. /\ out'.under[Gzip(at)] = Found(at) /\ out'.under[Base(2)] = out.under[Base(2)]
          /\ \A v \in Writers : v # Gzip(at) => out'.under[v] = out.under[v]
      <4>1. out.under \in [Writers -> Writers]
        BY <2>2 DEF IsOut
      <4> QED
        BY <2>1, <3>3, <4>1
    <3> QED
      BY <2>3, <3>1, <3>3, <3>4, <3>5
  <2>4. CASE chain[at] = "mount"
    <3>1. ~Packs(at)
      BY <2>4 DEF Packs
    <3>2. out' = [out EXCEPT !.under[Base(2)] = Found(at), !.recorded[2] = 0]
          /\ writer' = [writer EXCEPT ![2] = Base(2)]
      BY <2>4, <3>1 DEF Descend
    <3>3. IsOut(out') /\ out'.under = [out.under EXCEPT ![Base(2)] = Found(at)]
      BY <1>1, <1>4, <1>6, <2>1, <2>2, <3>2 DEF IsOut, Encodings
    <3> QED
      BY <2>1, <2>2, <2>4, <3>1, <3>2, <3>3 DEF IsOut
  <2>5. CASE ~Packs(at) /\ chain[at] # "mount"
    <3>1. out' = out /\ writer' = writer
      BY <2>5 DEF Descend
    <3> QED
      BY <2>2, <2>5, <3>1
  <2> QED
    BY <2>3, <2>4, <2>5
<1>12. Types'
  BY <1>1, <1>2, <1>3, <1>8, <1>9, <1>11 DEF Types, Proper, Descend, Place, request
<1>13. Control'
  BY <1>1, <1>2, <1>3, <1>10 DEF Control, Layer
<1>14. \A i \in Nat : i <= at => \A c : Live(c, i)' = Live(c, i)
  <2>1. \A k \in Layer : k < at => Entered(k)' = Entered(k)
    BY <1>1, <1>9 DEF Entered, Layer
  <2>2. \A i \in Nat : i <= at => \A k \in 1 .. i - 1 : k \in Layer /\ k < at
    BY <1>1 DEF Layer
  <2> SUFFICES ASSUME NEW i \in Nat, i <= at, NEW c PROVE Live(c, i)' = Live(c, i)
    OBVIOUS
  <2>3. {k \in 1 .. i - 1 : Entered(k)' /\ Packs(k)' /\ Ctx(k)' = c}
          = {k \in 1 .. i - 1 : Entered(k) /\ Packs(k) /\ Ctx(k) = c}
    BY <1>3, <2>1, <2>2, SameChain
  <2> QED
    BY <2>3 DEF Live, Base, Gzip
<1>15. \A i \in Layer : i <= at => Found(i)' = Found(i)
  BY <1>1, <1>3, <1>9 DEF Found, Layer
<1>16. PICK n \in Layer : n = at
  BY <1>1
<1>17. Linked'
  <2>1. out'.under[Wire] = Wire /\ out'.under[Base(1)] = Wire
    <3>1. /\ Wire \in Writers /\ Base(1) \in Writers /\ Wire # Gzip(at)
          /\ Wire # Base(2) /\ Base(1) # Gzip(at) /\ Base(1) # Base(2)
      BY <1>4, WritersKinds DEF Wire, Base, Gzip
    <3> QED
      BY <1>11, <3>1 DEF Structure, Linked
  <2>2. ASSUME NEW i \in Layer, i < at PROVE Placed(i)'
    <3>1. Entered(i) /\ i \in Nat /\ i <= at
      BY <1>1, <2>2 DEF Layer
    <3>2. Placed(i)
      BY <3>1 DEF Structure, Linked
    <3>3. saved'[i] = saved[i] /\ Found(i)' = Found(i) /\ Live(Ctx(i), i)' = Live(Ctx(i), i)
      BY <1>1, <1>9, <1>14, <1>15, <2>2, <3>1, <1>3, SameChain
    <3>4. Gzip(i) # Gzip(at) /\ Gzip(i) # Base(2) /\ Gzip(i) \in Writers
      BY <1>1, <2>2, WritersKinds DEF Gzip, Base, Layer
    <3>5. out'.under[Gzip(i)] = out.under[Gzip(i)]
      BY <1>11, <3>4
    <3>6. chain[i] = "mount" => out'.under[Base(2)] = out.under[Base(2)]
      <4> SUFFICES ASSUME chain[i] = "mount" PROVE out'.under[Base(2)] = out.under[Base(2)]
        OBVIOUS
      <4>1. chain[at] # "mount"
        BY <1>1, <2>2 DEF Proper, Layer
      <4> QED
        BY <1>11, <4>1
    <3> QED
      BY <1>3, <3>2, <3>3, <3>5, <3>6, SameChain DEF Placed, Gzip, Base
  <2>3. Placed(n)'
    <3>1. n \in Nat /\ n <= at /\ n = at /\ n \in Layer
      BY <1>1, <1>16
    <3>2. Found(n)' = Found(n) /\ Live(Ctx(n), n)' = Live(Ctx(n), n)
      BY <1>14, <1>15, <3>1, <1>3, SameChain
    <3>3. saved'[n] = [writer |-> IF Packs(n) THEN Gzip(n) ELSE Found(n),
                       path |-> Place(n + 1)]
      BY <1>9, <3>1 DEF new
    <3> QED
      BY <1>3, <1>6, <1>11, <3>1, <3>2, <3>3, SameChain DEF Placed, Gzip, Base
  <2>4. \A i \in Layer : Entered(i)' => i < at \/ i = at
    BY <1>1, <1>2, <1>10 DEF Layer
  <2> QED
    BY <1>16, <2>1, <2>2, <2>3, <2>4 DEF Linked, Wire, Base
<1>18. Held'
  <2>1. ASSUME NEW c \in Contexts PROVE (writer[c] \in Live(c, MaxLayers + 1))'
    <3>1. \A k \in 1 .. (MaxLayers + 1) - 1 : Entered(k) => Entered(k)'
      BY <1>1, <1>2, <1>10 DEF Layer
    <3>2. \A w \in Live(c, MaxLayers + 1) : w \in Live(c, MaxLayers + 1)'
      BY <1>3, <3>1, SameChain DEF Live, Base, Gzip
    <3>3. writer[c] \in Live(c, MaxLayers + 1)
      BY DEF Structure, Held
    <3>4. CASE writer'[c] = writer[c]
      BY <3>2, <3>3, <3>4
    <3>5. CASE Packs(at) /\ c = Ctx(at) /\ writer'[c] = Gzip(at)
      <4>1. n \in 1 .. (MaxLayers + 1) - 1 /\ Entered(n)'
        BY <1>1, <1>2, <1>10, <1>16 DEF Layer
      <4> QED
        BY <1>3, <1>16, <3>5, <4>1, SameChain DEF Live, Gzip
    <3>6. CASE writer'[c] = Base(c)
      BY <3>6 DEF Live, Base
    <3> QED
      BY <1>1, <1>4, <3>4, <3>5, <3>6 DEF Descend, Types
  <2>2. /\ writer'[Ctx(at + 1)] = IF chain[at] = "mount" THEN Base(2) ELSE new.writer
        /\ Ctx(at) = 2 \/ chain[at] = "mount" => writer'[1] = writer[1]
    BY <1>1, <1>4, <1>5, CtxSteps DEF Descend, Types, new, Packs
  <2>3. Found(n + 1)' = writer'[Ctx(at + 1)]
    <3>1. n + 1 # 1 /\ (n + 1) - 1 = n /\ n = at
      BY <1>1, <1>16
    <3> QED
      BY <1>3, <1>9, <2>2, <3>1 DEF Found, Base
  <2>4. W' = Found(at)' /\ path' = Place(at)'
    <3>1. W' = writer'[Ctx(at + 1)]
      BY <1>2, <1>3, SameChain DEF W
    <3>2. Found(at)' = Found(n + 1)' /\ Place(at)' = Place(n + 1)'
      BY <1>2, <1>16 DEF Found, Place, Ctx
    <3> QED
      BY <1>3, <1>8, <1>16, <2>3, <3>1, <3>2, SameChain
  <2>5. ASSUME NEW m \in 1 .. at' - 1, chain[m] = "mount"
        PROVE  writer'[1] = saved'[m].writer
    <3>1. CASE m = at
      <4>1. Ctx(at) = 1 /\ ~Packs(at)
        BY <1>1, <2>5, <3>1, CtxSteps DEF Packs
      <4> QED
        BY <1>5, <1>9, <2>2, <2>5, <3>1, <4>1 DEF new
    <3>2. CASE m < at
      <4>1. m \in 1 .. at - 1 /\ m \in Layer
        BY <1>1, <3>2 DEF Layer
      <4>2. writer[1] = saved[m].writer
        BY <1>3, <2>5, <4>1 DEF Structure, Held, Running
      <4>3. Ctx(at) = 2
        BY <1>1, <2>5, <3>2, CtxSteps
      <4> QED
        BY <1>9, <2>2, <3>2, <4>1, <4>2, <4>3
    <3> QED
      BY <1>1, <1>2, <3>1, <3>2
  <2> QED
    BY <1>3, <2>1, <2>4, <2>5 DEF Held
<1> QED
  BY <1>12, <1>13, <1>17, <1>18 DEF Structure

\* A step that leaves a layer, with the writer and the path it found.
LEMMA RiseKeeps ==
  ASSUME Structure, Types', Running, at > 0, at' = at - 1,
         dir' \in {"up", "panic"}, UNCHANGED <<chain, accepts, saved>>,
         out'.under = out.under,
         \A c \in Contexts : c # Ctx(at) => writer'[c] = writer[c],
         writer'[Ctx(at)] \in Live(Ctx(at), MaxLayers + 1),
         ~Dirty' => writer'[Ctx(at)] = Found(at) /\ path' = Place(at)
  PROVE  Structure'
<1>1. /\ Types /\ Proper /\ Len(chain) \in Nat /\ at \in 1 .. Len(chain)
      /\ Len(chain) <= MaxLayers /\ MaxLayers \in Nat /\ at \in Layer
  BY DepthNat DEF Structure, Types, Proper, Layer
<1>2. Ctx(at) \in Contexts /\ Contexts = {1, 2} /\ chain' = chain /\ saved' = saved
  BY <1>1, CtxSteps DEF Contexts
<1>3. \A i \in 1 .. at' : Entered(i)
  BY <1>1 DEF Structure, Control, Running, Layer
<1>4. /\ \A i : /\ Entered(i)' = Entered(i) /\ Found(i)' = Found(i)
                /\ Ctx(i)' = Ctx(i) /\ Packs(i)' = Packs(i) /\ Place(i)' = Place(i)
      /\ \A i, c : Live(c, i)' = Live(c, i)
  BY SameChain, SameSaved
<1>5. Control'
  BY <1>2, <1>3, <1>4 DEF Control, Structure
<1>6. Linked'
  <2>1. \A i : Placed(i) => Placed(i)'
    BY <1>2, <1>4 DEF Placed, Gzip, Base
  <2> QED
    BY <1>4, <2>1 DEF Linked, Structure, Wire, Base
<1>7. ASSUME NEW m \in 1 .. at - 1, chain[m] = "mount"
      PROVE  writer'[1] = saved[m].writer
  <2>1. m \in 1 .. Len(chain) /\ at > m
    BY <1>1
  <2>2. Ctx(at) = 2
    BY <1>1, <1>7, <2>1, CtxSteps
  <2> QED
    BY <1>2, <1>7, <2>2 DEF Structure, Held
<1>8. ASSUME at' > 0, ~Dirty' PROVE (saved[at] = [writer |-> W, path |-> path])'
  <2>1. at - 1 \in Layer /\ at - 1 \in 1 .. Len(chain) /\ (at - 1) + 1 = at /\ at # 1
    BY <1>1, <1>8 DEF Layer
  <2>2. saved[at - 1] =
          [writer |-> IF Packs(at - 1) THEN Gzip(at - 1) ELSE Found(at - 1),
           path |-> Place(at)]
    BY <1>3, <2>1 DEF Structure, Linked, Placed
  <2>3. W' = writer'[Ctx(at - 1)]
    BY <1>4 DEF W
  <2>4. CASE chain[at - 1] = "mount"
    <3>1. Ctx(at - 1) = 1
      BY <1>1, <2>1, <2>4, CtxSteps
    <3>2. writer'[1] = saved[at - 1].writer
      BY <1>7, <2>1, <2>4
    <3>3. path' = Place(at)
      BY <1>8
    <3> QED
      BY <1>2, <2>2, <2>3, <3>1, <3>2, <3>3
  <2>5. CASE chain[at - 1] # "mount"
    <3>1. Ctx(at - 1) = Ctx(at)
      BY <1>1, <2>1, <2>5, CtxSteps
    <3>2. Found(at) = saved[at - 1].writer
      BY <2>1, <2>5 DEF Found
    <3>3. path' = Place(at) /\ writer'[Ctx(at)] = Found(at)
      BY <1>8
    <3> QED
      BY <1>2, <2>2, <2>3, <3>1, <3>2, <3>3
  <2> QED
    BY <2>4, <2>5
<1>9. Held'
  <2>1. \A c \in Contexts : writer'[c] \in Live(c, MaxLayers + 1)
    BY DEF Structure, Held
  <2>2. \A m \in 1 .. at' - 1 : m \in 1 .. at - 1
    BY <1>1
  <2> QED
    BY <1>2, <1>4, <1>7, <1>8, <2>1, <2>2 DEF Held
<1> QED
  BY <1>5, <1>6, <1>9 DEF Structure

\* A step that leaves control where it is, or ends the request.
LEMMA StillKeeps ==
  ASSUME Structure, Types', UNCHANGED <<chain, accepts, saved, writer, path, at, unwound>>,
         out'.under = out.under,
         dir' = dir \/ (at = 0 /\ dir' \in {"done", "aborted"})
  PROVE  Structure'
<1>1. chain' = chain /\ saved' = saved /\ writer' = writer /\ path' = path /\ at' = at
  OBVIOUS
<1>2. /\ \A i : /\ Entered(i)' = Entered(i) /\ Found(i)' = Found(i)
                /\ Ctx(i)' = Ctx(i) /\ Packs(i)' = Packs(i) /\ Place(i)' = Place(i)
      /\ \A i, c : Live(c, i)' = Live(c, i)
      /\ Dirty' = Dirty
  BY SameChain, SameSaved DEF Dirty
<1>3. Control'
  BY <1>1, <1>2 DEF Control, Structure
<1>4. Linked'
  <2>1. \A i : Placed(i) => Placed(i)'
    BY <1>1, <1>2 DEF Placed, Gzip, Base
  <2> QED
    BY <1>2, <2>1 DEF Linked, Structure, Wire, Base
<1>5. W' = W
  BY <1>1, <1>2 DEF W
<1>6. Held'
  BY <1>1, <1>2, <1>5 DEF Held, Structure, Running
<1> QED
  BY <1>3, <1>4, <1>6 DEF Structure

\* What CloseGzip and DefaultErrorHandler leave alone.
LEMMA CloseKeeps ==
  ASSUME NEW o, IsOut(o), NEW i \in Layer
  PROVE  LET p == CloseGzip(o, i)
         IN  IsOut(p) /\ p.under = o.under /\ p.header = o.header
<1> DEFINE u == [o EXCEPT !.begun = @ \cup {i}]
           w == o.under[Gzip(i)]
           b == IF i \in o.begun THEN o ELSE Write(u, w, GzipHeader)
<1>1. IsOut(u) /\ u.under = o.under /\ u.header = o.header
  BY DEF IsOut
<1>2. w \in Writers
  BY WritersKinds DEF IsOut
<1>3. CloseGzip(o, i) = Write(b, w, <<"deflated", o.buffer[i]>>)
  BY DEF CloseGzip
<1> HIDE DEF u, w
<1>4. IsOut(b) /\ b.under = o.under /\ b.header = o.header
  BY <1>1, <1>2, WriteKeeps
<1> HIDE DEF b
<1> QED
  BY <1>2, <1>3, <1>4, WriteKeeps

\* DefaultErrorHandler leaves the writers as they are.
LEMMA ErrorKeeps ==
  ASSUME NEW o, IsOut(o), NEW w \in Writers, NEW code \in Nat
  PROVE  LET p == DefaultErrorHandler(o, w, code)
         IN  IsOut(p) /\ p.under = o.under /\ p.header = o.header
<1> DEFINE q == WriteHeader(o, w, code)
<1>1. IsOut(q) /\ q.under = o.under /\ q.header = o.header
  BY HeaderKeeps
<1>2. DefaultErrorHandler(o, w, code) =
        IF Status(o, w) # 0 THEN o ELSE Write(q, w, <<"error", code>>)
  BY DEF DefaultErrorHandler
<1> HIDE DEF q
<1>3. LET p == Write(q, w, <<"error", code>>)
      IN  IsOut(p) /\ p.under = q.under /\ p.header = q.header
  BY <1>1, WriteKeeps
<1> QED
  BY <1>1, <1>2, <1>3

\* Facts about a layer that gets control back.
LEMMA UpFacts ==
  ASSUME Structure, dir \in {"up", "panic"}, at > 0
  PROVE  /\ at \in Layer /\ at \in 1 .. Len(chain) /\ Entered(at) /\ Placed(at)
         /\ chain[at] # "handler" /\ Ctx(at) \in Contexts /\ W \in Writers
         /\ W \in Live(Ctx(at), MaxLayers + 1)
         /\ Found(at) \in Live(Ctx(at), MaxLayers + 1) /\ Found(at) \in Writers
         /\ ~Dirty => W = saved[at].writer /\ path = Place(at + 1)
<1>1. /\ Types /\ Proper /\ Len(chain) \in Nat /\ at \in 1 .. Len(chain)
      /\ Len(chain) <= MaxLayers /\ MaxLayers \in Nat /\ at \in Layer
  BY DepthNat DEF Structure, Types, Proper, Layer
<1>2. Entered(at) /\ Placed(at) /\ at < Len(chain)
  BY <1>1 DEF Structure, Control, Linked
<1>3. Ctx(at) \in Contexts
  BY <1>1, CtxSteps
<1>4. W \in Live(Ctx(at), MaxLayers + 1)
  BY <1>3 DEF Structure, Held, W
<1>5. at \in Nat /\ at <= MaxLayers + 1 /\ MaxLayers + 1 \in Nat
      /\ MaxLayers + 1 <= MaxLayers + 1
  BY <1>1
<1>6. W \in Writers /\ Found(at) \in Writers
      /\ Found(at) \in Live(Ctx(at), MaxLayers + 1)
  BY <1>1, <1>2, <1>3, <1>4, <1>5, LiveWriters DEF Placed
<1>7. ~Dirty => W = saved[at].writer /\ path = Place(at + 1)
  BY <1>2 DEF Structure, Held, Placed
<1> QED
  BY <1>1, <1>2, <1>3, <1>4, <1>6, <1>7 DEF Proper

\* Facts about a layer that is called.
LEMMA DownFacts ==
  ASSUME Structure, dir = "down"
  PROVE  /\ at \in Layer /\ at \in 1 .. Len(chain) /\ Ctx(at) \in Contexts
         /\ W \in Writers /\ W \in Live(Ctx(at), MaxLayers + 1)
         /\ W = Found(at) /\ path = Place(at) /\ writer[Ctx(at)] = W
<1>1. /\ Types /\ Proper /\ Len(chain) \in Nat /\ at \in 1 .. Len(chain)
      /\ Len(chain) <= MaxLayers /\ MaxLayers \in Nat /\ at \in Layer
  BY DepthNat DEF Structure, Types, Proper, Layer, Control
<1>2. Ctx(at) \in Contexts
  BY <1>1, CtxSteps
<1> QED
  BY <1>1, <1>2 DEF Structure, Held, W, Types

\* The handler writes.
LEMMA StayKeeps ==
  ASSUME Structure, Stay
  PROVE  Structure'
<1>1. dir = "down" /\ Types
  BY DEF Stay, Structure
<1>2. W \in Writers /\ IsOut(out)
  BY <1>1, DownFacts DEF Types
<1>3. IsOut(out') /\ out'.under = out.under /\ chunks' \in Nat
  <2>1. ASSUME NEW code \in Codes, out' = WriteHeader(out, W, code), chunks' = chunks
        PROVE  IsOut(out') /\ out'.under = out.under /\ chunks' \in Nat
    BY <1>1, <1>2, <2>1, HeaderKeeps, LayersAssumption DEF Types
  <2>2. ASSUME out' = Write(out, W, <<"chunk", chunks + 1>>), chunks' = chunks + 1
        PROVE  IsOut(out') /\ out'.under = out.under /\ chunks' \in Nat
    BY <1>1, <1>2, <2>2, WriteKeeps DEF Types
  <2> QED
    BY <2>1, <2>2 DEF Stay
<1>4. Types'
  BY <1>1, <1>3 DEF Types, Proper, Stay, request
<1> QED
  BY <1>3, <1>4, StillKeeps DEF Stay, request

\* A layer returns without having called Next.
LEMMA AnswerKeeps ==
  ASSUME Structure, Answer
  PROVE  Structure'
<1>1. dir = "down" /\ Types /\ at' = at - 1 /\ dir' = "up" /\ writer' = writer
  BY DEF Answer, Structure
<1>2. W \in Writers /\ IsOut(out) /\ at \in 1 .. Len(chain) /\ Len(chain) \in Nat
  BY <1>1, DownFacts DEF Types, Proper
<1>3. IsOut(out') /\ out'.under = out.under
  BY <1>2, HeaderKeeps DEF Answer
<1>4. at' \in 0 .. Len(chain) /\ err' = None
  <2>1. err = None
    BY <1>1 DEF Types
  <2> QED
    BY <1>1, <1>2, <2>1 DEF Answer
<1>5. Types'
  BY <1>1, <1>3, <1>4 DEF Types, Proper, Answer, request
<1>6. writer'[Ctx(at)] = Found(at) /\ path' = Place(at)
      /\ writer'[Ctx(at)] \in Live(Ctx(at), MaxLayers + 1)
  BY <1>1, DownFacts DEF Answer
<1> QED
  BY <1>1, <1>2, <1>3, <1>5, <1>6, RiseKeeps DEF Answer, request, Running

\* A layer begins to fail.
LEMMA FailKeeps ==
  ASSUME Structure, Fail
  PROVE  Structure'
<1>1. dir = "down" /\ Types /\ at' = at - 1 /\ writer' = writer /\ out' = out
      /\ dir' \in {"up", "panic"}
  BY DEF Fail, Structure
<1>2. at \in 1 .. Len(chain) /\ Len(chain) \in Nat
  BY <1>1, DownFacts DEF Types, Proper
<1>3. Status(out, W) \in Nat
  BY <1>1, <1>2, Reaching DEF Running
<1>4. at' \in 0 .. Len(chain) /\ failed' \in Failure
  BY <1>1, <1>2, <1>3 DEF Fail, Failure
<1>5. err' \in Nat \cup {None, ErrAbortHandler, OtherPanic}
      /\ (dir' = "up" => err' \in (Nat \ {0}) \cup {None})
  BY DEF Fail
<1>6. Types'
  BY <1>1, <1>4, <1>5 DEF Types, Proper, Fail, request
<1>7. writer'[Ctx(at)] = Found(at) /\ path' = Place(at)
      /\ writer'[Ctx(at)] \in Live(Ctx(at), MaxLayers + 1)
  BY <1>1, DownFacts DEF Fail
<1> QED
  BY <1>1, <1>2, <1>6, <1>7, RiseKeeps DEF Fail, request, Running

\* Control leaves a layer that does not compress, or a panic any layer.
LEMMA BackKeeps ==
  ASSUME Structure, Back
  PROVE  Structure'
<1>1. dir \in {"up", "panic"} /\ at > 0 /\ Types /\ at' = at - 1
      /\ writer' = writer /\ out' = out /\ path' = path /\ dir' = dir
  BY DEF Back, Leave, Structure
<1>2. at \in 1 .. Len(chain) /\ Len(chain) \in Nat /\ at \in Layer
  BY <1>1, UpFacts DEF Types, Proper
<1>3. LogStatus \in Nat
  BY <1>1, Reaching DEF Running, LogStatus
<1>4. at' \in 0 .. Len(chain) /\ logged' \in [Layer -> Nat \cup {None}]
  BY <1>1, <1>2, <1>3 DEF Back, Types
<1>5. Types'
  BY <1>1, <1>4 DEF Types, Proper, Back, Leave, request
<1>6. ASSUME ~Dirty' PROVE writer'[Ctx(at)] = Found(at) /\ path' = Place(at)
  <2>1. ~Dirty /\ ~(dir = "panic" /\ chain[at] \in {"compress", "mount"})
    <3>1. unwound \subseteq unwound' /\ chain' = chain
      BY DEF Back, Leave, request
    <3>2. dir = "panic" => <<at, "panic">> \in unwound'
      BY DEF Back, Leave
    <3>3. at \in DOMAIN chain /\ DOMAIN chain' = DOMAIN chain
      BY <1>1, <1>2, <3>1 DEF Types, Proper
    <3> QED
      BY <1>6, <3>1, <3>2, <3>3 DEF Dirty
  <2>2. ~Packs(at) /\ chain[at] # "mount"
    BY <2>1 DEF Back, Packs
  <2>3. W = saved[at].writer /\ path = Place(at + 1) /\ Placed(at)
    BY <1>1, <2>1, UpFacts
  <2>4. W = Found(at)
    BY <2>2, <2>3 DEF Placed
  <2>5. Place(at + 1) = Place(at)
    BY <1>1, <1>2, <2>2, CtxSteps DEF Place, Types
  <2> QED
    BY <1>1, <2>3, <2>4, <2>5 DEF W
<1>7. writer'[Ctx(at)] \in Live(Ctx(at), MaxLayers + 1)
  BY <1>1, UpFacts DEF W
<1> QED
  BY <1>1, <1>5, <1>6, <1>7, RiseKeeps DEF Back, Leave, request, Running

\* Control leaves a layer that compresses.
LEMMA CloseMoves ==
  ASSUME Structure, Close
  PROVE  Structure'
<1>1. /\ dir = "up" /\ at > 0 /\ Types /\ at' = at - 1 /\ path' = path /\ dir' = dir
      /\ Packs(at) /\ out' = CloseGzip(out, at) /\ writer' = Restore
  BY DEF Close, Leave, Structure
<1>2. at \in 1 .. Len(chain) /\ Len(chain) \in Nat /\ at \in Layer /\ IsOut(out)
  BY <1>1, UpFacts DEF Types, Proper
<1>3. IsOut(out') /\ out'.under = out.under
  BY <1>1, <1>2, CloseKeeps
<1>4. at' \in 0 .. Len(chain)
  BY <1>1, <1>2
<1>5. /\ Ctx(at) \in Contexts /\ writer' = [writer EXCEPT ![Ctx(at)] = Found(at)]
      /\ Found(at) \in Writers /\ Found(at) \in Live(Ctx(at), MaxLayers + 1)
  BY <1>1, UpFacts DEF Restore, Placed
<1>6. Types'
  BY <1>1, <1>3, <1>4, <1>5 DEF Types, Proper, Close, Leave, request
<1>7. writer'[Ctx(at)] = Found(at) /\ \A c \in Contexts : c # Ctx(at) => writer'[c] = writer[c]
  BY <1>1, <1>5 DEF Types
<1>8. ASSUME ~Dirty' PROVE path' = Place(at)
  <2>1. ~Dirty
    <3>1. unwound \subseteq unwound' /\ chain' = chain
      BY DEF Close, Leave, request
    <3> QED
      BY <1>8, <3>1 DEF Dirty
  <2>2. path = Place(at + 1)
    BY <1>1, <2>1, UpFacts
  <2>3. Place(at + 1) = Place(at)
    BY <1>1, <1>2, CtxSteps DEF Place, Types, Packs
  <2> QED
    BY <1>1, <2>2, <2>3
<1> QED
  BY <1>1, <1>3, <1>5, <1>6, <1>7, <1>8, RiseKeeps DEF Close, Leave, request, Running

\* A Recoverer stops a panic.
LEMMA RecovererKeeps ==
  ASSUME Structure, RecovererPanic
  PROVE  Structure'
<1>1. /\ dir = "panic" /\ at > 0 /\ Types /\ at' = at - 1 /\ path' = path
      /\ dir' = "up" /\ err' = None /\ chain[at] = "recoverer" /\ writer' = writer
      /\ out' = IF Status(out, W) = 0 THEN WriteHeader(out, W, 500) ELSE out
  BY DEF RecovererPanic, Structure
<1>2. at \in 1 .. Len(chain) /\ Len(chain) \in Nat /\ at \in Layer /\ IsOut(out)
  BY <1>1, UpFacts DEF Types, Proper
<1>3. IsOut(out') /\ out'.under = out.under
  BY <1>1, <1>2, HeaderKeeps
<1>4. at' \in 0 .. Len(chain)
  BY <1>1, <1>2
<1>5. Types'
  BY <1>1, <1>3, <1>4 DEF Types, Proper, RecovererPanic, request
<1>6. ASSUME ~Dirty' PROVE writer'[Ctx(at)] = Found(at) /\ path' = Place(at)
  <2>1. ~Dirty
    BY <1>6 DEF Dirty, RecovererPanic, request
  <2>2. W = saved[at].writer /\ path = Place(at + 1) /\ Placed(at)
    BY <1>1, <2>1, UpFacts
  <2>3. W = Found(at)
    BY <1>1, <2>2 DEF Placed, Packs
  <2>4. Place(at + 1) = Place(at)
    BY <1>1, <1>2, CtxSteps DEF Place, Types
  <2> QED
    BY <1>1, <2>2, <2>3, <2>4 DEF W
<1>7. writer'[Ctx(at)] \in Live(Ctx(at), MaxLayers + 1)
  BY <1>1, UpFacts DEF W
<1> QED
  BY <1>1, <1>3, <1>5, <1>6, <1>7, RiseKeeps DEF RecovererPanic, request, Running

\* The mounted router is done.
LEMMA MountKeeps ==
  ASSUME Structure, MountUp
  PROVE  Structure'
<1>1. /\ dir \in {"up", "panic"} /\ at > 0 /\ Types /\ at' = at - 1 /\ path' = "full"
      /\ dir' = "up" /\ err' = None /\ chain[at] = "mount" /\ writer' = writer
      /\ out' = IF dir = "panic" THEN DefaultErrorHandler(out, writer[2], 500)
                ELSE IF err # None THEN DefaultErrorHandler(out, writer[2], err)
                ELSE out
  BY DEF MountUp, Structure
<1>2. /\ at \in 1 .. Len(chain) /\ Len(chain) \in Nat /\ at \in Layer /\ IsOut(out)
      /\ Ctx(at) = 1
  BY <1>1, UpFacts, CtxSteps DEF Types, Proper
<1>3. IsOut(out') /\ out'.under = out.under
  <2>1. writer[2] \in Writers /\ (dir = "up" /\ err # None => err \in Nat)
    BY <1>1 DEF Types, Contexts
  <2>2. ASSUME NEW code \in Nat
        PROVE  LET p == DefaultErrorHandler(out, writer[2], code)
               IN  IsOut(p) /\ p.under = out.under
    BY <1>2, <2>1, ErrorKeeps
  <2> QED
    BY <1>1, <1>2, <2>1, <2>2
<1>4. at' \in 0 .. Len(chain)
  BY <1>1, <1>2
<1>5. Types'
  BY <1>1, <1>3, <1>4 DEF Types, Proper, MountUp, request
<1>6. ASSUME ~Dirty' PROVE writer'[Ctx(at)] = Found(at) /\ path' = Place(at)
  <2>1. ~Dirty
    BY <1>6 DEF Dirty, MountUp, request
  <2>2. W = saved[at].writer /\ Placed(at)
    BY <1>1, <2>1, UpFacts
  <2>3. W = Found(at)
    BY <1>1, <2>2 DEF Placed, Packs
  <2> QED
    BY <1>1, <1>2, <2>3 DEF W, Place
<1>7. writer'[Ctx(at)] \in Live(Ctx(at), MaxLayers + 1)
  BY <1>1, UpFacts DEF W
<1> QED
  BY <1>1, <1>3, <1>5, <1>6, <1>7, RiseKeeps DEF MountUp, request, Running

\* The main router is done, or net/http aborts the response.
LEMMA EndKeeps ==
  ASSUME Structure, (Finish /\ dir' = "done") \/ Abort \/ UNCHANGED vars
  PROVE  Structure'
<1>1. Types /\ IsOut(out)
  BY DEF Structure, Types
<1>2. CASE Finish /\ dir' = "done"
  <2> DEFINE a == IF dir = "panic" THEN DefaultErrorHandler(out, writer[1], 500)
                  ELSE IF err # None THEN DefaultErrorHandler(out, writer[1], err)
                  ELSE out
  <2>1. writer[1] \in Writers /\ (dir = "up" /\ err # None => err \in Nat)
    BY <1>1 DEF Types, Contexts
  <2>2. dir \in {"up", "panic"} /\ at = 0 /\ out' = WriteHeader(a, Wire, 200)
    BY <1>2 DEF Finish
  <2>3. IsOut(a) /\ a.under = out.under
    BY <1>1, <2>1, <2>2, ErrorKeeps
  <2> HIDE DEF a
  <2>4. IsOut(out') /\ out'.under = out.under
    BY <2>2, <2>3, HeaderKeeps
  <2>5. Types'
    BY <1>1, <1>2, <2>2, <2>4 DEF Types, Proper, Finish, request
  <2> QED
    BY <1>2, <2>2, <2>4, <2>5, StillKeeps DEF Finish, request
<1>3. CASE Abort
  <2>1. Types'
    BY <1>1, <1>3 DEF Types, Proper, Abort, request
  <2> QED
    BY <1>3, <2>1, StillKeeps DEF Abort, request
<1>4. CASE UNCHANGED vars
  <2>1. Types'
    BY <1>1, <1>4 DEF Types, Proper, vars, request
  <2> QED
    BY <1>4, <2>1, StillKeeps DEF vars, request
<1> QED
  BY <1>2, <1>3, <1>4

\* The invariant holds at first,
LEMMA StructureInit ==
  ASSUME NoWrapper, Init
  PROVE  Structure
<1>1. chain \in Chains /\ Proper
  <2>1. chain \in Chains
    BY DEF Init
  <2>2. DOMAIN chain = 1 .. Len(chain)
    BY <2>1, LayersAssumption
  <2> QED
    BY <2>1, <2>2, LayersAssumption DEF Proper, NoWrapper
<1>2. Len(chain) \in Nat /\ Len(chain) >= 1 /\ MaxLayers \in Nat
  BY <1>1, DepthNat DEF Proper
<1>3. /\ \A w \in Writers : out.under[w] = Wire
      /\ \A i \in Layer : ~Entered(i)
  BY DEF Init, Entered
<1>4. IsOut(out)
  BY <1>2, WritersKinds DEF Init, IsOut, Encodings
<1>5. writer \in [Contexts -> Writers]
  BY WritersKinds DEF Init
<1>6. Types
  BY <1>1, <1>2, <1>4, <1>5 DEF Types, Init
<1>7. Control
  BY <1>2, <1>3 DEF Control, Init, Layer
<1>8. Linked
  BY <1>3, WritersKinds DEF Linked, Contexts
<1>9. Ctx(1) = 1 /\ 1 \in Contexts
  BY <1>1, CtxSteps DEF Contexts
<1>10. Held
  BY <1>9 DEF Held, Init, Live, W, Found, Place, Running
<1> QED
  BY <1>6, <1>7, <1>8, <1>10 DEF Structure

\* is kept by every step,
LEMMA StructureStep == Structure /\ [Next]_vars => Structure'
BY Moves, DescendKeeps, StayKeeps, AnswerKeeps, FailKeeps, BackKeeps, CloseMoves,
   RecovererKeeps, MountKeeps, EndKeeps

\* and so it holds always.
LEMMA StructureHolds == NoWrapper => (Spec => []Structure)
<1> SUFFICES ASSUME NoWrapper PROVE Spec => []Structure
  OBVIOUS
<1>1. Init => Structure
  BY StructureInit
<1> QED
  BY <1>1, StructureStep, PTL DEF Spec

\* A layer to which Next returns finds the writer and the path it had when it
\* called Next, whatever Compress, Mount and FromStd did further in, unless a
\* panic has kept Compress or Mount from restoring them.
THEOREM ContextIsRestored == NoWrapper => (Spec => []ContextRestored)
<1> SUFFICES ASSUME NoWrapper PROVE Spec => []ContextRestored
  OBVIOUS
<1>1. Structure => ContextRestored
  BY DEF Structure, Held, Dirty, ContextRestored
<1> QED
  BY <1>1, StructureHolds, PTL

\* The writer of the layer that has control leads to the connection, through
\* every gzipResponseWriter and responseWriter put on top of it.
THEOREM WritersLeadToWire == NoWrapper => (Spec => []WritersReachWire)
<1> SUFFICES ASSUME NoWrapper PROVE Spec => []WritersReachWire
  OBVIOUS
<1>1. Structure => WritersReachWire
  <2> SUFFICES ASSUME Structure, at > 0 PROVE Reaches(out, W)
    BY DEF WritersReachWire
  <2>1. Running
    BY DEF Structure, Types, Control, Running
  <2> QED
    BY <2>1, Reaching
<1> QED
  BY <1>1, StructureHolds, PTL

-----------------------------------------------------------------------------
(* What is sent.                                                           *)

\* p is o after a header with this code, unless one had been sent.
Sent(o, p, c, code) ==
  /\ IsOut(p) /\ p.under = o.under /\ p.header = o.header /\ Agree(p, c)
  /\ p.status = IF o.status = 0 THEN code ELSE o.status
  /\ p.encoding = IF o.status = 0 THEN o.header ELSE o.encoding

\* One header after another.
LEMMA SentTwice ==
  ASSUME NEW o, NEW p, NEW q, NEW c, NEW code \in Nat \ {0}, NEW then,
         Sent(o, p, c, code), Sent(p, q, c, then), IsOut(o)
  PROVE  Sent(o, q, c, code)
BY DEF Sent, IsOut

\* A header was sent before, and nothing follows.
LEMMA SentAlready ==
  ASSUME NEW o, IsOut(o), NEW c, Agree(o, c), o.status # 0
  PROVE  \A code : Sent(o, o, c, code)
BY DEF Sent

\* WriteHeader sends a header, if none was.
LEMMA HeadedSent ==
  ASSUME NEW o, IsOut(o), NEW c \in Contexts, Agree(o, c), NEW code \in Nat \ {0}, NEW p,
         SameHead(p, Headed(o, c, code))
  PROVE  Sent(o, p, c, code)
<1> DEFINE q == Headed(o, c, code)
<1>1. /\ q.under = o.under /\ q.header = o.header /\ Agree(q, c)
      /\ q.status = IF o.status = 0 THEN code ELSE o.status
      /\ q.encoding = IF o.status = 0 THEN o.header ELSE o.encoding
  BY HeadedFacts
<1>2. SameHead(p, q)
  OBVIOUS
<1> HIDE DEF q
<1>3. Agree(p, c)
  BY <1>1, <1>2 DEF SameHead, Agree
<1> QED
  BY <1>1, <1>2, <1>3 DEF SameHead, Sent

\* WriteHeader and Write.
LEMMA WriteSends ==
  ASSUME Types, Linked, NEW c, Open(c), NEW w \in Live(c, MaxLayers + 1),
         NEW o, IsOut(o), o.under = out.under, Agree(o, c)
  PROVE  /\ Status(o, w) = o.status
         /\ \A code \in Nat \ {0} : Sent(o, WriteHeader(o, w, code), c, code)
         /\ \A token : Sent(o, Write(o, w, token), c, 200)
<1>1. /\ c \in Contexts /\ Status(o, w) = o.status
      /\ \A code \in Nat \ {0} : WriteHeader(o, w, code) = Headed(o, c, code)
      /\ \A token : SameHead(Write(o, w, token), Headed(o, c, 200))
  BY Operations
<1>2. ASSUME NEW code \in Nat \ {0} PROVE Sent(o, WriteHeader(o, w, code), c, code)
  <2>1. WriteHeader(o, w, code) = Headed(o, c, code)
    BY <1>1
  <2>2. IsOut(Headed(o, c, code))
    BY <1>1, HeadedFacts
  <2>3. SameHead(Headed(o, c, code), Headed(o, c, code))
    BY <2>2 DEF SameHead
  <2> QED
    BY <1>1, <2>1, <2>3, HeadedSent
<1>3. ASSUME NEW token PROVE Sent(o, Write(o, w, token), c, 200)
  BY <1>1, HeadedSent
<1> QED
  BY <1>1, <1>2, <1>3

\* CloseGzip of a layer that has called Next.
LEMMA CloseSends ==
  ASSUME Types, Linked, NEW i \in Layer, Entered(i), Packs(i), Open(Ctx(i)),
         NEW o, IsOut(o), o.under = out.under, Agree(o, Ctx(i)),
         i \in o.begun => o.status # 0
  PROVE  Sent(o, CloseGzip(o, i), Ctx(i), 200)
<1> DEFINE u == [o EXCEPT !.begun = @ \cup {i}]
           w == o.under[Gzip(i)]
           c == Ctx(i)
           b == IF i \in o.begun THEN o ELSE Write(u, w, GzipHeader)
           p == Write(b, w, <<"deflated", o.buffer[i]>>)
<1>1. IsOut(u) /\ u.under = out.under /\ u.header = o.header
      /\ u.recorded = o.recorded /\ u.status = o.status /\ u.encoding = o.encoding
  BY DEF IsOut
<1>2. Agree(u, c) /\ Agree(o, c)
  BY <1>1 DEF Agree
<1>3. w \in Live(c, MaxLayers + 1)
  <2>1. w = Found(i) /\ Found(i) \in Live(c, i)
    BY DEF Linked, Placed
  <2>2. c \in Contexts
    BY DEF Open, Contexts
  <2>3. i \in Nat /\ i <= MaxLayers + 1
    BY DepthNat DEF Layer
  <2> HIDE DEF w, c
  <2> QED
    BY <2>1, <2>2, <2>3, LiveWriters
<1>4. CloseGzip(o, i) = p
  BY DEF CloseGzip
<1>5. Open(c)
  OBVIOUS
<1> HIDE DEF u, w, c
<1>6. Sent(o, b, c, 200)
  <2>1. CASE i \in o.begun
    BY <1>2, <2>1, SentAlready
  <2>2. CASE i \notin o.begun
    <3>1. Sent(u, Write(u, w, GzipHeader), c, 200)
      BY <1>1, <1>2, <1>3, <1>5, WriteSends
    <3> QED
      BY <1>1, <2>2, <3>1 DEF Sent
  <2> QED
    BY <2>1, <2>2
<1> HIDE DEF b
<1>7. Sent(b, p, c, 200)
  <2>1. IsOut(b) /\ b.under = out.under /\ Agree(b, c)
    BY <1>6 DEF Sent
  <2> QED
    BY <1>3, <1>5, <2>1, WriteSends
<1> HIDE DEF p
<1>8. Sent(o, p, c, 200)
  BY <1>6, <1>7, SentTwice
<1> QED
  BY <1>4, <1>8 DEF c

\* DefaultErrorHandler.
LEMMA ErrorSends ==
  ASSUME Types, Linked, NEW c, Open(c), NEW w \in Live(c, MaxLayers + 1),
         NEW o, IsOut(o), o.under = out.under, Agree(o, c), NEW code \in Nat \ {0}
  PROVE  Sent(o, DefaultErrorHandler(o, w, code), c, code)
<1> DEFINE q == WriteHeader(o, w, code)
           p == Write(q, w, <<"error", code>>)
<1>1. Status(o, w) = o.status /\ Sent(o, q, c, code)
  BY WriteSends
<1>2. DefaultErrorHandler(o, w, code) = IF o.status # 0 THEN o ELSE p
  BY <1>1 DEF DefaultErrorHandler
<1> HIDE DEF q
<1>3. Sent(q, p, c, 200)
  <2>1. IsOut(q) /\ q.under = out.under /\ Agree(q, c)
    BY <1>1 DEF Sent
  <2> QED
    BY <2>1, WriteSends
<1> HIDE DEF p
<1>4. Sent(o, p, c, code)
  BY <1>1, <1>3, SentTwice
<1> QED
  BY <1>2, <1>4, SentAlready

\* The header that net/http sends at the end, if none was sent.
LEMMA WireHeader ==
  ASSUME NEW o, IsOut(o), o.under[Wire] = Wire, NEW code \in Nat \ {0}
  PROVE  LET p == WriteHeader(o, Wire, code)
         IN  /\ IsOut(p) /\ p.body = o.body
             /\ p.status = IF o.status = 0 THEN code ELSE o.status
             /\ p.encoding = IF o.status = 0 THEN o.header ELSE o.encoding
             /\ p.begun = o.begun /\ p.buffer = o.buffer /\ p.header = o.header
             /\ o.status # 0 => p.recorded = o.recorded
<1> DEFINE way == Way(o, Wire)
           informed == {way[i] : i \in {q \in 0 .. MaxDepth :
                          \A j \in 0 .. q - 1 : ~Written(o, way[j])}}
           sent == Wire \in informed /\ o.status = 0
           records == [b \in Contexts |->
                         IF o.recorded[b] = 0 /\ Base(b) \in informed
                         THEN code ELSE o.recorded[b]]
           p == [o EXCEPT !.recorded = records, !.status = IF sent THEN code ELSE @,
                          !.encoding = IF sent THEN o.header ELSE @]
<1>1. WriteHeader(o, Wire, code) = p
  BY DEF WriteHeader
<1>2. \A i \in 0 .. MaxDepth : way[i] = Wire
  BY WireWay
<1> HIDE DEF way
<1>3. Wire \in informed
  <2>1. 0 \in 0 .. MaxDepth /\ \A j \in 0 .. 0 - 1 : ~Written(o, way[j])
    BY DepthNat
  <2> QED
    BY <1>2, <2>1
<1>4. \A b \in Contexts : Base(b) \notin informed
  BY <1>2 DEF Base, Wire
<1>5. records = o.recorded
  BY <1>4 DEF IsOut
<1>6. sent <=> o.status = 0
  BY <1>3
<1> HIDE DEF records, sent
<1>7. /\ p.body = o.body /\ p.recorded = o.recorded
      /\ p.status = IF o.status = 0 THEN code ELSE o.status
      /\ p.encoding = IF o.status = 0 THEN o.header ELSE o.encoding
      /\ p.begun = o.begun /\ p.buffer = o.buffer /\ p.header = o.header
  BY <1>5, <1>6 DEF IsOut
<1>8. IsOut(p)
  BY <1>1, HeaderKeeps
<1> HIDE DEF p
<1> QED
  BY <1>1, <1>7, <1>8

-----------------------------------------------------------------------------
(* The Contexts agree with the connection, and the Loggers with both.      *)

\* The writers of the Contexts in use have recorded the status that was sent.
Agreed == Running => Agree(out, Level)

\* Layers that call Next have sent nothing.
Quiet == dir = "down" /\ chain[at] # "handler" => out.status = 0

\* Before the header is sent nothing is.
Blank ==
  out.status = 0 => /\ out.body = <<>> /\ out.begun = {} /\ chunks = 0
                    /\ out.encoding = "identity" /\ \A i \in Layer : out.buffer[i] = <<>>

\* Content-Encoding is set as soon as a layer compresses.
Marked ==
  out.header = IF \E i \in Layer : Entered(i) /\ Packs(i) THEN "gzip" ELSE "identity"

\* A Logger through which no error passed has logged what was sent, or will be.
Logs ==
  \A i \in Layer : logged[i] # None /\ <<i, "up">> \notin unwound =>
    /\ dir \in {"up", "done"} /\ (dir = "up" => err = None)
    /\ IF out.status = 0 THEN logged[i] = 200 /\ dir = "up" ELSE logged[i] = out.status

Heads == Agreed /\ Quiet /\ Blank /\ Marked /\ Logs

\* The writers that the moves use.
LEMMA LevelWriters ==
  ASSUME Structure, Agreed, Running
  PROVE  /\ Types /\ Linked /\ IsOut(out) /\ Open(Level) /\ Agree(out, Level)
         /\ \A c \in Contexts : writer[c] \in Live(c, MaxLayers + 1)
         /\ Level \in Contexts
         /\ at > 0 /\ chain[at] # "mount" => W \in Live(Level, MaxLayers + 1)
         /\ at > 0 /\ chain[at] = "mount" /\ dir # "down" => Level = 2
         /\ at = 0 => Level = 1
<1>1. Types /\ Linked /\ IsOut(out) /\ \A c \in Contexts : writer[c] \in Live(c, MaxLayers + 1)
  BY DEF Structure, Types, Held
<1> QED
  BY <1>1, LevelOpen DEF Agreed, W

\* What the handler sends.
LEMMA StaySends ==
  ASSUME Structure, Agreed, Stay
  PROVE  \E code \in Nat \ {0} : Sent(out, out', Level, code)
<1>1. dir = "down" /\ chain[at] # "mount" /\ Running
  BY DEF Stay, Running
<1>2. at > 0
  BY <1>1 DEF Structure, Control
<1>3. /\ Types /\ Linked /\ IsOut(out) /\ Open(Level) /\ Agree(out, Level)
      /\ W \in Live(Level, MaxLayers + 1)
  BY <1>1, <1>2, LevelWriters
<1>4. /\ \A code \in Nat \ {0} : Sent(out, WriteHeader(out, W, code), Level, code)
      /\ \A token : Sent(out, Write(out, W, token), Level, 200)
  BY <1>3, WriteSends
<1>5. ASSUME NEW code \in Codes, out' = WriteHeader(out, W, code)
      PROVE  \E n \in Nat \ {0} : Sent(out, out', Level, n)
  BY <1>4, <1>5, LayersAssumption
<1>6. ASSUME out' = Write(out, W, <<"chunk", chunks + 1>>)
      PROVE  \E n \in Nat \ {0} : Sent(out, out', Level, n)
  <2>1. Sent(out, out', Level, 200) /\ 200 \in Nat \ {0}
    BY <1>4, <1>6
  <2> QED
    BY <2>1
<1> QED
  BY <1>5, <1>6 DEF Stay

\* What a layer sends that answers the request.
LEMMA AnswerSends ==
  ASSUME Structure, Agreed, Answer
  PROVE  (out' = out /\ chain[at] = "handler") \/ Sent(out, out', Level, 204)
<1>1. dir = "down" /\ Running /\ chain[at] # "mount"
  BY DEF Answer, Running
<1>2. at > 0
  BY <1>1 DEF Structure, Control
<1>3. /\ Types /\ Linked /\ IsOut(out) /\ Open(Level) /\ Agree(out, Level)
      /\ W \in Live(Level, MaxLayers + 1)
  BY <1>1, <1>2, LevelWriters
<1>4. \A code \in Nat \ {0} : Sent(out, WriteHeader(out, W, code), Level, code)
  BY <1>3, WriteSends
<1>5. 204 \in Nat \ {0}
  OBVIOUS
<1> QED
  BY <1>4, <1>5 DEF Answer

\* What Compress sends when Next has returned.
LEMMA CloseSendsUp ==
  ASSUME Structure, Agreed, Blank, Close
  PROVE  Sent(out, out', Level, 200)
<1>1. dir = "up" /\ at > 0 /\ Running /\ Packs(at) /\ chain[at] # "mount"
      /\ out' = CloseGzip(out, at)
  BY DEF Close, Running, Packs
<1>2. /\ Types /\ Linked /\ IsOut(out) /\ Open(Level) /\ Agree(out, Level)
  BY <1>1, LevelWriters
<1>3. at \in Layer /\ Entered(at) /\ Level = Ctx(at)
  BY <1>1, UpFacts, LevelOpen
<1>4. at \in out.begun => out.status # 0
  BY DEF Blank
<1> QED
  BY <1>1, <1>2, <1>3, <1>4, CloseSends

\* What a Recoverer sends.
LEMMA RecovererSends ==
  ASSUME Structure, Agreed, RecovererPanic
  PROVE  Sent(out, out', Level, 500)
<1>1. /\ dir = "panic" /\ at > 0 /\ Running /\ chain[at] # "mount"
      /\ out' = IF Status(out, W) = 0 THEN WriteHeader(out, W, 500) ELSE out
  BY DEF RecovererPanic, Running
<1>2. /\ Types /\ Linked /\ IsOut(out) /\ Open(Level) /\ Agree(out, Level)
      /\ W \in Live(Level, MaxLayers + 1)
  BY <1>1, LevelWriters
<1>3. /\ Status(out, W) = out.status
      /\ \A code \in Nat \ {0} : Sent(out, WriteHeader(out, W, code), Level, code)
  BY <1>2, WriteSends
<1>4. 500 \in Nat \ {0}
  OBVIOUS
<1> QED
  BY <1>1, <1>2, <1>3, <1>4, SentAlready

\* The code that the router answers an error or a panic with.
Rendered == IF dir = "panic" THEN 500 ELSE err

\* What the mounted router sends at its end.
LEMMA MountSends ==
  ASSUME Structure, Agreed, MountUp
  PROVE  IF dir = "panic" \/ err # None
         THEN /\ Rendered \in Nat \ {0} /\ Sent(out, out', Level, Rendered)
              /\ out' = DefaultErrorHandler(out, writer[2], Rendered)
         ELSE out' = out
<1>1. /\ dir \in {"up", "panic"} /\ at > 0 /\ Running /\ chain[at] = "mount"
      /\ out' = IF dir = "panic" THEN DefaultErrorHandler(out, writer[2], 500)
                ELSE IF err # None THEN DefaultErrorHandler(out, writer[2], err)
                ELSE out
  BY DEF MountUp, Running
<1>2. /\ Types /\ Linked /\ IsOut(out) /\ Open(2) /\ Agree(out, 2) /\ Level = 2
      /\ writer[2] \in Live(2, MaxLayers + 1)
  BY <1>1, LevelWriters DEF Contexts
<1>3. \A code \in Nat \ {0} : Sent(out, DefaultErrorHandler(out, writer[2], code), 2, code)
  BY <1>2, ErrorSends
<1>4. dir = "panic" \/ err # None => Rendered \in Nat \ {0}
  BY <1>1, <1>2 DEF Types, Rendered
<1> QED
  BY <1>1, <1>2, <1>3, <1>4 DEF Rendered

\* What the main router and net/http send at the end.
LEMMA FinishSends ==
  ASSUME Structure, Agreed, Finish, dir' = "done"
  PROVE  \E a : /\ out' = WriteHeader(a, Wire, 200) /\ IsOut(a)
                /\ a.under[Wire] = Wire /\ at = 0
                /\ IF dir = "panic" \/ err # None
                   THEN /\ Rendered \in Nat \ {0} /\ Sent(out, a, 1, Rendered)
                        /\ a = DefaultErrorHandler(out, writer[1], Rendered)
                   ELSE a = out
<1> DEFINE a == IF dir = "panic" THEN DefaultErrorHandler(out, writer[1], 500)
                ELSE IF err # None THEN DefaultErrorHandler(out, writer[1], err)
                ELSE out
<1>1. dir \in {"up", "panic"} /\ at = 0 /\ Running /\ out' = WriteHeader(a, Wire, 200)
  BY DEF Finish, Running
<1>2. /\ Types /\ Linked /\ IsOut(out) /\ Open(1) /\ Agree(out, 1) /\ Level = 1
      /\ writer[1] \in Live(1, MaxLayers + 1)
  BY <1>1, LevelWriters DEF Contexts
<1>3. \A code \in Nat \ {0} : Sent(out, DefaultErrorHandler(out, writer[1], code), 1, code)
  BY <1>2, ErrorSends
<1>4. dir = "panic" \/ err # None => Rendered \in Nat \ {0}
  BY <1>1, <1>2 DEF Types, Rendered
<1>5. IF dir = "panic" \/ err # None
      THEN /\ Rendered \in Nat \ {0} /\ Sent(out, a, 1, Rendered)
           /\ a = DefaultErrorHandler(out, writer[1], Rendered)
      ELSE a = out
  BY <1>1, <1>3, <1>4 DEF Rendered
<1> HIDE DEF a
<1>6. IsOut(a) /\ a.under = out.under
  BY <1>2, <1>5 DEF Sent
<1>7. a.under[Wire] = Wire
  BY <1>2, <1>6 DEF Linked
<1> QED
  BY <1>1, <1>5, <1>6, <1>7

\* A layer calls Next.
LEMMA HeadsDescend ==
  ASSUME Structure, Heads, Descend
  PROVE  Heads'
<1>1. dir = "down" /\ dir' = "down" /\ at' = at + 1 /\ chain' = chain /\ accepts' = accepts
      /\ logged' = logged /\ unwound' = unwound /\ chunks' = chunks
  BY DEF Descend, request
<1>2. /\ Types /\ Proper /\ IsOut(out) /\ at \in Layer /\ at \in 1 .. Len(chain)
      /\ Ctx(at) \in Contexts /\ Contexts = {1, 2}
      /\ Ctx(at + 1) = IF chain[at] = "mount" THEN 2 ELSE Ctx(at)
  BY <1>1, DownFacts, CtxSteps DEF Structure, Types, Contexts
<1>3. out.status = 0 /\ Agree(out, Ctx(at))
  BY <1>1 DEF Heads, Quiet, Descend, Agreed, Running, Level
<1>4. /\ out'.status = 0 /\ out'.body = out.body /\ out'.begun = out.begun
      /\ out'.encoding = out.encoding
      /\ \A i \in Layer : out'.buffer[i] = out.buffer[i] \/ out'.buffer[i] = <<>>
      /\ out'.header = IF Packs(at) THEN "gzip" ELSE out.header
      /\ out'.recorded = IF chain[at] = "mount" THEN [out.recorded EXCEPT ![2] = 0]
                         ELSE out.recorded
  <2>1. CASE Packs(at)
    <3>1. out' = [out EXCEPT !.header = "gzip", !.under[Gzip(at)] = Found(at),
                             !.buffer[at] = <<>>] /\ chain[at] # "mount"
      BY <2>1 DEF Descend, Packs
    <3> QED
      BY <1>2, <1>3, <2>1, <3>1 DEF IsOut
  <2>2. CASE chain[at] = "mount"
    <3>1. out' = [out EXCEPT !.under[Base(2)] = Found(at), !.recorded[2] = 0]
          /\ ~Packs(at)
      BY <2>2 DEF Descend, Packs
    <3> QED
      BY <1>2, <1>3, <2>2, <3>1 DEF IsOut
  <2>3. CASE ~Packs(at) /\ chain[at] # "mount"
    <3>1. out' = out
      BY <2>3 DEF Descend
    <3> QED
      BY <1>3, <2>3, <3>1
  <2> QED
    BY <2>1, <2>2, <2>3
<1>5. Agreed'
  <2>1. Level' = Ctx(at + 1)
    BY <1>1, SameChain DEF Level
  <2>2. Agree(out', Ctx(at + 1))
    <3>1. out.recorded \in [Contexts -> Nat] /\ out.recorded[1] = 0
      BY <1>2, <1>3 DEF Agree, IsOut
    <3> QED
      BY <1>2, <1>3, <1>4, <3>1, CtxSteps DEF Agree
  <2> QED
    BY <2>1, <2>2 DEF Agreed, Agree
<1>6. Quiet' /\ Blank'
  BY <1>1, <1>3, <1>4 DEF Heads, Quiet, Blank
<1>7. Marked'
  <2>1. /\ \A i \in Layer : Entered(i) <=> i < at
        /\ \A i \in Layer : Entered(i)' <=> i < at'
    BY <1>1, DescendKeeps DEF Structure, Control
  <2>2. \A i \in Layer : Entered(i)' <=> Entered(i) \/ i = at
    BY <1>1, <1>2, <2>1 DEF Layer
  <2>3. (\E i \in Layer : Entered(i)' /\ Packs(i)')
          <=> Packs(at) \/ \E i \in Layer : Entered(i) /\ Packs(i)
    BY <1>1, <1>2, <2>2, SameChain
  <2> QED
    BY <1>4, <2>3 DEF Heads, Marked
<1>8. Logs'
  BY <1>1 DEF Heads, Logs
<1> QED
  BY <1>5, <1>6, <1>7, <1>8 DEF Heads

\* The handler writes.
LEMMA HeadsStay ==
  ASSUME Structure, Heads, Stay
  PROVE  Heads'
<1>1. PICK code \in Nat \ {0} : Sent(out, out', Level, code)
  BY StaySends DEF Heads
<1>2. out'.status # 0 /\ out'.header = out.header /\ Agree(out', Level)
  BY <1>1 DEF Sent
<1>3. Level' = Level
  BY SameChain DEF Level, Stay, request
<1>4. Agreed'
  BY <1>2, <1>3 DEF Agreed, Agree
<1>5. Quiet' /\ Blank'
  BY <1>2 DEF Quiet, Blank, Stay, request
<1>6. Marked'
  BY <1>2, SameChain, SameSaved DEF Heads, Marked, Stay, request
<1>7. Logs'
  BY DEF Heads, Logs, Stay
<1> QED
  BY <1>4, <1>5, <1>6, <1>7 DEF Heads

\* A step that leaves a layer.
LEMMA HeadsRise ==
  ASSUME Structure, Heads, Running, at > 0, at' = at - 1, dir' \in {"up", "panic"},
         UNCHANGED <<chain, accepts, saved, chunks>>,
         out' = out \/ \E code \in Nat \ {0} : Sent(out, out', Level, code),
         Logs'
  PROVE  Heads'
<1>1. IsOut(out) /\ Agree(out, Level) /\ Level \in Contexts /\ Ctx(at) <= Level
      /\ at \in Nat /\ Ctx(at) \in Contexts
  BY LevelOpen, LevelWriters DEF Heads, Structure, Types, Proper
<1>2. Level' = Ctx(at)
  <2>1. at' + 1 = at
    BY <1>1
  <2> QED
    BY <2>1 DEF Level, Ctx
<1>3. out' = out \/ (out'.status # 0 /\ out'.header = out.header /\ Agree(out', Level))
  BY DEF Sent
<1>4. Agree(out', Level) /\ Contexts = {1, 2}
  BY <1>1, <1>3 DEF Contexts
<1>5. Agreed'
  BY <1>1, <1>2, <1>4 DEF Agreed, Agree
<1>6. Quiet' /\ Blank'
  BY <1>3 DEF Heads, Quiet, Blank
<1>7. Marked'
  BY <1>3, SameChain, SameSaved DEF Heads, Marked
<1> QED
  BY <1>5, <1>6, <1>7 DEF Heads

\* A layer returns, or fails, without having called Next.
LEMMA HeadsAnswer ==
  ASSUME Structure, Heads, Answer \/ Fail
  PROVE  Heads'
<1>1. dir = "down" /\ Running /\ at' = at - 1 /\ dir' \in {"up", "panic"}
      /\ logged' = logged /\ unwound' = unwound
  BY DEF Answer, Fail, Running
<1>2. at > 0
  BY <1>1 DEF Structure, Control
<1>3. out' = out \/ \E code \in Nat \ {0} : Sent(out, out', Level, code)
  <2>1. 204 \in Nat \ {0}
    OBVIOUS
  <2> QED
    BY <2>1, AnswerSends DEF Heads, Fail
<1>4. Logs'
  BY <1>1 DEF Heads, Logs
<1> QED
  BY <1>1, <1>2, <1>3, <1>4, HeadsRise DEF Answer, Fail, request

\* Control leaves a layer that does not compress, and a Logger logs.
LEMMA HeadsBack ==
  ASSUME Structure, Heads, Back
  PROVE  Heads'
<1>1. dir \in {"up", "panic"} /\ Running /\ at > 0 /\ at' = at - 1 /\ dir' = dir
      /\ err' = err /\ out' = out /\ unwound \subseteq unwound'
  BY DEF Back, Leave, Running
<1>2. at \in Layer /\ Types
  BY <1>1, UpFacts DEF Structure
<1>3. Logs'
  <2> SUFFICES ASSUME NEW i \in Layer, logged'[i] # None, <<i, "up">> \notin unwound'
               PROVE  /\ dir' \in {"up", "done"} /\ (dir' = "up" => err' = None)
                      /\ IF out'.status = 0 THEN logged'[i] = 200 /\ dir' = "up"
                         ELSE logged'[i] = out'.status
    BY DEF Logs
  <2>1. CASE logged'[i] = logged[i]
    BY <1>1, <2>1 DEF Heads, Logs
  <2>2. CASE logged'[i] # logged[i]
    <3>1. i = at /\ dir = "up" /\ chain[at] = "logger" /\ logged'[i] = LogStatus
      BY <1>2, <2>2 DEF Back, Types
    <3>2. err = None
      BY <1>1, <3>1 DEF Back, Leave
    <3>3. LogStatus = IF out.status = 0 THEN 200 ELSE out.status
      <4>1. Status(out, W) = out.recorded[Ctx(at)]
        BY <1>1, Reaching
      <4>2. Agree(out, Level) /\ Ctx(at) = Level /\ Level \in Contexts /\ Contexts = {1, 2}
        BY <1>1, <3>1, LevelOpen DEF Heads, Agreed, Contexts
      <4> QED
        BY <4>1, <4>2 DEF Agree, LogStatus
    <3> QED
      BY <1>1, <3>1, <3>2, <3>3
  <2> QED
    BY <2>1, <2>2
<1> QED
  BY <1>1, <1>3, HeadsRise DEF Back, Leave, request

\* Control leaves a layer that compresses.
LEMMA HeadsClose ==
  ASSUME Structure, Heads, Close
  PROVE  Heads'
<1>1. dir = "up" /\ Running /\ at > 0 /\ at' = at - 1 /\ dir' = dir
      /\ err' = err /\ unwound \subseteq unwound' /\ logged' = logged
  BY DEF Close, Leave, Running
<1>2. Sent(out, out', Level, 200) /\ 200 \in Nat \ {0}
  BY CloseSendsUp DEF Heads
<1>3. out'.status = IF out.status = 0 THEN 200 ELSE out.status
  BY <1>2 DEF Sent
<1>4. Logs'
  BY <1>1, <1>3 DEF Heads, Logs
<1> QED
  BY <1>1, <1>2, <1>4, HeadsRise DEF Close, Leave, request

\* A Recoverer stops a panic.
LEMMA HeadsRecoverer ==
  ASSUME Structure, Heads, RecovererPanic
  PROVE  Heads'
<1>1. dir = "panic" /\ Running /\ at > 0 /\ at' = at - 1 /\ dir' = "up"
      /\ unwound = unwound' /\ logged' = logged
  BY DEF RecovererPanic, Running
<1>2. Sent(out, out', Level, 500) /\ 500 \in Nat \ {0}
  BY RecovererSends DEF Heads
<1>3. Logs'
  BY <1>1 DEF Heads, Logs
<1> QED
  BY <1>1, <1>2, <1>3, HeadsRise DEF RecovererPanic, request

\* The mounted router is done.
LEMMA HeadsMount ==
  ASSUME Structure, Heads, MountUp
  PROVE  Heads'
<1>1. dir \in {"up", "panic"} /\ Running /\ at > 0 /\ at' = at - 1 /\ dir' = "up"
      /\ unwound = unwound' /\ logged' = logged /\ err' = None
  BY DEF MountUp, Running
<1>2. IF dir = "panic" \/ err # None
      THEN Rendered \in Nat \ {0} /\ Sent(out, out', Level, Rendered)
      ELSE out' = out
  BY MountSends DEF Heads
<1>3. Logs'
  BY <1>1, <1>2 DEF Heads, Logs
<1> QED
  BY <1>1, <1>2, <1>3, HeadsRise DEF MountUp, request

\* The main router is done, or net/http aborts the response.
LEMMA HeadsEnd ==
  ASSUME Structure, Heads, (Finish /\ dir' = "done") \/ Abort \/ UNCHANGED vars
  PROVE  Heads'
<1>1. CASE Finish /\ dir' = "done"
  <2>1. PICK a : /\ out' = WriteHeader(a, Wire, 200) /\ IsOut(a)
                 /\ a.under[Wire] = Wire /\ at = 0
                 /\ IF dir = "panic" \/ err # None
                    THEN Rendered \in Nat \ {0} /\ Sent(out, a, 1, Rendered)
                    ELSE a = out
    BY <1>1, FinishSends DEF Heads
  <2>2. /\ out'.status = IF a.status = 0 THEN 200 ELSE a.status
        /\ out'.header = a.header
    BY <2>1, WireHeader
  <2>3. a.header = out.header /\ (out.status # 0 => a.status = out.status)
    BY <2>1 DEF Sent
  <2>4. out'.status # 0
    BY <2>2
  <2>5. Logs'
    <3> SUFFICES ASSUME NEW i \in Layer, logged'[i] # None, <<i, "up">> \notin unwound'
                 PROVE  logged'[i] = out'.status
      BY <1>1, <2>4 DEF Logs
    <3>1. logged'[i] = logged[i] /\ unwound' = unwound /\ dir \in {"up", "panic"}
      BY <1>1 DEF Finish
    <3>2. /\ dir \in {"up", "done"} /\ (dir = "up" => err = None)
          /\ logged[i] = IF out.status = 0 THEN 200 ELSE out.status
      BY <3>1 DEF Heads, Logs
    <3>3. a = out
      BY <2>1, <3>1, <3>2
    <3> QED
      BY <2>2, <3>1, <3>2, <3>3
  <2>6. Marked'
    BY <1>1, <2>2, <2>3, SameChain, SameSaved DEF Heads, Marked, Finish, request
  <2> QED
    BY <1>1, <2>4, <2>5, <2>6 DEF Heads, Agreed, Running, Quiet, Blank
<1>2. CASE Abort
  <2>1. Marked'
    BY <1>2, SameChain, SameSaved DEF Heads, Marked, Abort, request
  <2> QED
    BY <1>2, <2>1 DEF Heads, Agreed, Running, Quiet, Blank, Logs, Abort
<1>3. CASE UNCHANGED vars
  <2>1. Marked' /\ Level' = Level
    BY <1>3, SameChain, SameSaved DEF Heads, Marked, vars, request, Level
  <2> QED
    BY <1>3, <2>1 DEF Heads, Agreed, Running, Quiet, Blank, Logs, vars, request, Agree
<1> QED
  BY <1>1, <1>2, <1>3

\* The invariant holds at first,
LEMMA HeadsInit ==
  ASSUME NoWrapper, Init
  PROVE  Heads
<1>1. Ctx(1) = 1 /\ \A i \in Layer : ~Entered(i)
  BY StructureInit, CtxSteps DEF Structure, Types, Init, Entered
<1> QED
  BY <1>1 DEF Init, Heads, Agreed, Agree, Level, Contexts, Quiet, Blank, Marked, Logs

\* is kept by every step,
LEMMA HeadsStep == Structure /\ Heads /\ [Next]_vars => Heads'
BY Moves, HeadsDescend, HeadsStay, HeadsAnswer, HeadsBack, HeadsClose, HeadsRecoverer,
   HeadsMount, HeadsEnd

\* and so it holds always.
LEMMA HeadsHold == NoWrapper => (Spec => [](Structure /\ Heads))
<1> SUFFICES ASSUME NoWrapper PROVE Spec => [](Structure /\ Heads)
  OBVIOUS
<1>1. Init => Structure /\ Heads
  BY StructureInit, HeadsInit
<1>2. Structure /\ Heads /\ [Next]_vars => (Structure /\ Heads)'
  BY StructureStep, HeadsStep
<1> QED
  BY <1>1, <1>2, PTL DEF Spec

\* What a Logger wrote is the status the client got, whichever layers, mounts
\* and writers lie below it, unless an error passed through the Logger.
THEOREM LogIsTruthful == NoWrapper => (Spec => []LogTruthful)
<1> SUFFICES ASSUME NoWrapper PROVE Spec => []LogTruthful
  OBVIOUS
<1>1. Structure /\ Heads => LogTruthful
  <2> SUFFICES ASSUME Structure, Heads PROVE LogTruthful
    OBVIOUS
  <2>1. DOMAIN chain \subseteq Layer
    BY DepthNat DEF Structure, Types, Proper, Layer
  <2> QED
    BY <2>1 DEF Heads, Logs, LogTruthful
<1> QED
  BY <1>1, HeadsHold, PTL

-----------------------------------------------------------------------------
(* The body.  At most one layer compresses.                                *)

Single == \A i, j \in Layer : i <= Len(chain) /\ j <= Len(chain)
                               /\ Packs(i) /\ Packs(j) => i = j

\* The hypothesis of the properties in these words.
LEMMA LoneSingle ==
  ASSUME Types, Cardinality(Compressing) <= 1
  PROVE  Single
<1>1. DOMAIN chain = 1 .. Len(chain) /\ Len(chain) \in Nat
  BY DEF Types, Proper
<1>2. IsFiniteSet(Compressing)
  <2>1. IsFiniteSet(1 .. Len(chain))
    BY <1>1, FS_Interval
  <2>2. Compressing \subseteq 1 .. Len(chain)
    BY <1>1 DEF Compressing
  <2> QED
    BY <2>1, <2>2, FS_Subset
<1>3. ASSUME NEW i \in Compressing, NEW j \in Compressing, i # j PROVE FALSE
  <2>1. IsFiniteSet({i}) /\ Cardinality({i}) = 1
    BY FS_Singleton
  <2>2. Cardinality({i} \cup {j}) = 1 + 1 /\ IsFiniteSet({i} \cup {j})
    BY <1>3, <2>1, FS_AddElement
  <2>3. {i} \cup {j} \subseteq Compressing
    OBVIOUS
  <2>4. Cardinality({i} \cup {j}) <= Cardinality(Compressing)
    BY <1>2, <2>3, FS_Subset
  <2>5. Cardinality(Compressing) \in Nat
    BY <1>2, FS_CardinalityType
  <2> QED
    BY <2>2, <2>4, <2>5
<1> QED
  BY <1>1, <1>3 DEF Single, Compressing, Packs, Layer

\* A layer that has called Next and compresses.
IsPacker(g) == g \in Layer /\ Entered(g) /\ Packs(g)

\* The writer w of Context c leads to the connection without compression.
Plain(w, c) == w = Base(c) /\ (c = 2 => out.under[Base(2)] = Base(1))

\* The writer w of Context c leads to the gzip.Writer of layer g.
Over(w, c, g) ==
  \/ w = Gzip(g) /\ Ctx(g) = c /\ Plain(out.under[Gzip(g)], c)
  \/ w = Base(2) /\ c = 2 /\ Ctx(g) = 1 /\ out.under[w] = Gzip(g)
     /\ Plain(out.under[Gzip(g)], 1)

\* Only what the mount found is below the mounted router's writer.
LEMMA PlainWriters ==
  ASSUME Types, Control, Linked, NEW c, Open(c), NEW n \in 0 .. MaxLayers + 1,
         \A i \in 1 .. n - 1 : ~IsPacker(i), c = 2 => \E m \in 1 .. n - 1 : chain[m] = "mount",
         NEW w \in Live(c, n)
  PROVE  Plain(w, c)
<1>1. \A k, d : k \in 0 .. n => Live(d, k) = {Base(d)}
  <2> SUFFICES ASSUME NEW k \in 0 .. n, NEW d PROVE Live(d, k) = {Base(d)}
    OBVIOUS
  <2>1. \A j \in 1 .. k - 1 : ~(Entered(j) /\ Packs(j))
    <3>1. \A j \in 1 .. k - 1 : j \in 1 .. n - 1 /\ j \in Layer
      BY DepthNat DEF Layer
    <3> QED
      BY <3>1 DEF IsPacker
  <2> QED
    BY <2>1 DEF Live
<1>2. w = Base(c)
  BY <1>1, DepthNat
<1>3. ASSUME c = 2 PROVE out.under[Base(2)] = Base(1)
  <2>1. PICK m \in 1 .. Len(chain) : chain[m] = "mount" /\ Entered(m)
    BY <1>3 DEF Open
  <2>2. PICK k \in 1 .. n - 1 : chain[k] = "mount"
    BY <1>3
  <2>3. m \in Layer /\ Len(chain) \in Nat /\ Len(chain) <= MaxLayers
    BY DepthNat DEF Types, Proper, Layer
  <2>4. CASE k \in 1 .. Len(chain)
    <3>1. k = m
      BY <2>1, <2>2, <2>4 DEF Types, Proper
    <3>2. m \in 0 .. n /\ Ctx(m) = 1
      BY <2>1, <2>2, <3>1, DepthNat, CtxSteps DEF Types
    <3>3. out.under[Base(2)] = Found(m) /\ Found(m) \in Live(1, m)
      BY <2>1, <2>3, <3>2 DEF Linked, Placed
    <3> QED
      BY <1>1, <3>2, <3>3
  <2>5. CASE k > Len(chain)
    <3>1. m \in 0 .. n /\ Ctx(m) = 1
      BY <2>1, <2>2, <2>3, <2>5, DepthNat, CtxSteps DEF Types
    <3>2. out.under[Base(2)] = Found(m) /\ Found(m) \in Live(1, m)
      BY <2>1, <2>3, <3>1 DEF Linked, Placed
    <3> QED
      BY <1>1, <3>1, <3>2
  <2> QED
    BY <2>2, <2>3, <2>4, <2>5, DepthNat
<1> QED
  BY <1>2, <1>3 DEF Plain

\* Nothing is compressed, or not yet.
LEMMA NonePlain ==
  ASSUME Structure, NEW c, Open(c), NEW w \in Live(c, MaxLayers + 1),
         \A i : ~IsPacker(i)
  PROVE  Plain(w, c)
<1>1. Types /\ Control /\ Linked
  BY DEF Structure
<1>2. MaxLayers + 1 \in 0 .. MaxLayers + 1
  BY DepthNat
<1>3. c = 2 => \E m \in 1 .. (MaxLayers + 1) - 1 : chain[m] = "mount"
  BY <1>1, DepthNat DEF Open, Types, Proper
<1> QED
  BY <1>1, <1>2, <1>3, PlainWriters

\* What the only layer that compresses found is not compressed.
LEMMA FoundPlain ==
  ASSUME Structure, Single, NEW g, IsPacker(g), Open(Ctx(g))
  PROVE  Plain(Found(g), Ctx(g)) /\ out.under[Gzip(g)] = Found(g)
<1>1. /\ Types /\ Control /\ Linked /\ g \in Layer /\ Placed(g) /\ g < Len(chain)
      /\ Len(chain) \in Nat /\ Len(chain) <= MaxLayers
  BY DepthNat DEF Structure, IsPacker, Control, Linked, Types, Proper
<1>2. g \in 0 .. MaxLayers + 1 /\ g \in 1 .. Len(chain)
  BY <1>1, DepthNat DEF Layer
<1>3. \A i \in 1 .. g - 1 : ~IsPacker(i)
  BY <1>1, <1>2 DEF Single, IsPacker, Layer
<1>4. Ctx(g) = 2 => \E m \in 1 .. g - 1 : chain[m] = "mount"
  BY <1>1, <1>2, CtxSteps DEF Types
<1>5. Found(g) \in Live(Ctx(g), g) /\ out.under[Gzip(g)] = Found(g)
  BY <1>1 DEF Placed, IsPacker
<1> QED
  BY <1>1, <1>2, <1>3, <1>4, <1>5, PlainWriters

\* The layers behind it find its writer, or a mounted router's on top of it.
LEMMA FoundAfter ==
  ASSUME Structure, Single, NEW g, IsPacker(g)
  PROVE  \A i \in 1 .. Len(chain) : g < i /\ (\A j \in 1 .. i - 1 : Entered(j)) =>
           IF Ctx(g) = Ctx(i) THEN Found(i) = Gzip(g)
           ELSE Found(i) = Base(2) /\ Ctx(i) = 2 /\ Ctx(g) = 1
<1> DEFINE P(i) == i \in 1 .. Len(chain) /\ (\A j \in 1 .. i - 1 : Entered(j)) =>
                     IF Ctx(g) = Ctx(i) THEN Found(i) = Gzip(g)
                     ELSE Found(i) = Base(2) /\ Ctx(i) = 2 /\ Ctx(g) = 1
           S == {k \in Nat : P((g + 1) + k)}
<1>1. /\ Types /\ Proper /\ Linked /\ g \in Layer /\ Placed(g) /\ g < Len(chain)
      /\ Len(chain) \in Nat /\ Len(chain) <= MaxLayers /\ g \in 1 .. Len(chain)
      /\ MaxLayers \in Nat
  BY DepthNat DEF Structure, IsPacker, Control, Linked, Types, Proper, Layer
<1>2. 0 \in S
  <2>1. (g + 1) + 0 = g + 1 /\ (g + 1) - 1 = g /\ g + 1 # 1
    BY <1>1
  <2>2. chain[g] # "mount" /\ Ctx(g + 1) = Ctx(g)
    BY <1>1, CtxSteps DEF IsPacker, Packs
  <2>3. Found(g + 1) = saved[g].writer /\ saved[g].writer = Gzip(g)
    BY <1>1, <2>1, <2>2 DEF Found, Placed, IsPacker
  <2> QED
    BY <2>1, <2>2, <2>3
<1>3. ASSUME NEW k \in Nat, k \in S PROVE k + 1 \in S
  <2> DEFINE i == (g + 1) + k
  <2>1. (g + 1) + (k + 1) = i + 1 /\ i \in Nat /\ i > g /\ (i + 1) - 1 = i /\ i + 1 # 1
    BY <1>1 DEF Layer
  <2>2. P(i)
    BY <1>3
  <2> HIDE DEF i
  <2> SUFFICES ASSUME i + 1 \in 1 .. Len(chain), \A j \in 1 .. i : Entered(j)
               PROVE  IF Ctx(g) = Ctx(i + 1) THEN Found(i + 1) = Gzip(g)
                      ELSE Found(i + 1) = Base(2) /\ Ctx(i + 1) = 2 /\ Ctx(g) = 1
    BY <2>1
  <2>3. i \in 1 .. Len(chain) /\ i \in Layer /\ Entered(i)
    BY <1>1, <2>1 DEF Layer
  <2>4. IF Ctx(g) = Ctx(i) THEN Found(i) = Gzip(g)
        ELSE Found(i) = Base(2) /\ Ctx(i) = 2 /\ Ctx(g) = 1
    BY <1>1, <2>1, <2>2, <2>3
  <2>5. CASE chain[i] = "mount"
    <3>1. Ctx(i + 1) = 2 /\ Ctx(i) = 1 /\ Ctx(g) # 2 /\ Ctx(g) \in Contexts
      BY <1>1, <2>1, <2>3, <2>5, CtxSteps
    <3>2. Found(i + 1) = Base(2)
      BY <2>1, <2>5 DEF Found
    <3> QED
      BY <3>1, <3>2 DEF Contexts
  <2>6. CASE chain[i] # "mount"
    <3>1. Ctx(i + 1) = Ctx(i) /\ Found(i + 1) = saved[i].writer
      BY <1>1, <2>1, <2>3, <2>6, CtxSteps DEF Found
    <3>2. ~Packs(i)
      BY <1>1, <2>1, <2>3 DEF Single, IsPacker
    <3>3. saved[i].writer = Found(i)
      <4>1. Placed(i)
        BY <1>1, <2>3 DEF Linked
      <4> QED
        BY <3>2, <4>1 DEF Placed
    <3> QED
      BY <2>4, <3>1, <3>3
  <2> QED
    BY <2>5, <2>6
<1> HIDE DEF S, P
<1>4. Nat \subseteq S
  BY <1>2, <1>3, NaturalInduction
<1> SUFFICES ASSUME NEW i \in 1 .. Len(chain), g < i, \A j \in 1 .. i - 1 : Entered(j)
             PROVE  P(i)
  BY DEF P
<1>5. i - (g + 1) \in S /\ (g + 1) + (i - (g + 1)) = i
  BY <1>1, <1>4
<1> QED
  BY <1>5 DEF S

\* The writer that a layer behind it found leads to it.
LEMMA FoundOver ==
  ASSUME Structure, Single, NEW g, IsPacker(g), Open(Ctx(g)),
         NEW i \in 1 .. Len(chain), g < i, \A j \in 1 .. i - 1 : Entered(j)
  PROVE  Over(Found(i), Ctx(i), g)
<1>1. IF Ctx(g) = Ctx(i) THEN Found(i) = Gzip(g)
      ELSE Found(i) = Base(2) /\ Ctx(i) = 2 /\ Ctx(g) = 1
  BY FoundAfter
<1>2. Plain(Found(g), Ctx(g)) /\ out.under[Gzip(g)] = Found(g)
  BY FoundPlain
<1>3. CASE Ctx(g) = Ctx(i)
  BY <1>1, <1>2, <1>3 DEF Over
<1>4. CASE Ctx(g) # Ctx(i)
  <2>1. Found(i) = Base(2) /\ Ctx(i) = 2 /\ Ctx(g) = 1
    BY <1>1, <1>4
  <2>2. Types /\ Proper /\ Linked /\ Len(chain) \in Nat /\ Len(chain) <= MaxLayers
        /\ MaxLayers \in Nat
    BY DepthNat DEF Structure, Types, Proper
  <2>3. PICK m \in 1 .. i - 1 : chain[m] = "mount"
    BY <2>1, <2>2, CtxSteps
  <2>4. m \in 1 .. Len(chain) /\ m \in Layer /\ Entered(m) /\ g \in 1 .. Len(chain)
    BY <2>2 DEF Layer, IsPacker, Structure, Control
  <2>5. Ctx(m) = 1 /\ ~(g > m) /\ g # m
    BY <2>1, <2>2, <2>3, <2>4, CtxSteps DEF IsPacker, Packs
  <2>6. g < m /\ \A j \in 1 .. m - 1 : Entered(j)
    BY <2>2, <2>4, <2>5
  <2>7. Found(m) = Gzip(g)
    BY <2>1, <2>4, <2>5, <2>6, FoundAfter
  <2>8. out.under[Base(2)] = Found(m)
    BY <2>2, <2>3, <2>4 DEF Linked, Placed
  <2> QED
    BY <1>2, <2>1, <2>7, <2>8 DEF Over
<1> QED
  BY <1>3, <1>4

\* A write that is not compressed comes to the connection.
LEMMA PlainWrite ==
  ASSUME Types, Linked, NEW c, Open(c), NEW w, Plain(w, c),
         NEW o, IsOut(o), o.under = out.under, Agree(o, c), NEW token
  PROVE  Write(o, w, token) = Deliver(Headed(o, c, 200), token)
<1>1. c \in Contexts /\ w = Base(c) /\ 1 \in Contexts /\ 200 \in Nat \ {0}
  BY DEF Open, Contexts, Plain
<1>2. ASSUME NEW q, IsOut(q), q.under = out.under, Agree(q, 1)
      PROVE  Write(q, Base(1), token) = Deliver(Headed(q, 1, 200), token)
  <2>1. Leads(q, Base(1), 1, 0, 0) /\ q.under[Base(1)] = Wire
    BY <1>2, BaseLeads DEF Linked
  <2> DEFINE p == Headed(q, 1, 200)
  <2>2. IsOut(p)
    BY <1>1, <1>2, HeadedFacts
  <2>3. p.status = IF q.status = 0 THEN 200 ELSE q.status
    BY <1>1, <1>2, HeadedFacts
  <2>4. Write(q, Base(1), token) = Write(p, Wire, token)
    BY <1>1, <1>2, <2>1, WriteBase
  <2> HIDE DEF p
  <2>5. p.status # 0
    BY <2>3
  <2> QED
    BY <2>2, <2>4, <2>5, WriteWire DEF p
<1>3. CASE c = 1
  BY <1>1, <1>2, <1>3
<1>4. CASE c = 2
  <2> DEFINE q == Headed(o, 2, 200)
  <2>0. 2 \in Contexts /\ Agree(o, 2) /\ Open(2)
    BY <1>4 DEF Contexts
  <2>1. IsOut(q) /\ q.under = o.under /\ Agree(q, 2)
    BY <1>1, <2>0, HeadedFacts
  <2>2. q.status = IF o.status = 0 THEN 200 ELSE o.status
    BY <1>1, <2>0, HeadedFacts
  <2>3. Base(2) \in Live(2, MaxLayers + 1)
    BY DEF Live
  <2>4. PICK h, k : Leads(o, Base(2), 2, h, k)
    BY <2>0, <2>3, LiveLeads
  <2>5. Write(o, Base(2), token) = Write(q, o.under[Base(2)], token)
    BY <2>0, <2>4, WriteBase
  <2> HIDE DEF q
  <2>6. Write(o, Base(2), token) = Write(q, Base(1), token)
    BY <1>4, <2>5 DEF Plain
  <2>7. Agree(q, 1) /\ q.status # 0
    BY <2>1, <2>2 DEF Agree
  <2>8. Headed(q, 1, 200) = q
    BY <2>7 DEF Headed
  <2>9. Write(q, Base(1), token) = Deliver(q, token)
    BY <1>2, <2>1, <2>7, <2>8
  <2> QED
    BY <1>1, <1>4, <2>6, <2>9 DEF q
<1> QED
  BY <1>3, <1>4 DEF Open

\* What a write through the gzip.Writer of layer g leaves of o, which has sent
\* its header.
Squeezed(o, g, token) ==
  IF g \in o.begun THEN Packed(o, g, token)
  ELSE Deliver(Packed(o, g, token), GzipHeader)

\* A write that is compressed comes to the gzip.Writer.
LEMMA OverWrite ==
  ASSUME Structure, NEW c, Open(c), NEW g, IsPacker(g), NEW w, Over(w, c, g),
         NEW o, IsOut(o), o.under = out.under, Agree(o, c), NEW token
  PROVE  Write(o, w, token) = Squeezed(Headed(o, c, 200), g, token)
<1>1. /\ c \in Contexts /\ 1 \in Contexts /\ 200 \in Nat \ {0} /\ g \in Layer
      /\ Types /\ Linked /\ Open(1) /\ Contexts = {1, 2}
  BY DEF Open, Contexts, IsPacker, Structure
<1>2. Gzip(g) \in Live(Ctx(g), MaxLayers + 1)
  BY DepthNat DEF IsPacker, Live, Layer
<1>3. ASSUME NEW d, Open(d), d \in Contexts, Gzip(g) \in Live(d, MaxLayers + 1),
             Plain(out.under[Gzip(g)], d),
             NEW q, IsOut(q), q.under = out.under, Agree(q, d)
      PROVE  Write(q, Gzip(g), token) = Squeezed(Headed(q, d, 200), g, token)
  <2> DEFINE r == Headed(q, d, 200)
             p == Packed(r, g, token)
  <2>1. PICK h, k : Leads(q, Gzip(g), d, h, k)
    BY <1>1, <1>3, LiveLeads
  <2>2. Write(q, Gzip(g), token) =
          IF g \in q.begun THEN p ELSE Write(p, q.under[Gzip(g)], GzipHeader)
    BY <1>1, <1>3, <2>1, WriteGzip
  <2>3. r.begun = q.begun
    BY <1>3, HeadedBody
  <2>4. SameHead(p, r) /\ Agree(p, d) /\ p.under = q.under /\ Headed(p, d, 200) = p
    BY <1>1, <1>3, PackedHead
  <2> HIDE DEF p
  <2>5. IsOut(p)
    BY <2>4 DEF SameHead
  <2>6. Write(p, q.under[Gzip(g)], GzipHeader) = Deliver(p, GzipHeader)
    BY <1>1, <1>3, <2>4, <2>5, PlainWrite
  <2> HIDE DEF r
  <2> QED
    BY <2>2, <2>3, <2>6 DEF p, r, Squeezed
<1>4. CASE w = Gzip(g) /\ Ctx(g) = c /\ Plain(out.under[Gzip(g)], c)
  BY <1>1, <1>3, <1>4, <1>2
<1>5. CASE /\ w = Base(2) /\ c = 2 /\ Ctx(g) = 1 /\ out.under[w] = Gzip(g)
           /\ Plain(out.under[Gzip(g)], 1)
  <2> DEFINE q == Headed(o, 2, 200)
  <2>0. 2 \in Contexts /\ Agree(o, 2) /\ Open(2) /\ w \in Live(2, MaxLayers + 1)
    BY <1>5 DEF Contexts, Live
  <2>1. IsOut(q) /\ q.under = o.under /\ Agree(q, 2)
    BY <1>1, <2>0, HeadedAgree
  <2>2. q.status = IF o.status = 0 THEN 200 ELSE o.status
    BY HeadedStatus
  <2>4. PICK h, k : Leads(o, Base(2), 2, h, k)
    BY <1>1, <1>5, <2>0, LiveLeads
  <2>5. Write(o, Base(2), token) = Write(q, o.under[Base(2)], token)
    BY <2>0, <2>4, WriteBase
  <2> HIDE DEF q
  <2>7. Agree(q, 1) /\ q.status # 0
    BY <2>1, <2>2 DEF Agree
  <2>8. Headed(q, 1, 200) = q
    BY <2>7 DEF Headed
  <2>9. Write(q, Gzip(g), token) = Squeezed(q, g, token)
    BY <1>1, <1>3, <1>5, <1>2, <2>1, <2>7, <2>8
  <2> QED
    BY <1>5, <2>5, <2>9 DEF q
<1> QED
  BY <1>4, <1>5 DEF Over

-----------------------------------------------------------------------------
(* The payload P is on its way to the client.                              *)

\* It is sent as it is.
Flat(o, P) ==
  o.encoding = "identity" /\ o.body = IF o.status = 204 THEN <<>> ELSE P

\* It is in the gzip.Writer of layer g.
Packing(o, g, P) ==
  /\ o.status # 0 => o.encoding = "gzip"
  /\ o.buffer[g] = P /\ (g \notin o.begun => P = <<>>)
  /\ o.body = IF o.status # 204 /\ g \in o.begun THEN <<GzipHeader>> ELSE <<>>

\* It was sent when the gzip.Writer was closed.
Closed(o, P) ==
  /\ o.status # 0 /\ o.encoding = "gzip"
  /\ o.body = IF o.status = 204 THEN <<>> ELSE <<GzipHeader, <<"deflated", P>>>>

\* Nothing has been sent.
IsBlank(o) ==
  /\ o.status = 0 /\ o.body = <<>> /\ o.begun = {}
  /\ o.encoding = "identity" /\ \A i \in Layer : o.buffer[i] = <<>>

\* Nothing is the empty payload, in every form.
LEMMA BlankForms ==
  ASSUME NEW o, IsBlank(o)
  PROVE  Flat(o, <<>>) /\ \A g \in Layer : Packing(o, g, <<>>)
BY DEF IsBlank, Flat, Packing

\* The header alone conveys the empty payload.
LEMMA HeadedForms ==
  ASSUME NEW o, IsOut(o), IsBlank(o), NEW c \in Contexts, NEW code \in Nat \ {0}
  PROVE  /\ o.header = "identity" => Flat(Headed(o, c, code), <<>>)
         /\ o.header = "gzip" => \A g \in Layer : Packing(Headed(o, c, code), g, <<>>)
<1> DEFINE p == Headed(o, c, code)
<1>1. p.begun = o.begun /\ p.buffer = o.buffer /\ p.body = o.body
  BY HeadedBody
<1>2. p.status = code /\ p.encoding = o.header
  BY HeadedStatus DEF IsBlank
<1> HIDE DEF p
<1>3. /\ o.header = "identity" => Flat(p, <<>>)
      /\ o.header = "gzip" => \A g \in Layer : Packing(p, g, <<>>)
  BY <1>1, <1>2 DEF IsBlank, Flat, Packing
<1> QED
  BY <1>3 DEF p

\* One more token.
LEMMA FlatWrite ==
  ASSUME NEW o, IsOut(o), NEW c \in Contexts, NEW P, Flat(o, P), o.header = "identity",
         NEW token
  PROVE  Flat(Deliver(Headed(o, c, 200), token), Append(P, token))
<1> DEFINE q == Headed(o, c, 200)
           p == Deliver(q, token)
<1>1. q.body = o.body
  BY HeadedBody
<1>2. /\ q.status = IF o.status = 0 THEN 200 ELSE o.status
      /\ q.encoding = IF o.status = 0 THEN o.header ELSE o.encoding
  BY HeadedStatus
<1>3. IsOut(q)
  BY HeadedFacts
<1> HIDE DEF q
<1>4. /\ p.body = IF q.status = 204 THEN q.body ELSE Append(q.body, token)
      /\ p.status = q.status /\ p.encoding = q.encoding
  BY <1>3, DeliverFacts
<1> HIDE DEF p
<1>5. Flat(p, Append(P, token))
  BY <1>1, <1>2, <1>4 DEF Flat
<1> QED
  BY <1>5 DEF p, q

\* A write that is compressed makes the payload longer.
LEMMA PackingWrite ==
  ASSUME NEW o, IsOut(o), NEW c \in Contexts, NEW P, NEW g \in Layer, Packing(o, g, P),
         o.header = "gzip", NEW token
  PROVE  Packing(Squeezed(Headed(o, c, 200), g, token), g, Append(P, token))
<1> DEFINE q == Headed(o, c, 200)
           r == Packed(q, g, token)
           s == Deliver(r, GzipHeader)
<1>1. q.body = o.body /\ q.begun = o.begun /\ q.buffer = o.buffer
  BY HeadedBody
<1>2. /\ q.status = IF o.status = 0 THEN 200 ELSE o.status
      /\ q.encoding = IF o.status = 0 THEN o.header ELSE o.encoding
  BY HeadedStatus
<1>3. IsOut(q)
  BY HeadedFacts
<1> HIDE DEF q
<1>4. /\ IsOut(r) /\ r.begun = q.begun \cup {g} /\ r.body = q.body
      /\ r.buffer[g] = Append(q.buffer[g], token)
      /\ r.status = q.status /\ r.encoding = q.encoding
  BY <1>3 DEF IsOut, Packed
<1> HIDE DEF r
<1>5. /\ s.body = IF r.status = 204 THEN r.body ELSE Append(r.body, GzipHeader)
      /\ s.status = r.status /\ s.encoding = r.encoding /\ s.begun = r.begun
      /\ s.buffer = r.buffer
  BY <1>4, DeliverFacts
<1> HIDE DEF s
<1>6. q.status # 0 /\ q.encoding = "gzip"
  BY <1>2 DEF Packing
<1>7. CASE g \in o.begun
  <2>1. o.body = IF o.status # 204 THEN <<GzipHeader>> ELSE <<>>
    BY <1>7 DEF Packing
  <2>2. Packing(r, g, Append(P, token))
    BY <1>1, <1>2, <1>4, <1>6, <1>7, <2>1 DEF Packing
  <2> QED
    BY <1>1, <1>7, <2>2 DEF r, q, Squeezed
<1>8. CASE g \notin o.begun
  <2>1. o.body = <<>>
    BY <1>8 DEF Packing
  <2>2. s.body = IF s.status = 204 THEN <<>> ELSE <<GzipHeader>>
    BY <1>1, <1>4, <1>5, <2>1
  <2>3. Packing(s, g, Append(P, token))
    BY <1>1, <1>4, <1>5, <1>6, <2>2 DEF Packing
  <2> QED
    BY <1>1, <1>8, <2>3 DEF s, r, q, Squeezed
<1> QED
  BY <1>7, <1>8

\* The two parts of a compressed body.
LEMMA AppendPair ==
  ASSUME NEW a, NEW d
  PROVE  Append(<<a>>, d) = <<a, d>>
<1>1. Append(<<a>>, d) = [i \in 1 .. 2 |-> IF i = 2 THEN d ELSE a]
  OBVIOUS
<1>2. <<a, d>> = [i \in 1 .. 2 |-> IF i = 2 THEN d ELSE a]
  OBVIOUS
<1> QED
  BY <1>1, <1>2

\* CloseGzip sends the payload.
LEMMA CloseForms ==
  ASSUME Structure, Single, NEW g, IsPacker(g), Open(Ctx(g)),
         NEW o, IsOut(o), o.under = out.under, Agree(o, Ctx(g)), o.header = "gzip",
         NEW P, Packing(o, g, P)
  PROVE  Closed(CloseGzip(o, g), P)
<1> DEFINE c == Ctx(g)
           w == out.under[Gzip(g)]
           t == <<"deflated", P>>
           u == [o EXCEPT !.begun = @ \cup {g}]
           x == Headed(u, c, 200)
           y == Deliver(x, GzipHeader)
           b == IF g \in o.begun THEN o ELSE y
           z == Headed(b, c, 200)
           p == Deliver(z, t)
<1>1. g \in Layer /\ c \in Contexts /\ Types /\ Linked /\ 200 \in Nat \ {0}
  BY DEF IsPacker, Open, Contexts, Structure
<1>2. Plain(w, c)
  BY FoundPlain
<1>3. /\ IsOut(u) /\ u.under = out.under /\ u.header = "gzip" /\ u.recorded = o.recorded
      /\ u.status = o.status /\ u.encoding = o.encoding /\ u.body = o.body
  BY <1>1 DEF IsOut
<1>4. Agree(u, c)
  BY <1>3 DEF Agree
<1>5. /\ o.buffer[g] = P
      /\ CloseGzip(o, g) = Write(IF g \in o.begun THEN o ELSE Write(u, w, GzipHeader), w, t)
  BY DEF CloseGzip, Packing
<1> HIDE DEF u, w
<1>6. Write(u, w, GzipHeader) = y
  BY <1>1, <1>2, <1>3, <1>4, PlainWrite
<1>7. /\ IsOut(x) /\ x.under = u.under /\ Agree(x, c)
  BY <1>1, <1>3, <1>4, HeadedAgree
<1>8. /\ x.body = o.body
      /\ x.status = IF o.status = 0 THEN 200 ELSE o.status
      /\ x.encoding = IF o.status = 0 THEN "gzip" ELSE o.encoding
      /\ x.header = "gzip"
  BY <1>3, HeadedBody, HeadedStatus
<1> HIDE DEF x, c, t
<1>9. /\ IsOut(y) /\ y.under = x.under /\ y.recorded = x.recorded /\ y.status = x.status
      /\ y.body = IF x.status = 204 THEN x.body ELSE Append(x.body, GzipHeader)
      /\ y.encoding = x.encoding /\ y.header = x.header
  BY <1>7, DeliverFacts
<1> HIDE DEF y
<1>10. Agree(y, c)
  BY <1>7, <1>9 DEF Agree
<1>11. IsOut(b) /\ b.under = out.under /\ Agree(b, c) /\ b.header = "gzip"
  BY <1>3, <1>7, <1>8, <1>9, <1>10 DEF c
<1>12. /\ b.status # 0 => b.encoding = "gzip"
       /\ b.body = IF b.status = 204 THEN <<>> ELSE <<GzipHeader>>
  <2>1. CASE g \in o.begun
    BY <2>1 DEF Packing
  <2>2. CASE g \notin o.begun
    <3>1. o.body = <<>>
      BY <2>2 DEF Packing
    <3> QED
      BY <1>8, <1>9, <2>2, <3>1 DEF Packing
  <2> QED
    BY <2>1, <2>2
<1>13. CloseGzip(o, g) = Write(b, w, t)
  BY <1>5, <1>6
<1> HIDE DEF b
<1>14. Write(b, w, t) = p
  BY <1>1, <1>2, <1>11, PlainWrite DEF c
<1>15. /\ z.body = b.body
       /\ z.status = IF b.status = 0 THEN 200 ELSE b.status
       /\ z.encoding = IF b.status = 0 THEN "gzip" ELSE b.encoding
  BY <1>11, HeadedBody, HeadedStatus
<1>16. IsOut(z)
  BY <1>1, <1>11, HeadedAgree DEF c
<1> HIDE DEF z
<1>17. /\ p.status = z.status /\ p.encoding = z.encoding
       /\ p.body = IF z.status = 204 THEN z.body ELSE Append(z.body, t)
  BY <1>16, DeliverFacts
<1> HIDE DEF p
<1>18. Closed(p, P)
  <2>1. z.status # 0 /\ z.encoding = "gzip"
    BY <1>12, <1>15
  <2>2. z.body = IF z.status = 204 THEN <<>> ELSE <<GzipHeader>>
    BY <1>12, <1>15
  <2>3. Append(<<GzipHeader>>, t) = <<GzipHeader, t>>
    BY AppendPair
  <2>4. p.body = IF p.status = 204 THEN <<>> ELSE <<GzipHeader, t>>
    BY <1>17, <2>2, <2>3
  <2> QED
    BY <1>17, <2>1, <2>4 DEF Closed, t
<1> QED
  BY <1>13, <1>14, <1>18

-----------------------------------------------------------------------------
(* Failures.                                                               *)

\* An error or a panic is on its way to the router that answers it.
Pending == (dir = "up" /\ err # None) \/ (dir = "panic" /\ err # ErrAbortHandler)

\* No layer compresses between it and that router.
NoneBetween == \A i \in Compressing : ~(Boundary < i /\ i < failed.at)

\* It began in a layer that no other is below, and its code is still known.
Failing ==
  IF failed = None THEN err = None /\ dir \in {"down", "up", "done"}
  ELSE /\ dir # "down" /\ failed.at \in 1 .. Len(chain) /\ at < failed.at
       /\ \A i \in Layer : Entered(i) => i < failed.at
       /\ failed.dir = "up" => dir \in {"up", "done"}
       /\ failed.dir = "panic" => failed.code = 500
       /\ failed.code # 0 /\ (dir = "up" /\ err # None => err = failed.code)
       /\ Pending => at >= Boundary
       /\ Pending /\ failed.recorded = 0 /\ NoneBetween => out.status = 0

\* Boundary of a failure f in the chain ch.
BoundaryOf(ch, f, r) ==
  LET mount == {i \in 1 .. f.at - 1 : ch[i] = "mount"}
  IN  IF mount = {} \/ (f.dir = "panic" /\ ~r) THEN 0
      ELSE CHOOSE i \in mount : TRUE

\* A boundary is 0 or a mount above the failure.
LEMMA BoundaryFacts ==
  ASSUME NEW ch, Len(ch) \in Nat,
         \A i, j \in 1 .. Len(ch) : ch[i] = "mount" /\ ch[j] = "mount" => i = j,
         NEW f, f.at \in 1 .. Len(ch), NEW r
  PROVE  LET b == BoundaryOf(ch, f, r)
         IN  /\ b \in 0 .. f.at - 1
             /\ b # 0 => b \in 1 .. Len(ch) /\ ch[b] = "mount" /\ ~(f.dir = "panic" /\ ~r)
<1> DEFINE mount == {i \in 1 .. f.at - 1 : ch[i] = "mount"}
<1>1. CASE mount = {} \/ (f.dir = "panic" /\ ~r)
  <2>1. BoundaryOf(ch, f, r) = 0
    BY <1>1 DEF BoundaryOf
  <2> QED
    BY <2>1
<1>2. CASE mount # {} /\ ~(f.dir = "panic" /\ ~r)
  <2>1. BoundaryOf(ch, f, r) = CHOOSE i \in mount : TRUE
    BY <1>2 DEF BoundaryOf
  <2>2. BoundaryOf(ch, f, r) \in mount
    BY <1>2, <2>1
  <2> QED
    BY <1>2, <2>2
<1> QED
  BY <1>1, <1>2

\* Boundary, before and after a step.
LEMMA BoundaryStep ==
  /\ Boundary = BoundaryOf(chain, failed, recovery)
  /\ Boundary' = BoundaryOf(chain', failed', recovery')
BY DEF Boundary, BoundaryOf

\* The boundary of a failure lies above it, and is a mount or the main router.
LEMMA FailingBoundary ==
  ASSUME Structure, Failing, failed # None
  PROVE  /\ Boundary \in 0 .. failed.at - 1
         /\ Boundary # 0 => /\ Boundary \in 1 .. Len(chain) /\ chain[Boundary] = "mount"
                            /\ ~(failed.dir = "panic" /\ ~recovery)
BY BoundaryStep, BoundaryFacts DEF Structure, Types, Proper, Failing

\* No layer that compresses has called Next behind the boundary.
LEMMA PackersAbove ==
  ASSUME Structure, Failing, failed # None, NoneBetween, NEW g, IsPacker(g)
  PROVE  g <= Boundary /\ g \in Nat /\ Boundary \in Nat
<1>1. Boundary \in 0 .. failed.at - 1 /\ failed.at \in 1 .. Len(chain) /\ Len(chain) \in Nat
  BY FailingBoundary DEF Failing, Structure, Types, Proper
<1>2. g \in Layer /\ g < failed.at /\ g \in Nat
  BY DepthNat DEF IsPacker, Failing, Layer
<1>3. g \in DOMAIN chain
  BY <1>1, <1>2 DEF Layer, Structure, Types, Proper
<1>4. g \in Compressing
  BY <1>3 DEF IsPacker, Packs, Compressing
<1> QED
  BY <1>1, <1>2, <1>4 DEF NoneBetween

\* A layer begins to fail.
LEMMA FailingFail ==
  ASSUME Structure, Heads, Failing, Fail
  PROVE  Failing'
<1>1. /\ dir = "down" /\ at' = at - 1 /\ dir' \in {"up", "panic"} /\ out' = out
      /\ chain' = chain /\ saved' = saved /\ recovery' = recovery
  BY DEF Fail, request
<1>2. /\ at \in 1 .. Len(chain) /\ Len(chain) \in Nat /\ Types /\ Proper
      /\ \A i \in Layer : Entered(i) <=> i < at
  BY <1>1, DownFacts DEF Structure, Types, Proper, Control
<1>3. /\ failed'.at = at /\ failed'.dir = dir' /\ failed'.recorded = Status(out, W)
      /\ failed' \in Failure /\ failed' # None /\ err' # None
  <2>1. failed'.at = at /\ failed'.dir = dir' /\ failed'.recorded = Status(out, W)
    BY DEF Fail
  <2>2. Types'
    BY FailKeeps DEF Structure
  <2>3. failed' \in Failure
    <3>1. failed' = [at |-> at, dir |-> dir', code |-> failed'.code, recorded |-> Status(out, W)]
      BY DEF Fail
    <3>2. failed'.code \in Nat
      BY DEF Fail
    <3>3. Status(out, W) \in Nat
      BY <1>1, <1>2, Reaching DEF Running
    <3> QED
      BY <1>1, <1>2, <3>1, <3>2, <3>3 DEF Failure
  <2>4. err' # None
    BY NoneAssumption DEF Fail
  <2> QED
    BY <2>1, <2>3, <2>4, NoneAssumption
<1>4. Boundary' \in 0 .. failed'.at - 1
  BY <1>1, <1>2, <1>3, BoundaryStep, BoundaryFacts DEF Proper
<1>5. Status(out, W) = out.status
  <2>1. at > 0 /\ Running
    BY <1>1, <1>2 DEF Running
  <2>2. Status(out, W) = out.recorded[Ctx(at)]
    BY <2>1, Reaching
  <2>3. Agree(out, Ctx(at)) /\ Ctx(at) \in Contexts /\ Contexts = {1, 2}
    BY <1>1, <2>1, LevelOpen DEF Heads, Agreed, Level, Contexts
  <2> QED
    BY <2>2, <2>3 DEF Agree
<1>6. /\ dir' = "up" => err' = failed'.code /\ err' # 0
      /\ dir' = "panic" => failed'.code = 500
  BY DEF Fail
<1>7. at' < failed'.at /\ at' >= Boundary'
  BY <1>1, <1>2, <1>3, <1>4
<1>8. \A i \in Layer : Entered(i)' => i < failed'.at
  BY <1>1, <1>2, <1>3 DEF Entered
<1> QED
  BY <1>1, <1>2, <1>3, <1>5, <1>6, <1>7, <1>8 DEF Failing

\* A step that does not change the failure.
LEMMA FailingSame ==
  ASSUME failed' = failed, chain' = chain, recovery' = recovery, accepts' = accepts
  PROVE  Boundary' = Boundary /\ NoneBetween' = NoneBetween
<1>1. Boundary' = Boundary
  BY BoundaryStep
<1>2. Compressing' = Compressing
  BY DEF Compressing
<1> QED
  BY <1>1, <1>2 DEF NoneBetween

\* Control leaves a layer on the way up.
LEMMA FailingUp ==
  ASSUME Structure, Heads, Failing, Back \/ Close
  PROVE  Failing'
<1>1. /\ dir \in {"up", "panic"} /\ at > 0 /\ at' = at - 1 /\ dir' = dir /\ err' = err
      /\ chain' = chain /\ saved' = saved /\ recovery' = recovery /\ failed' = failed
      /\ accepts' = accepts
  BY DEF Back, Close, Leave, request
<1>2. /\ at \in 1 .. Len(chain) /\ Len(chain) \in Nat /\ Types /\ Proper /\ at \in Layer
  BY <1>1, UpFacts DEF Structure, Types, Proper
<1>3. CASE failed = None
  BY <1>1, <1>3 DEF Failing
<1>4. CASE failed # None
  <2>1. /\ Boundary' = Boundary /\ NoneBetween' = NoneBetween /\ Pending' = Pending
    BY <1>1, FailingSame DEF Pending
  <2>2. /\ Boundary \in 0 .. failed.at - 1 /\ failed.at \in 1 .. Len(chain)
        /\ Boundary # 0 => chain[Boundary] = "mount" /\ ~(failed.dir = "panic" /\ ~recovery)
    BY <1>4, FailingBoundary DEF Failing
  <2>3. Pending => at # Boundary
    <3> SUFFICES ASSUME Pending, at = Boundary PROVE FALSE
      OBVIOUS
    <3>1. chain[at] = "mount" /\ ~(failed.dir = "panic" /\ ~recovery)
      BY <1>1, <2>2
    <3>2. dir = "panic" /\ ~Recovers
      BY <3>1 DEF Back, Close, Packs
    <3>3. failed.dir = "panic"
      BY <1>2, <1>4, <3>2 DEF Failing, Types, Failure
    <3> QED
      BY <3>1, <3>2, <3>3 DEF Pending, Recovers
  <2>4. Pending => at' >= Boundary
    BY <1>1, <1>2, <1>4, <2>2, <2>3 DEF Failing
  <2>5. Pending /\ failed.recorded = 0 /\ NoneBetween => out'.status = 0
    <3>1. CASE Back
      BY <1>4, <3>1 DEF Back, Failing
    <3>2. CASE Close
      <4> SUFFICES ASSUME Pending, NoneBetween PROVE FALSE
        OBVIOUS
      <4>1. IsPacker(at)
        BY <1>1, <3>2, UpFacts DEF IsPacker, Close
      <4>2. at <= Boundary
        BY <1>4, <4>1, PackersAbove
      <4> QED
        BY <1>1, <1>2, <2>2, <2>4, <4>2
    <3> QED
      BY <3>1, <3>2
  <2>6. at' < failed.at
    BY <1>1, <1>2, <1>4, <2>2 DEF Failing
  <2>7. \A i \in Layer : Entered(i)' => i < failed.at
    BY <1>1, <1>4 DEF Failing, Entered
  <2> QED
    BY <1>1, <1>4, <2>1, <2>2, <2>4, <2>5, <2>6, <2>7 DEF Failing
<1> QED
  BY <1>3, <1>4

\* Every other step.
LEMMA FailingOther ==
  ASSUME Structure, Heads, Failing,
         \/ Descend \/ Stay \/ Answer \/ RecovererPanic \/ MountUp
         \/ (Finish /\ dir' = "done") \/ Abort \/ UNCHANGED vars
  PROVE  Failing'
<1>1. CASE Descend \/ Stay \/ Answer
  <2>1. dir = "down" /\ dir' \in {"down", "up"} /\ err' = err /\ failed' = failed
    BY <1>1 DEF Descend, Stay, Answer
  <2> QED
    BY <2>1 DEF Failing
<1>2. CASE RecovererPanic \/ MountUp \/ (Finish /\ dir' = "done") \/ Abort
  <2>1. /\ dir \in {"up", "panic"} /\ chain' = chain /\ saved' = saved /\ failed' = failed
        /\ at \in Nat /\ (at' = at \/ at' = at - 1)
    BY <1>2 DEF RecovererPanic, MountUp, Finish, Abort, request, Structure, Types, Proper
  <2>2. \/ dir' = "up" /\ err' = None
        \/ dir' = "done" /\ err' = err
        \/ dir' = "aborted" /\ dir = "panic"
    BY <1>2 DEF RecovererPanic, MountUp, Finish, Abort
  <2>3. CASE failed = None
    BY <2>1, <2>2, <2>3 DEF Failing
  <2>4. CASE failed # None
    <3>1. ~Pending'
      BY <2>2 DEF Pending
    <3>2. \A i \in Layer : Entered(i)' => i < failed.at
      BY <2>1, <2>4 DEF Failing, Entered
    <3>3. at' < failed.at
      BY <2>1, <2>4 DEF Failing, Structure, Types, Proper
    <3> QED
      BY <2>1, <2>2, <2>4, <3>1, <3>2, <3>3 DEF Failing
  <2> QED
    BY <2>3, <2>4
<1>3. CASE UNCHANGED vars
  <2>1. /\ Boundary' = Boundary /\ NoneBetween' = NoneBetween /\ Pending' = Pending
    BY <1>3, FailingSame DEF Pending, vars, request
  <2> QED
    BY <1>3, <2>1 DEF Failing, vars, request, Entered
<1> QED
  BY <1>1, <1>2, <1>3

\* The invariant holds at first
LEMMA FailingInit == Init => Failing
BY DEF Init, Failing

\* and is kept by every step.
LEMMA FailingStep == Structure /\ Heads /\ Failing /\ [Next]_vars => Failing'
BY Moves, FailingFail, FailingUp, FailingOther

-----------------------------------------------------------------------------
(* The payload is conveyed.                                                *)

\* In o the layers down to n still have control.
Holds(o, n, P) ==
  /\ (\A i : ~IsPacker(i)) => Flat(o, P)
  /\ \A g : IsPacker(g) => IF n >= g THEN Packing(o, g, P) ELSE Closed(o, P)

Conveyed(P) == Holds(out, at, P)

Chunks(n) == [i \in 1 .. n |-> <<"chunk", i>>]

\* The failure has been answered.
Settled == dir = "done" \/ (dir = "up" /\ err = None)

\* What the client will get: the chunks, or the message of a failure.
Carried ==
  /\ failed = None => Conveyed(Chunks(chunks))
  /\ failed # None /\ failed.recorded = 0 /\ NoneBetween /\ Settled =>
       /\ out.status = failed.code
       /\ \E P \in {<<>>, <<<<"error", failed.code>>>>} : Conveyed(P)

\* Chunks, one by one.
LEMMA ChunksStep ==
  /\ Chunks(0) = <<>>
  /\ \A n \in Nat : Append(Chunks(n), <<"chunk", n + 1>>) = Chunks(n + 1)
<1>1. Chunks(0) = <<>>
  BY DEF Chunks
<1>2. ASSUME NEW n \in Nat
      PROVE  Append(Chunks(n), <<"chunk", n + 1>>) = Chunks(n + 1)
  <2> DEFINE S == {<<"chunk", i>> : i \in 1 .. n + 1}
             t == <<"chunk", n + 1>>
             s == Chunks(n)
             u == Chunks(n + 1)
  <2>1. s \in Seq(S) /\ Len(s) = n /\ \A i \in 1 .. n : s[i] = <<"chunk", i>>
    BY DEF Chunks
  <2>2. u \in Seq(S) /\ Len(u) = n + 1 /\ \A i \in 1 .. n + 1 : u[i] = <<"chunk", i>>
    BY DEF Chunks
  <2>3. t \in S
    OBVIOUS
  <2>4. t = u[n + 1]
    BY <2>2
  <2> HIDE DEF S, s, t, u
  <2>5. Append(s, t) \in Seq(S) /\ Len(Append(s, t)) = n + 1
    BY <2>1, <2>3
  <2>6. \A i \in 1 .. n + 1 : Append(s, t)[i] = u[i]
    <3>1. /\ \A i \in 1 .. Len(s) : Append(s, t)[i] = s[i]
          /\ Append(s, t)[Len(s) + 1] = t
      BY <2>1, <2>3, AppendProperties
    <3>2. ASSUME NEW i \in 1 .. n PROVE u[i] = s[i]
      <4>1. i \in 1 .. n + 1
        OBVIOUS
      <4>2. u[i] = <<"chunk", i>>
        BY <2>2, <4>1, Zenon
      <4>3. s[i] = <<"chunk", i>>
        BY <2>1, Zenon
      <4> QED
        BY <4>2, <4>3, Zenon
    <3> QED
      BY <2>1, <2>4, <3>1, <3>2
  <2>7. Append(s, t) = u
    BY <2>2, <2>5, <2>6, SeqEqual
  <2> QED
    BY <2>7 DEF s, t, u
<1> QED
  BY <1>1, <1>2

\* Nothing has been sent, and nothing is to be.
LEMMA HoldsBlank ==
  ASSUME NEW o, IsBlank(o), NEW n, \A g : IsPacker(g) => n >= g
  PROVE  Holds(o, n, <<>>)
BY BlankForms DEF Holds, IsPacker

\* The header of the current encoding.
LEMMA HoldsHeaded ==
  ASSUME Marked, NEW o, IsOut(o), IsBlank(o), o.header = out.header,
         NEW c \in Contexts, NEW code \in Nat \ {0}, NEW n, \A g : IsPacker(g) => n >= g
  PROVE  Holds(Headed(o, c, code), n, <<>>)
<1>1. /\ (\A i : ~IsPacker(i)) => o.header = "identity"
      /\ \A g : IsPacker(g) => o.header = "gzip" /\ g \in Layer
  BY DEF Marked, IsPacker
<1>2. /\ o.header = "identity" => Flat(Headed(o, c, code), <<>>)
      /\ o.header = "gzip" => \A g \in Layer : Packing(Headed(o, c, code), g, <<>>)
  BY HeadedForms
<1> QED
  BY <1>1, <1>2 DEF Holds

\* A write to a writer on top of everything.
LEMMA HoldsWrite ==
  ASSUME Structure, Single, Marked, NEW c, Open(c), NEW w,
         (\A i : ~IsPacker(i)) => Plain(w, c), \A g : IsPacker(g) => Over(w, c, g),
         NEW o, IsOut(o), o.under = out.under, o.header = out.header, Agree(o, c),
         NEW n, \A g : IsPacker(g) => n >= g, NEW P, Holds(o, n, P), NEW token
  PROVE  Holds(Write(o, w, token), n, Append(P, token))
<1>1. /\ (\A i : ~IsPacker(i)) => o.header = "identity"
      /\ \A g : IsPacker(g) => o.header = "gzip" /\ g \in Layer
  BY DEF Marked, IsPacker
<1>2. c \in Contexts /\ Types /\ Linked
  BY DEF Open, Contexts, Structure
<1>3. ASSUME \A i : ~IsPacker(i) PROVE Flat(Write(o, w, token), Append(P, token))
  <2>1. Flat(o, P)
    BY <1>3 DEF Holds
  <2>2. Write(o, w, token) = Deliver(Headed(o, c, 200), token)
    BY <1>2, <1>3, PlainWrite
  <2> QED
    BY <1>1, <1>2, <1>3, <2>1, <2>2, FlatWrite
<1>4. ASSUME NEW g, IsPacker(g) PROVE Packing(Write(o, w, token), g, Append(P, token))
  <2>1. Packing(o, g, P)
    BY <1>4 DEF Holds
  <2>2. Write(o, w, token) = Squeezed(Headed(o, c, 200), g, token)
    BY <1>2, <1>4, OverWrite
  <2> QED
    BY <1>1, <1>2, <1>4, <2>1, <2>2, PackingWrite
<1> QED
  BY <1>3, <1>4 DEF Holds

\* DefaultErrorHandler, when nothing has been sent.
LEMMA HoldsError ==
  ASSUME Structure, Single, Marked, NEW c, Open(c), NEW w \in Live(c, MaxLayers + 1),
         (\A i : ~IsPacker(i)) => Plain(w, c), \A g : IsPacker(g) => Over(w, c, g),
         IsBlank(out), Agree(out, c), NEW code \in Nat \ {0},
         NEW n, \A g : IsPacker(g) => n >= g
  PROVE  Holds(DefaultErrorHandler(out, w, code), n, <<<<"error", code>>>>)
<1> DEFINE q == Headed(out, c, code)
<1>1. c \in Contexts /\ Types /\ Linked /\ IsOut(out)
  BY DEF Open, Contexts, Structure, Types
<1>2. WriteHeader(out, w, code) = q /\ Status(out, w) = 0
  BY <1>1, Operations DEF IsBlank
<1>3. DefaultErrorHandler(out, w, code) = Write(q, w, <<"error", code>>)
  BY <1>2 DEF DefaultErrorHandler
<1>4. Holds(q, n, <<>>)
  BY <1>1, HoldsHeaded
<1>5. IsOut(q) /\ q.under = out.under /\ Agree(q, c)
  BY <1>1, HeadedAgree
<1>6. q.header = out.header
  BY <1>1, HeadedBody
<1> HIDE DEF q
<1>7. Holds(Write(q, w, <<"error", code>>), n, Append(<<>>, <<"error", code>>))
  BY <1>4, <1>5, <1>6, HoldsWrite
<1>8. Append(<<>>, <<"error", code>>) = <<<<"error", code>>>>
  OBVIOUS
<1> QED
  BY <1>3, <1>7, <1>8

\* A step that does not call Next.
LEMMA PackerStep ==
  ASSUME chain' = chain, accepts' = accepts, saved' = saved
  PROVE  (\A i : IsPacker(i)' = IsPacker(i)) /\ Single' = Single
         /\ \A P : Conveyed(P)' = Holds(out', at', P)
<1>1. \A i : IsPacker(i)' = IsPacker(i)
  BY SameSaved, SameChain DEF IsPacker
<1>2. Single' = Single
  BY SameChain DEF Single
<1> QED
  BY <1>1, <1>2 DEF Conveyed, Holds

\* The Context of a layer that has called Next is in use.
LEMMA PackerOpen ==
  ASSUME Structure, NEW g \in Layer, Entered(g)
  PROVE  Open(Ctx(g)) /\ Ctx(g) \in Contexts
<1>1. /\ Types /\ Proper /\ Len(chain) \in Nat /\ g < Len(chain) /\ MaxLayers \in Nat
      /\ \A j \in 1 .. g : Entered(j)
  BY DepthNat DEF Structure, Types, Proper, Control
<1>2. g \in 1 .. Len(chain)
  BY <1>1 DEF Layer
<1>3. Ctx(g) \in Contexts /\ Contexts = {1, 2}
  BY <1>1, <1>2, CtxSteps DEF Contexts
<1>4. ASSUME Ctx(g) = 2 PROVE Open(2)
  <2>1. PICK m \in 1 .. g - 1 : chain[m] = "mount"
    BY <1>1, <1>2, <1>4, CtxSteps
  <2>2. m \in 1 .. Len(chain) /\ m \in 1 .. g
    BY <1>1, <1>2
  <2> QED
    BY <1>1, <2>1, <2>2 DEF Open
<1> QED
  BY <1>3, <1>4 DEF Open

\* All that the layers keep.
Whole == Structure /\ Heads /\ Failing

\* What the proofs below take from it.
LEMMA WholeFacts ==
  ASSUME Whole
  PROVE  /\ Structure /\ Types /\ Linked /\ IsOut(out) /\ Heads /\ Marked /\ Failing
         /\ at \in Nat /\ Len(chain) \in Nat /\ chunks \in Nat
         /\ out.status = 0 => IsBlank(out) /\ chunks = 0
         /\ dir = "down" => failed = None /\ \A g : IsPacker(g) => g < at /\ g \in Nat
         /\ \A g : IsPacker(g) => g \in Nat
<1>1. /\ Structure /\ Types /\ Linked /\ IsOut(out) /\ Heads /\ Marked /\ Failing
      /\ at \in Nat /\ Len(chain) \in Nat /\ chunks \in Nat
  BY DEF Whole, Structure, Types, Heads, Proper
<1>2. out.status = 0 => IsBlank(out) /\ chunks = 0
  BY <1>1 DEF Heads, Blank, IsBlank
<1>3. dir = "down" => failed = None /\ \A g : IsPacker(g) => g < at
  BY <1>1 DEF Failing, Structure, Control, IsPacker
<1>4. \A g : IsPacker(g) => g \in Nat
  BY DepthNat DEF IsPacker, Layer
<1> QED
  BY <1>1, <1>2, <1>3, <1>4

\* A layer calls Next.
LEMMA CarriedDescend ==
  ASSUME Whole, Carried, Descend
  PROVE  Carried'
<1>1. Structure /\ dir = "down" /\ failed = None /\ failed' = failed /\ chunks' = chunks
      /\ dir' = "down" /\ Heads
  BY WholeFacts DEF Descend
<1>2. Structure' /\ Heads'
  BY <1>1, DescendKeeps, HeadsDescend
<1>3. out.status = 0 /\ out'.status = 0
  <2>1. out.status = 0
    BY <1>1 DEF Heads, Quiet, Descend
  <2>2. IsOut(out)
    BY WholeFacts
  <2> QED
    BY <2>1, <2>2 DEF Descend, IsOut
<1>4. IsBlank(out') /\ chunks' = 0
  BY <1>2, <1>3 DEF Heads, Blank, IsBlank
<1>5. \A g : IsPacker(g)' => g < at'
  BY <1>1, <1>2 DEF Structure, Control, IsPacker
<1>6. Conveyed(<<>>)'
  <2>1. at' \in Nat /\ \A g : IsPacker(g)' => g \in Layer /\ g \in Nat
    BY <1>2, DepthNat DEF Structure, Types, Proper, IsPacker, Layer
  <2>2. Flat(out', <<>>) /\ \A g \in Layer : Packing(out', g, <<>>)
    BY <1>4, BlankForms
  <2>3. \A g : IsPacker(g)' => at' >= g
    BY <1>5, <2>1
  <2> QED
    BY <2>1, <2>2, <2>3 DEF Conveyed, Holds, Flat, Packing, GzipHeader
<1> QED
  BY <1>1, <1>4, <1>6, ChunksStep DEF Carried

\* The handler writes.
LEMMA CarriedStay ==
  ASSUME Whole, Single, Carried, Stay
  PROVE  Carried'
<1>1. /\ Structure /\ Types /\ Linked /\ IsOut(out) /\ Heads /\ Marked /\ at \in Nat
      /\ dir = "down" /\ failed = None /\ failed' = None /\ chunks \in Nat /\ Running
      /\ chain' = chain /\ accepts' = accepts /\ saved' = saved /\ at' = at
      /\ out.status = 0 => IsBlank(out) /\ chunks = 0
  BY WholeFacts DEF Stay, request, Running
<1>2. \A g : IsPacker(g) => at >= g /\ g < at
  BY <1>1, WholeFacts
<1>3. /\ at > 0 /\ at \in 1 .. Len(chain) /\ chain[at] # "mount" /\ Ctx(at) = Level
      /\ Level \in Contexts /\ Open(Level) /\ Agree(out, Level)
      /\ W = Found(at) /\ W \in Live(Level, MaxLayers + 1)
  <2>1. at > 0 /\ at \in 1 .. Len(chain) /\ W = Found(at)
    BY <1>1, DownFacts DEF Structure, Control
  <2>2. chain[at] # "mount"
    BY DEF Stay
  <2> QED
    BY <1>1, <2>1, <2>2, LevelOpen, LevelWriters DEF Heads
<1>4. Holds(out, at, Chunks(chunks))
  BY <1>1 DEF Carried, Conveyed
<1>5. ASSUME NEW code \in Codes, out' = WriteHeader(out, W, code), chunks' = chunks
      PROVE  Holds(out', at, Chunks(chunks'))
  <2>1. code \in Nat \ {0}
    BY LayersAssumption
  <2>2. out' = Headed(out, Level, code)
    BY <1>1, <1>3, <1>5, <2>1, Operations
  <2>3. CASE out.status = 0
    <3>1. Holds(out', at, <<>>)
      BY <1>1, <1>2, <1>3, <2>1, <2>2, <2>3, HoldsHeaded
    <3> QED
      BY <1>1, <1>5, <2>3, <3>1, ChunksStep
  <2>4. CASE out.status # 0
    <3>1. out' = out
      BY <2>2, <2>4 DEF Headed
    <3> QED
      BY <1>4, <1>5, <3>1
  <2> QED
    BY <2>3, <2>4
<1>6. ASSUME out' = Write(out, W, <<"chunk", chunks + 1>>), chunks' = chunks + 1
      PROVE  Holds(out', at, Chunks(chunks'))
  <2>1. (\A i : ~IsPacker(i)) => Plain(W, Level)
    BY <1>1, <1>3, NonePlain
  <2>2. ASSUME NEW g, IsPacker(g) PROVE Over(W, Level, g)
    <3>1. \A j \in 1 .. at - 1 : Entered(j)
      BY <1>1, <1>3, DepthNat DEF Structure, Control, Layer, Types, Proper
    <3>2. Open(Ctx(g))
      BY <1>1, <2>2, PackerOpen DEF IsPacker
    <3> QED
      BY <1>1, <1>2, <1>3, <2>2, <3>1, <3>2, FoundOver
  <2>3. Holds(out', at, Append(Chunks(chunks), <<"chunk", chunks + 1>>))
    BY <1>1, <1>2, <1>3, <1>4, <1>6, <2>1, <2>2, HoldsWrite
  <2> QED
    BY <1>1, <1>6, <2>3, ChunksStep
<1>7. Holds(out', at', Chunks(chunks'))
  BY <1>1, <1>5, <1>6 DEF Stay
<1>8. PICK n : n = chunks'
  OBVIOUS
<1>9. Conveyed(Chunks(n))'
  BY <1>1, <1>7, <1>8, PackerStep
<1> QED
  BY <1>1, <1>8, <1>9 DEF Carried, Conveyed, Chunks

\* Control leaves a layer that does not compress.
LEMMA HoldsLeave ==
  ASSUME NEW o, NEW n \in Nat, n > 0, ~IsPacker(n), \A g : IsPacker(g) => g \in Nat,
         NEW P, Holds(o, n, P)
  PROVE  Holds(o, n - 1, P)
<1>1. \A g : IsPacker(g) => (n >= g <=> n - 1 >= g)
  OBVIOUS
<1> QED
  BY <1>1 DEF Holds

\* A layer returns without having called Next.
LEMMA CarriedAnswer ==
  ASSUME Whole, Carried, Answer
  PROVE  Carried'
<1>1. /\ Structure /\ Types /\ Linked /\ IsOut(out) /\ Heads /\ Marked /\ at \in Nat
      /\ dir = "down" /\ failed = None /\ failed' = None /\ chunks \in Nat /\ Running
      /\ chain' = chain /\ accepts' = accepts /\ saved' = saved /\ at' = at - 1
      /\ out.status = 0 => IsBlank(out) /\ chunks = 0
      /\ chunks' = chunks /\ \A g : IsPacker(g) => g \in Nat /\ g < at
  BY WholeFacts DEF Answer, request, Running
<1>2. at > 0 /\ Holds(out, at, Chunks(chunks))
  BY <1>1 DEF Carried, Conveyed, Structure, Control
<1>3. ~IsPacker(at) /\ \A g : IsPacker(g) => at - 1 >= g
  BY <1>1
<1>4. CASE out' = out
  <2>1. Holds(out', at - 1, Chunks(chunks))
    BY <1>1, <1>2, <1>3, <1>4, HoldsLeave
  <2>2. PICK n : n = chunks
    OBVIOUS
  <2>3. Conveyed(Chunks(n))'
    BY <1>1, <2>1, <2>2, PackerStep
  <2> QED
    BY <1>1, <2>2, <2>3 DEF Carried, Conveyed, Chunks
<1>5. CASE chain[at] = "cors" /\ out' = WriteHeader(out, W, 204)
  <2>1. out.status = 0 /\ 204 \in Nat \ {0}
    BY <1>1, <1>5 DEF Heads, Quiet
  <2>2. /\ Level \in Contexts /\ Open(Level) /\ Agree(out, Level)
        /\ W \in Live(Level, MaxLayers + 1)
    BY <1>1, <1>2, <1>5, LevelWriters DEF Heads
  <2>3. out' = Headed(out, Level, 204)
    BY <1>1, <1>5, <2>1, <2>2, Operations
  <2>4. Holds(out', at - 1, <<>>)
    BY <1>1, <1>3, <2>1, <2>2, <2>3, HoldsHeaded
  <2>5. Conveyed(<<>>)'
    BY <1>1, <2>4, PackerStep
  <2> QED
    BY <1>1, <2>1, <2>5, ChunksStep DEF Carried
<1> QED
  BY <1>4, <1>5 DEF Answer

\* A layer begins to fail.
LEMMA CarriedFail ==
  ASSUME Whole, Carried, Fail
  PROVE  Carried'
<1>1. failed' # None
  <2>1. Structure /\ dir = "down"
    BY WholeFacts DEF Fail
  <2>2. Failing' /\ dir' # "down" /\ err' # None
    BY FailingFail, NoneAssumption DEF Fail, Whole
  <2> QED
    BY <2>2 DEF Failing
<1>2. ~Settled'
  <2>1. err' # None /\ dir' \in {"up", "panic"}
    BY NoneAssumption DEF Fail
  <2> QED
    BY <2>1 DEF Settled
<1> QED
  BY <1>1, <1>2 DEF Carried

\* A step up that leaves out alone, or closes the gzip.Writer.
LEMMA CarriedUp ==
  ASSUME Whole, Single, Carried, Back \/ Close
  PROVE  Carried'
<1>1. /\ Structure /\ Types /\ IsOut(out) /\ Heads /\ Marked /\ at \in Nat /\ at > 0 /\ Failing
      /\ dir \in {"up", "panic"} /\ dir' = dir /\ err' = err /\ failed' = failed
      /\ chain' = chain /\ accepts' = accepts /\ saved' = saved /\ at' = at - 1
      /\ recovery' = recovery /\ chunks' = chunks /\ \A g : IsPacker(g) => g \in Nat
  BY WholeFacts DEF Back, Close, Leave, request
<1>2. ASSUME NEW P, Holds(out, at, P), dir = "up" PROVE Conveyed(P)'
  <2>1. CASE Back
    <3>1. ~IsPacker(at) /\ out' = out
      BY <1>2, <2>1 DEF Back, IsPacker
    <3>2. Holds(out', at - 1, P)
      BY <1>1, <1>2, <3>1, HoldsLeave
    <3> QED
      BY <1>1, <3>2, PackerStep
  <2>2. CASE Close
    <3>1. /\ IsPacker(at) /\ out' = CloseGzip(out, at) /\ chain[at] # "mount"
      BY <1>1, <2>2, UpFacts DEF Close, IsPacker, Packs
    <3>2. Open(Ctx(at)) /\ Agree(out, Ctx(at)) /\ Ctx(at) = Level
      BY <1>1, <3>1, LevelOpen DEF Heads, Agreed, Running
    <3>3. Packing(out, at, P) /\ out.header = "gzip"
      BY <1>1, <1>2, <3>1 DEF Holds, Marked, IsPacker
    <3>4. Closed(out', P)
      BY <1>1, <3>1, <3>2, <3>3, CloseForms
    <3>5. ASSUME NEW g, IsPacker(g) PROVE g = at
      <4>1. g \in Layer /\ at \in Layer /\ g < Len(chain) /\ at < Len(chain)
        BY <1>1, <3>1, <3>5 DEF IsPacker, Structure, Control
      <4>2. g <= Len(chain) /\ at <= Len(chain)
        BY <1>1, <4>1, DepthNat DEF Layer, Types, Proper
      <4> QED
        BY <3>1, <3>5, <4>1, <4>2 DEF Single, IsPacker
    <3>6. Holds(out', at - 1, P)
      <4>1. ~(at - 1 >= at)
        BY <1>1
      <4> QED
        BY <3>1, <3>4, <3>5, <4>1 DEF Holds
    <3> QED
      BY <1>1, <3>6, PackerStep
  <2> QED
    BY <2>1, <2>2
<1>3. failed = None => dir = "up" /\ Conveyed(Chunks(chunks))'
  <2> SUFFICES ASSUME failed = None PROVE dir = "up" /\ Conveyed(Chunks(chunks))'
    OBVIOUS
  <2>1. dir = "up"
    BY <1>1 DEF Failing
  <2>2. Holds(out, at, Chunks(chunks))
    BY DEF Carried, Conveyed
  <2>3. PICK n : n = chunks
    OBVIOUS
  <2>4. Conveyed(Chunks(n))'
    BY <1>2, <2>1, <2>2, <2>3
  <2> QED
    BY <1>1, <2>1, <2>3, <2>4 DEF Conveyed, Chunks
<1>4. NoneBetween' = NoneBetween /\ Settled' = Settled
  BY <1>1, FailingSame DEF Settled
<1>5. ASSUME failed # None, failed.recorded = 0, NoneBetween, Settled
      PROVE  /\ out'.status = failed.code
             /\ \E P \in {<<>>, <<<<"error", failed.code>>>>} : Conveyed(P)'
  <2>1. /\ out.status = failed.code /\ dir = "up"
        /\ \E P \in {<<>>, <<<<"error", failed.code>>>>} : Conveyed(P)
    BY <1>1, <1>5 DEF Carried, Settled
  <2>2. failed.code # 0
    BY <1>1, <1>5 DEF Failing
  <2>3. out'.status = out.status
    <3>1. CASE Back
      BY <3>1 DEF Back
    <3>2. CASE Close
      <4>1. Sent(out, out', Level, 200)
        BY <1>1, <3>2, CloseSendsUp DEF Heads
      <4> QED
        BY <2>1, <2>2, <4>1 DEF Sent
    <3> QED
      BY <3>1, <3>2
  <2> QED
    BY <1>2, <2>1, <2>3 DEF Conveyed
<1> QED
  BY <1>1, <1>3, <1>4, <1>5 DEF Carried

\* A Recoverer stops a panic and answers it.
LEMMA CarriedRecoverer ==
  ASSUME Whole, Carried, RecovererPanic
  PROVE  Carried'
<1>1. /\ Structure /\ Types /\ Linked /\ IsOut(out) /\ Heads /\ Marked /\ at \in Nat /\ at > 0
      /\ Failing
      /\ dir = "panic" /\ dir' = "up" /\ err # ErrAbortHandler /\ failed' = failed
      /\ chain' = chain /\ accepts' = accepts /\ saved' = saved /\ at' = at - 1
      /\ recovery' = recovery /\ chain[at] = "recoverer" /\ Running
      /\ out.status = 0 => IsBlank(out)
  BY WholeFacts DEF RecovererPanic, request, Running
<1>2. failed # None /\ failed.dir = "panic" /\ failed.code = 500 /\ NoneBetween' = NoneBetween
  BY <1>1, FailingSame DEF Failing, Types, Failure
<1>3. ASSUME failed.recorded = 0, NoneBetween
      PROVE  out'.status = failed.code /\ Conveyed(<<>>)'
  <2>1. out.status = 0 /\ at >= Boundary
    BY <1>1, <1>2, <1>3 DEF Failing, Pending
  <2>2. ASSUME NEW g, IsPacker(g) PROVE at - 1 >= g
    <3>1. g <= Boundary /\ g \in Nat /\ Boundary \in Nat
      BY <1>1, <1>2, <1>3, <2>2, PackersAbove
    <3>2. g # at
      BY <1>1, <2>2 DEF IsPacker, Packs
    <3> QED
      BY <1>1, <2>1, <3>1, <3>2
  <2>3. /\ Level \in Contexts /\ Open(Level) /\ Agree(out, Level)
        /\ W \in Live(Level, MaxLayers + 1)
    BY <1>1, LevelWriters DEF Heads
  <2>4. 500 \in Nat \ {0}
    OBVIOUS
  <2>5. Status(out, W) = 0 /\ WriteHeader(out, W, 500) = Headed(out, Level, 500)
    BY <1>1, <2>1, <2>3, <2>4, Operations
  <2>6. out' = Headed(out, Level, 500)
    BY <2>5 DEF RecovererPanic
  <2>7. Holds(out', at - 1, <<>>)
    BY <1>1, <2>1, <2>2, <2>3, <2>4, <2>6, HoldsHeaded
  <2>8. out'.status = 500
    BY <1>1, <2>1, <2>6, HeadedStatus
  <2> QED
    BY <1>1, <1>2, <2>7, <2>8, PackerStep
<1> QED
  BY <1>1, <1>2, <1>3 DEF Carried

\* The mounted router answers a failure, or is done.
LEMMA CarriedMount ==
  ASSUME Whole, Single, Carried, MountUp
  PROVE  Carried'
<1>1. /\ Structure /\ Types /\ Linked /\ IsOut(out) /\ Heads /\ Marked /\ at \in Nat /\ at > 0
      /\ Failing /\ Len(chain) \in Nat
      /\ dir \in {"up", "panic"} /\ dir' = "up" /\ err' = None /\ failed' = failed
      /\ chain' = chain /\ accepts' = accepts /\ saved' = saved /\ at' = at - 1
      /\ recovery' = recovery /\ chain[at] = "mount" /\ Running /\ chunks' = chunks
      /\ out.status = 0 => IsBlank(out)
      /\ \A g : IsPacker(g) => g \in Nat
  BY WholeFacts DEF MountUp, request, Running
<1>2. ~IsPacker(at)
  BY <1>1 DEF IsPacker, Packs
<1>3. NoneBetween' = NoneBetween
  BY <1>1, FailingSame
<1>4. IF dir = "panic" \/ err # None
      THEN /\ Rendered \in Nat \ {0} /\ Sent(out, out', Level, Rendered)
           /\ out' = DefaultErrorHandler(out, writer[2], Rendered)
      ELSE out' = out
  BY <1>1, MountSends DEF Heads
<1>5. CASE dir = "up" /\ err = None
  <2>1. out' = out
    BY <1>4, <1>5
  <2>2. ASSUME NEW P, Conveyed(P) PROVE Conveyed(P)'
    <3>1. Holds(out', at - 1, P)
      BY <1>1, <1>2, <2>1, <2>2, HoldsLeave DEF Conveyed
    <3> QED
      BY <1>1, <3>1, PackerStep
  <2>3. failed = None => Conveyed(Chunks(chunks))'
    <3>1. PICK n : n = chunks
      OBVIOUS
    <3>2. failed = None => Conveyed(Chunks(n))
      BY <3>1 DEF Carried
    <3>3. failed = None => Conveyed(Chunks(n))'
      BY <2>2, <3>2
    <3> QED
      BY <1>1, <3>1, <3>3 DEF Conveyed, Chunks
  <2> QED
    BY <1>1, <1>3, <1>5, <2>1, <2>2, <2>3 DEF Carried, Settled
<1>6. CASE dir = "panic" \/ err # None
  <2>1. failed # None
    BY <1>1, <1>6 DEF Failing
  <2>2. ASSUME failed.recorded = 0, NoneBetween
        PROVE  out'.status = failed.code /\ Conveyed(<<<<"error", failed.code>>>>)'
    <3>1. Pending
      BY <1>1, <1>6 DEF Pending, MountUp, Recovers
    <3>2. out.status = 0 /\ at >= Boundary
      BY <1>1, <2>1, <2>2, <3>1 DEF Failing
    <3>3. Rendered = failed.code
      BY <1>1, <1>6, <2>1 DEF Rendered, Failing, Types, Failure
    <3>4. ASSUME NEW g, IsPacker(g) PROVE g \in Nat /\ at - 1 >= g
      <4>1. g <= Boundary /\ g \in Nat /\ Boundary \in Nat
        BY <1>1, <2>1, <2>2, <3>4, PackersAbove
      <4>2. g # at
        BY <1>2, <3>4
      <4> QED
        BY <1>1, <3>2, <4>1, <4>2
    <3>5. /\ Level = 2 /\ Open(2) /\ Agree(out, 2) /\ at \in 1 .. Len(chain)
          /\ writer[2] \in Live(2, MaxLayers + 1) /\ Ctx(at) = 1 /\ at \in Layer
          /\ \A j \in 1 .. Len(chain) : Ctx(j) = 2 <=> j > at
      BY <1>1, LevelWriters, UpFacts, CtxSteps DEF Heads, Contexts, Types
    <3>6. writer[2] = Base(2)
      <4>1. ASSUME NEW k \in 1 .. (MaxLayers + 1) - 1, Entered(k), Packs(k), Ctx(k) = 2
            PROVE  FALSE
        <5>1. IsPacker(k)
          BY <4>1, DepthNat DEF IsPacker, Layer
        <5>2. k \in 1 .. Len(chain)
          BY <1>1, <5>1 DEF IsPacker, Structure, Control, Layer
        <5> QED
          BY <1>1, <3>4, <3>5, <4>1, <5>1, <5>2
      <4> QED
        BY <3>5, <4>1 DEF Live
    <3>7. (\A i : ~IsPacker(i)) => Plain(writer[2], 2)
      BY <1>1, <3>5, NonePlain
    <3>8. ASSUME NEW g, IsPacker(g) PROVE Over(writer[2], 2, g)
      <4>1. \A j \in 1 .. at - 1 : Entered(j)
        BY <1>1, <3>5 DEF Structure, Control
      <4>2. Open(Ctx(g)) /\ Ctx(g) \in Contexts
        BY <1>1, <3>8, PackerOpen DEF IsPacker
      <4>3. g < at /\ g \in 1 .. Len(chain)
        BY <1>1, <3>4, <3>5, <3>8 DEF IsPacker, Layer
      <4>4. Ctx(g) = 1
        BY <1>1, <3>5, <4>2, <4>3 DEF Contexts
      <4>5. Over(Found(at), 1, g)
        BY <1>1, <3>5, <3>8, <4>1, <4>2, <4>3, FoundOver
      <4>6. Found(at) = Gzip(g) /\ Plain(out.under[Gzip(g)], 1)
        BY <4>5 DEF Over
      <4>7. out.under[Base(2)] = Found(at)
        BY <1>1, UpFacts DEF Placed
      <4> QED
        BY <3>6, <4>4, <4>6, <4>7 DEF Over
    <3>9. Holds(DefaultErrorHandler(out, writer[2], Rendered), at - 1,
                <<<<"error", Rendered>>>>)
      BY <1>1, <1>4, <1>6, <3>2, <3>4, <3>5, <3>7, <3>8, HoldsError
    <3>10. out'.status = Rendered
      BY <1>4, <1>6, <3>2 DEF Sent
    <3>11. Holds(out', at - 1, <<<<"error", failed.code>>>>)
      BY <1>4, <1>6, <3>3, <3>9
    <3>12. PICK n : n = failed.code
      OBVIOUS
    <3>13. Conveyed(<<<<"error", n>>>>)'
      BY <1>1, <3>11, <3>12, PackerStep
    <3> QED
      BY <1>1, <3>3, <3>10, <3>12, <3>13
  <2> QED
    BY <1>1, <1>3, <2>1, <2>2 DEF Carried
<1> QED
  BY <1>1, <1>5, <1>6

\* net/http sends the header, if nothing has, when the main router is done.
LEMMA HoldsWire ==
  ASSUME Marked, NEW o, IsOut(o), o.under[Wire] = Wire, o.header = out.header,
         NEW P, Holds(o, 0, P)
  PROVE  Holds(WriteHeader(o, Wire, 200), 0, P)
<1> DEFINE p == WriteHeader(o, Wire, 200)
<1>1. /\ p.body = o.body /\ p.status = IF o.status = 0 THEN 200 ELSE o.status
      /\ p.encoding = IF o.status = 0 THEN o.header ELSE o.encoding
  BY WireHeader
<1> HIDE DEF p
<1>2. ASSUME \A i : ~IsPacker(i) PROVE Flat(p, P)
  <2>1. Flat(o, P) /\ o.header = "identity"
    BY <1>2 DEF Holds, Marked, IsPacker
  <2> QED
    BY <1>1, <2>1 DEF Flat
<1>3. ASSUME NEW g, IsPacker(g) PROVE ~(0 >= g) /\ Closed(p, P)
  <2>1. ~(0 >= g)
    BY <1>3, DepthNat DEF IsPacker, Layer
  <2>2. Closed(o, P)
    BY <1>3, <2>1 DEF Holds
  <2> QED
    BY <1>1, <2>1, <2>2 DEF Closed
<1>4. Holds(p, 0, P)
  BY <1>2, <1>3 DEF Holds
<1> QED
  BY <1>4 DEF p

\* The main router is done.
LEMMA CarriedFinish ==
  ASSUME Whole, Single, Carried, Finish, dir' = "done"
  PROVE  Carried'
<1>1. /\ Structure /\ Types /\ Linked /\ IsOut(out) /\ Heads /\ Marked /\ at = 0 /\ at' = 0
      /\ Failing /\ dir \in {"up", "panic"} /\ failed' = failed /\ Running
      /\ chain' = chain /\ accepts' = accepts /\ saved' = saved
      /\ recovery' = recovery /\ chunks' = chunks
      /\ out.status = 0 => IsBlank(out)
      /\ dir = "panic" => err # ErrAbortHandler
  BY WholeFacts DEF Finish, request, Running
<1>2. NoneBetween' = NoneBetween
  BY <1>1, FailingSame
<1>3. PICK a : /\ out' = WriteHeader(a, Wire, 200) /\ IsOut(a) /\ a.under[Wire] = Wire
               /\ IF dir = "panic" \/ err # None
                  THEN /\ Rendered \in Nat \ {0} /\ Sent(out, a, 1, Rendered)
                       /\ a = DefaultErrorHandler(out, writer[1], Rendered)
                  ELSE a = out
  BY <1>1, FinishSends DEF Heads
<1>4. a.header = out.header
  BY <1>3 DEF Sent
<1>5. ASSUME NEW P, Holds(a, 0, P) PROVE Conveyed(P)'
  <2>1. Holds(out', 0, P)
    BY <1>1, <1>3, <1>4, <1>5, HoldsWire
  <2> QED
    BY <1>1, <2>1, PackerStep
<1>6. out'.status = IF a.status = 0 THEN 200 ELSE a.status
  BY <1>3, WireHeader
<1>7. CASE dir = "up" /\ err = None
  <2>1. a = out
    BY <1>3, <1>7
  <2>2. ASSUME NEW P, Conveyed(P) PROVE Conveyed(P)'
    BY <1>1, <1>5, <2>1, <2>2 DEF Conveyed
  <2>3. failed = None => Conveyed(Chunks(chunks))'
    <3>1. PICK n : n = chunks
      OBVIOUS
    <3>2. failed = None => Conveyed(Chunks(n))
      BY <3>1 DEF Carried
    <3>3. failed = None => Conveyed(Chunks(n))'
      BY <2>2, <3>2
    <3> QED
      BY <1>1, <3>1, <3>3 DEF Conveyed, Chunks
  <2>4. ASSUME failed # None, failed.recorded = 0, NoneBetween
        PROVE  /\ out'.status = failed.code
               /\ \E P \in {<<>>, <<<<"error", failed.code>>>>} : Conveyed(P)'
    <3>1. /\ out.status = failed.code /\ failed.code # 0
          /\ \E P \in {<<>>, <<<<"error", failed.code>>>>} : Conveyed(P)
      BY <1>1, <1>7, <2>4 DEF Carried, Settled, Failing
    <3> QED
      BY <1>6, <2>1, <2>2, <3>1
  <2> QED
    BY <1>1, <1>2, <2>3, <2>4 DEF Carried
<1>8. CASE dir = "panic" \/ err # None
  <2>1. failed # None /\ Pending
    BY <1>1, <1>8 DEF Failing, Pending
  <2>2. ASSUME failed.recorded = 0, NoneBetween
        PROVE  out'.status = failed.code /\ Conveyed(<<<<"error", failed.code>>>>)'
    <3>1. out.status = 0 /\ at >= Boundary
      BY <1>1, <2>1, <2>2 DEF Failing
    <3>2. Rendered = failed.code
      BY <1>1, <1>8, <2>1 DEF Rendered, Failing, Types, Failure
    <3>3. \A g : ~IsPacker(g)
      <4> SUFFICES ASSUME NEW g, IsPacker(g) PROVE FALSE
        OBVIOUS
      <4>1. g <= Boundary /\ g \in Nat /\ Boundary \in Nat
        BY <1>1, <2>1, <2>2, PackersAbove
      <4>2. g >= 1
        BY DepthNat DEF IsPacker, Layer
      <4> QED
        BY <1>1, <3>1, <4>1, <4>2
    <3>4. Open(1) /\ Agree(out, 1) /\ writer[1] \in Live(1, MaxLayers + 1)
      BY <1>1, LevelWriters DEF Heads, Contexts
    <3>5. Plain(writer[1], 1)
      BY <1>1, <3>3, <3>4, NonePlain
    <3>6. Holds(DefaultErrorHandler(out, writer[1], Rendered), 0, <<<<"error", Rendered>>>>)
      BY <1>1, <1>3, <1>8, <3>1, <3>3, <3>4, <3>5, HoldsError
    <3>7. a.status = Rendered /\ Rendered # 0
      BY <1>3, <1>8, <3>1 DEF Sent
    <3>8. PICK n : n = failed.code
      OBVIOUS
    <3>9. Conveyed(<<<<"error", n>>>>)'
      BY <1>3, <1>5, <1>8, <3>2, <3>6, <3>8
    <3> QED
      BY <1>1, <1>6, <3>2, <3>7, <3>8, <3>9
  <2> QED
    BY <1>1, <1>2, <2>1, <2>2 DEF Carried
<1> QED
  BY <1>1, <1>7, <1>8

\* net/http aborts the response, or nothing happens.
LEMMA CarriedRest ==
  ASSUME Whole, Carried, Abort \/ UNCHANGED vars
  PROVE  Carried'
<1>1. CASE Abort
  <2>1. failed # None /\ failed' = failed /\ dir' = "aborted"
    BY <1>1, WholeFacts DEF Abort, Failing
  <2> QED
    BY <2>1 DEF Carried, Settled
<1>2. CASE UNCHANGED vars
  <2>1. /\ failed' = failed /\ chain' = chain /\ accepts' = accepts /\ saved' = saved
        /\ recovery' = recovery /\ chunks' = chunks /\ out' = out /\ at' = at
        /\ dir' = dir /\ err' = err
    BY <1>2 DEF vars, request
  <2>2. NoneBetween' = NoneBetween /\ Settled' = Settled /\ \A P : Conveyed(P)' = Conveyed(P)
    BY <2>1, FailingSame, PackerStep DEF Settled, Conveyed
  <2>3. PICK n : n = chunks
    OBVIOUS
  <2>4. failed = None => Conveyed(Chunks(n))'
    BY <2>2, <2>3 DEF Carried
  <2>5. failed = None => Conveyed(Chunks(chunks))'
    BY <2>1, <2>3, <2>4 DEF Conveyed, Chunks
  <2> QED
    BY <2>1, <2>2, <2>5 DEF Carried
<1> QED
  BY <1>1, <1>2

\* The request begins with nothing sent.
LEMMA CarriedInit ==
  ASSUME NoWrapper, Init
  PROVE  Carried
<1>1. IsBlank(out) /\ failed = None /\ chunks = 0
  BY DEF Init, IsBlank
<1>2. \A g : ~IsPacker(g)
  BY DEF Init, IsPacker, Entered
<1>3. Holds(out, at, <<>>)
  BY <1>1, <1>2, HoldsBlank
<1> QED
  BY <1>1, <1>3, ChunksStep DEF Carried, Conveyed

\* The invariant is kept by every step,
LEMMA CarriedStep == Whole /\ Single /\ Carried /\ [Next]_vars => Carried'
BY Moves, CarriedDescend, CarriedStay, CarriedAnswer, CarriedFail, CarriedUp,
   CarriedRecoverer, CarriedMount, CarriedFinish, CarriedRest DEF Whole

\* No step changes the chain.
LEMMA SingleSame == Whole /\ [Next]_vars => Single' = Single
<1> SUFFICES ASSUME Whole, [Next]_vars PROVE Single' = Single
  OBVIOUS
<1>1. chain' = chain /\ accepts' = accepts
  BY Moves DEF Whole, Descend, Stay, Answer, Fail, Back, Close, Leave, RecovererPanic,
     MountUp, Finish, Abort, vars, request
<1> QED
  BY <1>1, SameChain DEF Single

\* and so it holds always.
LEMMA CarriedHolds == NoWrapper => (Spec => [](Whole /\ (Single => Carried)))
<1> SUFFICES ASSUME NoWrapper PROVE Spec => [](Whole /\ (Single => Carried))
  OBVIOUS
<1>1. Init => Whole /\ (Single => Carried)
  BY StructureInit, HeadsInit, FailingInit, CarriedInit DEF Whole
<1>2. Whole /\ (Single => Carried) /\ [Next]_vars => (Whole /\ (Single => Carried))'
  <2> SUFFICES ASSUME Whole, Single => Carried, [Next]_vars
               PROVE  Whole' /\ (Single' => Carried')
    OBVIOUS
  <2>1. Whole'
    BY StructureStep, HeadsStep, FailingStep DEF Whole
  <2> QED
    BY <2>1, CarriedStep, SingleSame
<1> QED
  BY <1>1, <1>2, PTL DEF Spec

\* What the client makes of a payload that was conveyed to the end.
LEMMA ConveyedDecodes ==
  ASSUME Whole, dir = "done", NEW P, Conveyed(P)
  PROVE  IF out.status = 204 THEN out.body = <<>> /\ Decoded = <<>> ELSE Decoded = P
<1>1. at = 0
  BY WholeFacts DEF Structure, Control
<1>2. CASE \A i : ~IsPacker(i)
  <2>1. Flat(out, P)
    BY <1>2 DEF Conveyed, Holds
  <2> QED
    BY <2>1 DEF Flat, Decoded
<1>3. CASE \E g : IsPacker(g)
  <2>1. PICK g : IsPacker(g)
    BY <1>3
  <2>2. ~(at >= g)
    BY <1>1, <2>1, DepthNat DEF IsPacker, Layer
  <2>3. Closed(out, P)
    BY <2>1, <2>2 DEF Conveyed, Holds
  <2>4. CASE out.status = 204
    BY <2>3, <2>4 DEF Closed, Decoded
  <2>5. CASE out.status # 204
    <3>1. out.encoding = "gzip" /\ out.body = <<GzipHeader, <<"deflated", P>>>>
      BY <2>3, <2>5 DEF Closed
    <3>2. Len(out.body) = 2 /\ out.body[2] = <<"deflated", P>>
      BY <3>1
    <3>3. out.body[2][1] = "deflated" /\ out.body[2][2] = P
      BY <3>2
    <3> QED
      BY <2>5, <3>1, <3>2, <3>3 DEF Decoded
  <2> QED
    BY <2>4, <2>5
<1> QED
  BY <1>2, <1>3

\* When nothing fails, the client decodes the body with the Content-Encoding it
\* was told and gets what the handler wrote, in order, whatever layers, mounts
\* and adapted middleware there are, with one Compress among them at most.
THEOREM BodyIsDecoded == NoWrapper => (Spec => []BodyDecodes)
<1> SUFFICES ASSUME NoWrapper PROVE Spec => []BodyDecodes
  OBVIOUS
<1>1. Whole /\ (Single => Carried) => BodyDecodes
  <2> SUFFICES ASSUME Whole, Single => Carried, dir = "done", failed = None,
                      Cardinality(Compressing) <= 1
               PROVE  \/ out.status = 204 /\ out.body = <<>>
                      \/ out.status # 204 /\ Decoded = [i \in 1 .. chunks |-> <<"chunk", i>>]
    BY DEF BodyDecodes
  <2>1. Single
    BY WholeFacts, LoneSingle
  <2>2. Conveyed(Chunks(chunks))
    BY <2>1 DEF Carried
  <2>3. IF out.status = 204 THEN out.body = <<>> ELSE Decoded = Chunks(chunks)
    BY <2>2, ConveyedDecodes
  <2> QED
    BY <2>3 DEF Chunks
<1> QED
  BY <1>1, CarriedHolds, PTL

\* An error or panic that comes before anything was written is answered with its
\* status and a body the client can decode, unless a Compress lies between it
\* and the router whose runChain deals with it.
THEOREM FailureIsShown == NoWrapper => (Spec => []FailureReachesClient)
<1> SUFFICES ASSUME NoWrapper PROVE Spec => []FailureReachesClient
  OBVIOUS
<1>1. Whole /\ (Single => Carried) => FailureReachesClient
  <2> SUFFICES ASSUME Whole, Single => Carried, Answered, Cardinality(Compressing) <= 1,
                      \A i \in Compressing : ~(Boundary < i /\ i < failed.at)
               PROVE  FailureShown
    BY DEF FailureReachesClient
  <2>1. Single /\ NoneBetween /\ dir = "done" /\ failed # None /\ failed.recorded = 0
    BY WholeFacts, LoneSingle DEF NoneBetween, Answered
  <2>2. /\ out.status = failed.code
        /\ \E P \in {<<>>, <<<<"error", failed.code>>>>} : Conveyed(P)
    BY <2>1 DEF Carried, Settled
  <2>3. PICK P \in {<<>>, <<<<"error", failed.code>>>>} : Conveyed(P)
    BY <2>2
  <2>4. IF out.status = 204 THEN Decoded = <<>> ELSE Decoded = P
    BY <2>1, <2>3, ConveyedDecodes
  <2> QED
    BY <2>2, <2>3, <2>4 DEF FailureShown
<1> QED
  BY <1>1, CarriedHolds, PTL
=============================================================================
