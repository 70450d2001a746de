-------------------------- MODULE HandlerChainProofs --------------------------
(***************************************************************************)
(* Proofs about HandlerChain, for any number of requests and Contexts, any *)
(* chains and any bounds.                                                  *)
(***************************************************************************)
EXTENDS HandlerChain, SequenceTheorems, TLAPS

Reply == [code : Nat, body : Nat]
Wires == [Requests -> Reply]

-----------------------------------------------------------------------------
(* The response writer.                                                    *)

\* Body bytes counted by the writer are the ones sent, none when suppressed.
BodyCounted(x, c) == c.body = IF x.suppressBody THEN 0 ELSE x.size

\* What belongs to the request and the chain, not to the response.
SameRequest(x, y) ==
  /\ y.conn = x.conn /\ y.params = x.params /\ y.store = x.store
  /\ y.queryCache = x.queryCache /\ y.handlers = x.handlers
  /\ y.index = x.index /\ y.suppressBody = x.suppressBody

\* A sequence of writes by r took its Context from x to y and the wire from
\* w to v.
Wrote(r, x, w, y, v) ==
  /\ y \in Context /\ SameRequest(x, y)
  /\ v \in Wires /\ \A q \in Requests \ {r} : v[q] = w[q]
  /\ x.status = w[r].code => y.status = v[r].code
  /\ (Written(x) => w[r].code # noStatus) => (Written(y) => v[r].code # noStatus)
  /\ w[r].code # noStatus => v[r].code = w[r].code
  /\ BodyCounted(x, w[r]) => BodyCounted(y, v[r])

\* WriteHeader keeps the writer and the wire in step.
LEMMA HeaderWrites ==
  ASSUME NEW r \in Requests, NEW x \in Context, NEW w \in Wires,
         x.conn = r, NEW c \in Nat \ {0}
  PROVE  /\ Wrote(r, x, w, WriteHeader(x, c), SendHeader(w, x, c))
         /\ Written(WriteHeader(x, c))
<1>1. WriteHeader(x, c) \in Context /\ SameRequest(x, WriteHeader(x, c))
  BY DEF WriteHeader, Context, SameRequest
<1>2. /\ SendHeader(w, x, c) \in Wires
      /\ \A q \in Requests \ {r} : SendHeader(w, x, c)[q] = w[q]
      /\ SendHeader(w, x, c)[r].body = w[r].body
      /\ SendHeader(w, x, c)[r].code =
           IF Written(x) THEN w[r].code
           ELSE IF w[r].code = noStatus THEN c ELSE w[r].code
  BY DEF SendHeader, Wires, Reply
<1>3. /\ WriteHeader(x, c).status = IF Written(x) THEN x.status ELSE c
      /\ WriteHeader(x, c).size = x.size
      /\ WriteHeader(x, c).suppressBody = x.suppressBody
  BY DEF WriteHeader, Context
<1> QED
  BY <1>1, <1>2, <1>3 DEF Wrote, Written, noStatus, BodyCounted

\* So does Write, however much of the body the connection accepts.
LEMMA BodyWrites ==
  ASSUME NEW r \in Requests, NEW x \in Context, NEW w \in Wires,
         x.conn = r, NEW n \in Accepted
  PROVE  /\ Wrote(r, x, w, Write(x, n), SendBody(w, x, n))
         /\ Written(Write(x, n))
<1> DEFINE y == WriteHeader(x, StatusOK)
           v == SendHeader(w, x, StatusOK)
<1>1. Wrote(r, x, w, y, v) /\ Written(y) /\ n \in Nat
  BY HeaderWrites, NumbersAssumption DEF StatusOK
<1>2. y \in Context /\ y.conn = r /\ v \in Wires /\ x.suppressBody \in BOOLEAN
      /\ y.suppressBody = x.suppressBody
  BY <1>1 DEF Wrote, SameRequest, Context
<1> HIDE DEF y, v
<1>3. /\ Write(x, n) \in Context /\ SameRequest(y, Write(x, n))
      /\ Write(x, n).status = y.status
      /\ Write(x, n).size = y.size + IF x.suppressBody THEN 1 ELSE n
  <2> DEFINE u == IF x.suppressBody THEN 1 ELSE n
  <2>1. Write(x, n) = [y EXCEPT !.size = @ + u] /\ u \in Nat
    BY <1>1 DEF Write, y
  <2> HIDE DEF u
  <2>2. y.size \in Nat /\ y.size + u \in Nat
    BY <1>2, <2>1 DEF Context
  <2>3. Write(x, n) \in Context /\ Write(x, n).size = y.size + u
    BY <1>2, <2>1, <2>2 DEF Context
  <2>4. SameRequest(y, Write(x, n)) /\ Write(x, n).status = y.status
    BY <1>2, <2>1 DEF Context, SameRequest
  <2> QED
    BY <2>3, <2>4 DEF u
<1>4. /\ SendBody(w, x, n) \in Wires
      /\ \A q \in Requests \ {r} : SendBody(w, x, n)[q] = v[q]
      /\ SendBody(w, x, n)[r].code = v[r].code
      /\ SendBody(w, x, n)[r].body = v[r].body + IF x.suppressBody THEN 0 ELSE n
  BY <1>1, <1>2 DEF SendBody, Wires, Reply, v
<1>5. BodyCounted(y, v[r]) => BodyCounted(Write(x, n), SendBody(w, x, n)[r])
  BY <1>1, <1>2, <1>3, <1>4 DEF BodyCounted, SameRequest, Context, Wires, Reply
<1> QED
  BY <1>1, <1>3, <1>4, <1>5 DEF Wrote, SameRequest, Written

\* Writes compose.
LEMMA WritesCompose ==
  ASSUME NEW r, NEW x, NEW w, NEW y, NEW v, NEW z, NEW u,
         Wrote(r, x, w, y, v), Wrote(r, y, v, z, u)
  PROVE  Wrote(r, x, w, z, u)
BY DEF Wrote, SameRequest

-----------------------------------------------------------------------------
(* The call stack.                                                         *)

\* The frames below the running handler.
LEMMA PopFrames ==
  ASSUME NEW s \in Seq(Frame), s # <<>>
  PROVE  Pop(s) \in Seq(Frame) /\ Top(s) \in Frame
<1>1. Len(s) \in Nat /\ Len(s) # 0 /\ DOMAIN s = 1 .. Len(s)
  BY EmptySeq
<1>2. \A i \in 1 .. Len(s) - 1 : i \in 1 .. Len(s)
  BY <1>1
<1>3. SubSeq(s, 1, Len(s) - 1) \in Seq(Frame)
  BY <1>1, <1>2, SubSeqProperties
<1>4. s[Len(s)] \in Frame
  BY <1>1
<1> QED
  BY <1>3, <1>4 DEF Pop, Top

\* Frames stay frames when Next is called and when it returns.
LEMMA FrameChanges ==
  ASSUME NEW f \in Frame, NEW e \in Errors \cup {None}
  PROVE  /\ [f EXCEPT !.calls = @ + 1, !.got = None] \in Frame
         /\ [f EXCEPT !.got = e] \in Frame
<1>1. f.calls \in Nat /\ f.calls + 1 \in Nat
  BY DEF Frame
<1> QED
  BY <1>1 DEF Frame

\* The frame of a handler that has just been called.
LEMMA NewFrame ==
  ASSUME NEW p \in Nat \ {0}
  PROVE  Entered(p) \in Frame
BY DEF Entered, Frame

-----------------------------------------------------------------------------
(* The inductive invariant, one request at a time.                         *)

\* The answer a failed chain owes its client.
Answered(r) ==
  wire[r].code = IF early[r] # noStatus THEN early[r]
                 ELSE IF err[r] \in Codes THEN err[r]
                 ELSE InternalServerError

\* The Context r holds is its own and tells what the client got.
Mine(r) ==
  /\ cx(r).conn = r
  /\ cx(r).params \subseteq {r}
  /\ cx(r).store \subseteq {r}
  /\ cx(r).queryCache \in {r, None}
  /\ cx(r).suppressBody = autoHead[r]
  /\ ~flushed[r] => cx(r).status = wire[r].code
  /\ flushed[r] \/ Written(cx(r)) => wire[r].code # noStatus
  /\ BodyCounted(cx(r), wire[r])

\* Nothing has happened to a request that has not been served yet.
Fresh(r) ==
  /\ wire[r].code = noStatus /\ wire[r].body = 0
  /\ err[r] = None /\ started[r] = <<>>
  /\ ~aborted[r] /\ ~autoHead[r] /\ ~flushed[r]

\* The handlers started by a running chain are behind its index, and Abort
\* has put the index beyond the chain.
InChain(r) ==
  /\ stack[r] # <<>>
  /\ err[r] = None
  /\ cx(r).index >= 0
  /\ Len(cx(r).handlers) <= AbortIndex
  /\ \A i \in DOMAIN started[r] : /\ started[r][i] <= cx(r).index + 1
                                  /\ started[r][i] <= Len(cx(r).handlers)
  /\ aborted[r] => cx(r).index >= AbortIndex

Increasing(s) == \A i, j \in DOMAIN s : i < j => s[i] < s[j]

Good(r) ==
  /\ Holding(r) <=> pc[r] \in {"running", "failed", "finished"}
  /\ Holding(r) => Mine(r)
  /\ pc[r] = "idle" => Fresh(r)
  /\ pc[r] = "running" => InChain(r)
  /\ pc[r] = "failed" => err[r] # None /\ early[r] = wire[r].code
  /\ pc[r] \in {"finished", "done"} /\ err[r] # None => Answered(r)
  /\ Increasing(started[r])

IInv ==
  /\ TypeOK
  /\ ContextExclusive
  /\ \A r \in Requests : Good(r)

\* The invariant holds when the server starts.
LEMMA Initially == Init => IInv
<1> SUFFICES ASSUME Init PROVE IInv
  OBVIOUS
<1>1. NewContext \in Context
  BY DEF NewContext, Context, noStatus
<1>2. TypeOK
  <2>1. wire \in Wires
    BY DEF Init, Wires, Reply, noStatus
  <2>2. ctxs \in [Contexts -> Context]
    BY <1>1 DEF Init
  <2> QED
    BY <2>1, <2>2 DEF Init, TypeOK, noStatus, Wires, Reply
<1>3. ContextExclusive
  BY DEF Init, ContextExclusive, Holding
<1>4. ASSUME NEW r \in Requests PROVE Good(r)
  <2>1. Fresh(r)
    BY DEF Init, Fresh
  <2> QED
    BY <2>1 DEF Init, Good, Holding, Increasing
<1> QED
  BY <1>2, <1>3, <1>4 DEF IInv

\* Nothing that belongs to another request than r changes.
Elsewhere(r) ==
  \A q \in Requests \ {r} :
    /\ pc'[q] = pc[q] /\ ctx'[q] = ctx[q] /\ stack'[q] = stack[q]
    /\ err'[q] = err[q] /\ wire'[q] = wire[q]
    /\ autoHead'[q] = autoHead[q] /\ started'[q] = started[q]
    /\ aborted'[q] = aborted[q] /\ flushed'[q] = flushed[q]
    /\ early'[q] = early[q]

\* A step of r that leaves the Contexts of the others alone, in memory and
\* in the pool.
StepOf(r) ==
  /\ Elsewhere(r)
  /\ \A q \in Requests \ {r} : ctx[q] # None =>
       /\ ctxs'[ctx[q]] = ctxs[ctx[q]]
       /\ ctx[q] \notin pool'
       /\ ctx[q] # ctx'[r]
  /\ ctx'[r] # None => ctx'[r] \notin pool'

\* Such a step keeps the invariant if it keeps the part about r.
LEMMA StepKeepsOthers ==
  ASSUME IInv, NEW r \in Requests, StepOf(r), TypeOK', Good(r)'
  PROVE  IInv'
<1>0. ContextExclusive
  BY DEF IInv
<1>1. ContextExclusive'
  BY <1>0 DEF StepOf, Elsewhere, ContextExclusive, Holding
<1>2. ASSUME NEW q \in Requests \ {r} PROVE Good(q)'
  <2>0. Good(q)
    BY DEF IInv
  <2>1. CASE ctx[q] = None
    BY <2>0, <2>1, <1>2 DEF StepOf, Elsewhere, Good, Holding, Fresh, Answered
  <2>2. CASE ctx[q] # None
    <3>1. cx(q)' = cx(q)
      BY <2>2, <1>2 DEF StepOf, Elsewhere, cx
    <3> QED
      BY <2>0, <2>2, <1>2, <3>1
      DEF StepOf, Elsewhere, Good, Holding, Fresh, Answered, Mine, InChain
  <2> QED
    BY <2>1, <2>2
<1> QED
  BY <1>1, <1>2 DEF IInv

\* What a running handler can rely on.
LEMMA InHandler ==
  ASSUME IInv, NEW r \in Requests, Running(r)
  PROVE  /\ ctx[r] \in Contexts /\ ctx[r] # None /\ Holding(r)
         /\ cx(r) \in Context /\ wire \in Wires
         /\ Mine(r) /\ InChain(r) /\ Good(r)
<1>1. Good(r) /\ TypeOK
  BY DEF IInv
<1>2. Holding(r)
  BY <1>1 DEF Good, Running
<1>3. ctx[r] \in Contexts /\ ctx[r] # None
  BY <1>1, <1>2 DEF TypeOK, Holding
<1>4. cx(r) \in Context /\ wire \in Wires
  BY <1>1, <1>3 DEF TypeOK, cx, Wires, Reply
<1> QED
  BY <1>1, <1>2, <1>3, <1>4 DEF Good, Running

\* A step of r that writes the Context it holds and keeps it.
LEMMA InPlace ==
  ASSUME IInv, NEW r \in Requests, ctx[r] \in Contexts, ctx[r] # None,
         NEW y \in Context, SetContext(r, y), UNCHANGED <<pool, ctx>>,
         Elsewhere(r)
  PROVE  StepOf(r) /\ ctxs' \in [Contexts -> Context] /\ cx(r)' = y
<1>1. TypeOK /\ ContextExclusive
  BY DEF IInv
<1>2. ctxs' \in [Contexts -> Context] /\ ctxs'[ctx[r]] = y
  BY <1>1 DEF TypeOK, SetContext
<1>3. cx(r)' = y
  BY <1>2 DEF cx
<1>4. \A q \in Requests \ {r} : ctx[q] # None =>
        ctx[q] # ctx[r] /\ ctx[q] \notin pool /\ ctx[q] \in Contexts
  BY <1>1 DEF ContextExclusive, Holding, TypeOK
<1>5. \A q \in Requests \ {r} : ctx[q] # None => ctxs'[ctx[q]] = ctxs[ctx[q]]
  BY <1>1, <1>4 DEF TypeOK, SetContext
<1>6. ctx[r] \notin pool
  BY <1>1 DEF ContextExclusive, Holding
<1> QED
  BY <1>2, <1>3, <1>4, <1>5, <1>6 DEF StepOf

\* Handlers that only write keep the invariant.
LEMMA RespondingKeeps ==
  ASSUME IInv, NEW r \in Requests, Running(r), NEW y, NEW v,
         Wrote(r, cx(r), wire, y, v), Responding(r, y, v)
  PROVE  IInv'
<1>1. /\ ctx[r] \in Contexts /\ ctx[r] # None /\ Holding(r)
      /\ cx(r) \in Context /\ wire \in Wires
      /\ Mine(r) /\ InChain(r) /\ Good(r) /\ TypeOK
  BY InHandler DEF IInv
<1>2. /\ SetContext(r, y) /\ wire' = v /\ UNCHANGED <<pool, ctx>>
      /\ UNCHANGED <<recovery, pc, stack, err, history>>
      /\ y \in Context /\ v \in Wires
  BY DEF Responding, Wrote
<1>3. Elsewhere(r)
  BY <1>2 DEF Elsewhere, Wrote, history
<1>4. StepOf(r) /\ ctxs' \in [Contexts -> Context] /\ cx(r)' = y
  BY <1>1, <1>2, <1>3, InPlace
<1>5. TypeOK'
  BY <1>1, <1>2, <1>4 DEF TypeOK, history, Wires, Reply
<1>6. Mine(r)'
  BY <1>1, <1>2, <1>4 DEF Mine, Wrote, SameRequest, history
<1>7. InChain(r)'
  BY <1>1, <1>2, <1>4 DEF InChain, Wrote, SameRequest, history
<1>8. Good(r)'
  BY <1>1, <1>2, <1>6, <1>7 DEF Good, Running, Holding, history
<1> QED
  BY <1>4, <1>5, <1>8, StepKeepsOthers

\* A status and then a body, as JSON, Redirect and the error handler do.
LEMMA StatusThenBody ==
  ASSUME NEW r \in Requests, NEW x \in Context, NEW w \in Wires,
         x.conn = r, NEW c \in Nat \ {0}, NEW n \in Accepted
  PROVE  LET y == WriteHeader(x, c)
             v == SendHeader(w, x, c)
         IN  /\ Wrote(r, x, w, Write(y, n), SendBody(v, y, n))
             /\ Written(Write(y, n))
<1> DEFINE y == WriteHeader(x, c)
           v == SendHeader(w, x, c)
<1>1. Wrote(r, x, w, y, v)
  BY HeaderWrites
<1>2. y \in Context /\ v \in Wires /\ y.conn = r
  BY <1>1 DEF Wrote, SameRequest
<1> HIDE DEF y, v
<1>3. Wrote(r, y, v, Write(y, n), SendBody(v, y, n)) /\ Written(Write(y, n))
  BY <1>2, BodyWrites
<1>4. Wrote(r, x, w, Write(y, n), SendBody(v, y, n))
  BY <1>1, <1>3, WritesCompose
<1> QED
  BY <1>3, <1>4 DEF y, v

\* The header net/http adds is none once there is one.
LEMMA NoImplicitHeader ==
  ASSUME NEW r \in Requests, NEW w \in Wires, w[r].code # noStatus
  PROVE  ImplicitHeader(w, r) = w
<1>1. [w[r] EXCEPT !.code = w[r].code] = w[r]
  BY DEF Wires, Reply
<1>2. ImplicitHeader(w, r) = [w EXCEPT ![r] = w[r]]
  BY <1>1 DEF ImplicitHeader
<1> QED
  BY <1>2 DEF Wires

\* Status, Write, the body helpers, Redirect and SSEvent keep the invariant.
LEMMA WritingKeeps ==
  ASSUME IInv, NEW r \in Requests,
         \/ \E c \in Codes : Status(r, c)
         \/ \E n \in Accepted : WriteBody(r, n)
         \/ \E c \in Codes, n \in Accepted : Respond(r, c, n)
         \/ \E get \in BOOLEAN, n \in Accepted : Redirect(r, get, n)
         \/ \E n \in Accepted : SSEvent(r, n)
  PROVE  IInv'
<1>0. Running(r)
  BY DEF Status, WriteBody, Respond, Redirect, SSEvent, UserCode
<1>1. /\ cx(r) \in Context /\ wire \in Wires /\ cx(r).conn = r /\ Mine(r)
      /\ \A c \in Codes : c \in Nat \ {0}
      /\ StatusOK \in Nat \ {0} /\ MovedPermanently \in Nat \ {0}
  BY <1>0, InHandler, NumbersAssumption DEF Mine, StatusOK, MovedPermanently
<1>2. ASSUME NEW c \in Codes, Status(r, c) PROVE IInv'
  <2>1. Wrote(r, cx(r), wire, WriteHeader(cx(r), c), SendHeader(wire, cx(r), c))
    BY <1>1, HeaderWrites
  <2> QED
    BY <1>0, <1>2, <2>1, RespondingKeeps DEF Status
<1>3. ASSUME NEW n \in Accepted, WriteBody(r, n) PROVE IInv'
  <2>1. Wrote(r, cx(r), wire, Write(cx(r), n), SendBody(wire, cx(r), n))
    BY <1>1, BodyWrites
  <2> QED
    BY <1>0, <1>3, <2>1, RespondingKeeps DEF WriteBody
<1>4. ASSUME NEW c \in Codes, NEW n \in Accepted, Respond(r, c, n) PROVE IInv'
  <2> DEFINE y == WriteHeader(cx(r), c)
             v == SendHeader(wire, cx(r), c)
  <2>1. Wrote(r, cx(r), wire, Write(y, n), SendBody(v, y, n))
    BY <1>1, StatusThenBody
  <2>2. Responding(r, Write(y, n), SendBody(v, y, n))
    BY <1>4 DEF Respond
  <2> HIDE DEF y, v
  <2> QED
    BY <1>0, <2>1, <2>2, RespondingKeeps
<1>5. ASSUME NEW get \in BOOLEAN, NEW n \in Accepted, Redirect(r, get, n)
      PROVE  IInv'
  <2> DEFINE y == WriteHeader(cx(r), MovedPermanently)
             v == SendHeader(wire, cx(r), MovedPermanently)
  <2>1. Wrote(r, cx(r), wire, Write(y, n), SendBody(v, y, n))
    BY <1>1, StatusThenBody
  <2>2. Wrote(r, cx(r), wire, y, v)
    BY <1>1, HeaderWrites
  <2>3. Responding(r, Write(y, n), SendBody(v, y, n)) \/ Responding(r, y, v)
    BY <1>5 DEF Redirect
  <2> HIDE DEF y, v
  <2> QED
    BY <1>0, <2>1, <2>2, <2>3, RespondingKeeps
<1>6. ASSUME NEW n \in Accepted, SSEvent(r, n) PROVE IInv'
  <2> DEFINE y == WriteHeader(cx(r), StatusOK)
             v == SendHeader(wire, cx(r), StatusOK)
             u == SendBody(v, y, n)
  <2>1. Wrote(r, cx(r), wire, Write(y, n), u) /\ Written(Write(y, n))
    BY <1>1, StatusThenBody
  <2>2. y.conn = r
    BY <1>1, HeaderWrites DEF Wrote, SameRequest
  <2>3. Responding(r, Write(y, n), ImplicitHeader(u, y.conn))
    BY <1>6 DEF SSEvent
  <2> HIDE DEF y, v, u
  <2>4. u \in Wires /\ u[r].code # noStatus
    BY <1>1, <2>1 DEF Wrote, Mine
  <2>5. Responding(r, Write(y, n), u)
    BY <2>2, <2>3, <2>4, NoImplicitHeader
  <2> QED
    BY <1>0, <2>1, <2>5, RespondingKeeps
<1> QED
  BY <1>2, <1>3, <1>4, <1>5, <1>6

\* Storing a value and parsing the query leave only traces of r itself.
LEMMA StoringKeeps ==
  ASSUME IInv, NEW r \in Requests, Set(r) \/ Query(r)
  PROVE  IInv'
<1> DEFINE x == cx(r)
<1>1. PICK y : /\ Responding(r, y, wire)
               /\ \/ y = [x EXCEPT !.store = @ \cup {r}]
                  \/ y = [x EXCEPT !.queryCache = IF @ = None THEN r ELSE @]
  BY DEF Set, Query
<1>2. Running(r)
  BY DEF Set, Query, UserCode
<1>3. /\ ctx[r] \in Contexts /\ ctx[r] # None /\ Holding(r)
      /\ x \in Context /\ Mine(r) /\ InChain(r) /\ Good(r) /\ TypeOK
  BY <1>2, InHandler DEF IInv
<1>4. /\ y \in Context
      /\ y.conn = x.conn /\ y.params = x.params /\ y.handlers = x.handlers
      /\ y.index = x.index /\ y.suppressBody = x.suppressBody
      /\ y.status = x.status /\ y.size = x.size
      /\ y.store \subseteq x.store \cup {r}
      /\ y.queryCache \in {x.queryCache, r}
  BY <1>1, <1>3 DEF Context
<1>5. /\ SetContext(r, y) /\ UNCHANGED <<pool, ctx>>
      /\ UNCHANGED <<recovery, pc, stack, err, wire, history>>
  BY <1>1 DEF Responding
<1>6. Elsewhere(r)
  BY <1>5 DEF Elsewhere, history
<1>7. StepOf(r) /\ ctxs' \in [Contexts -> Context] /\ cx(r)' = y
  BY <1>3, <1>4, <1>5, <1>6, InPlace
<1>8. TypeOK'
  BY <1>3, <1>5, <1>7 DEF TypeOK, history
<1>9. Mine(r)' /\ InChain(r)'
  BY <1>3, <1>4, <1>5, <1>7
  DEF Mine, InChain, history, Written, BodyCounted
<1>10. Good(r)'
  BY <1>2, <1>3, <1>5, <1>9 DEF Good, Running, Holding, history
<1> QED
  BY <1>7, <1>8, <1>10, StepKeepsOthers

\* Aborting changes nothing but the index.
LEMMA AbortingContext ==
  ASSUME NEW y \in Context
  PROVE  /\ Aborting(y) \in Context /\ Aborting(y).index = AbortIndex
         /\ Aborting(y).status = y.status /\ Aborting(y).size = y.size
         /\ Aborting(y).suppressBody = y.suppressBody
         /\ Aborting(y).conn = y.conn /\ Aborting(y).params = y.params
         /\ Aborting(y).store = y.store /\ Aborting(y).handlers = y.handlers
         /\ Aborting(y).queryCache = y.queryCache
BY NumbersAssumption DEF Aborting, Context

\* Aborting puts the index beyond every handler that has started.
LEMMA AbortingChain ==
  ASSUME IInv, NEW r \in Requests, Running(r), NEW y, NEW v,
         Wrote(r, cx(r), wire, y, v),
         SetContext(r, Aborting(y)), wire' = v,
         aborted' = [aborted EXCEPT ![r] = TRUE],
         stack' \in [Requests -> Seq(Frame)], stack'[r] # <<>>,
         \A q \in Requests \ {r} : stack'[q] = stack[q],
         UNCHANGED <<recovery, pool, pc, ctx, err, autoHead, started, errored,
                     swallowed, flushed, early>>
  PROVE  IInv'
<1>1. /\ ctx[r] \in Contexts /\ ctx[r] # None /\ Holding(r)
      /\ cx(r) \in Context /\ wire \in Wires
      /\ Mine(r) /\ InChain(r) /\ Good(r) /\ TypeOK
  BY InHandler DEF IInv
<1>2. y \in Context /\ v \in Wires
  BY DEF Wrote
<1>3. /\ Aborting(y) \in Context /\ Aborting(y).index = AbortIndex
      /\ Aborting(y).status = y.status /\ Aborting(y).size = y.size
      /\ Aborting(y).suppressBody = y.suppressBody
      /\ Aborting(y).conn = y.conn /\ Aborting(y).params = y.params
      /\ Aborting(y).store = y.store /\ Aborting(y).handlers = y.handlers
      /\ Aborting(y).queryCache = y.queryCache
  BY <1>2, AbortingContext
<1>4. Elsewhere(r)
  BY <1>1 DEF Elsewhere, Wrote, TypeOK
<1>5. /\ StepOf(r) /\ ctxs' \in [Contexts -> Context] /\ cx(r)' = Aborting(y)
  BY <1>1, <1>3, <1>4, InPlace
<1>6. TypeOK'
  BY <1>1, <1>2, <1>5 DEF TypeOK, Wires, Reply
<1>7. Mine(r)'
  BY <1>1, <1>3, <1>5 DEF Mine, Wrote, SameRequest, Written, BodyCounted
<1>8. InChain(r)'
  <2>1. /\ AbortIndex \in Nat /\ cx(r).handlers \in Seq(Kinds)
        /\ Len(cx(r).handlers) \in Nat /\ started[r] \in Seq(Nat)
    BY <1>1, NumbersAssumption DEF Context, TypeOK
  <2>2. cx(r)'.handlers = cx(r).handlers /\ cx(r)'.index = AbortIndex
    BY <1>3, <1>5 DEF Wrote, SameRequest
  <2>3. \A i \in DOMAIN started[r] :
          started[r][i] \in Nat /\ started[r][i] <= AbortIndex + 1
    BY <1>1, <2>1 DEF InChain
  <2> QED
    BY <1>1, <2>1, <2>2, <2>3 DEF InChain
<1>9. Good(r)'
  BY <1>1, <1>7, <1>8 DEF Good, Running, Holding
<1> QED
  BY <1>5, <1>6, <1>9, StepKeepsOthers

\* No writing at all.
LEMMA WroteNothing ==
  ASSUME NEW r \in Requests, NEW x \in Context, NEW w \in Wires
  PROVE  Wrote(r, x, w, x, w)
BY DEF Wrote, SameRequest

\* Abort and AbortWithStatus keep the invariant.
LEMMA AbortKeeps ==
  ASSUME IInv, NEW r \in Requests,
         Abort(r) \/ \E c \in Codes : AbortWithStatus(r, c)
  PROVE  IInv'
<1>0. Running(r)
  BY DEF Abort, AbortWithStatus, UserCode
<1>1. /\ cx(r) \in Context /\ wire \in Wires /\ cx(r).conn = r
      /\ stack \in [Requests -> Seq(Frame)] /\ stack[r] # <<>>
      /\ \A c \in Codes : c \in Nat \ {0}
  BY <1>0, InHandler, NumbersAssumption DEF Mine, InChain, IInv, TypeOK
<1>2. CASE Abort(r)
  BY <1>0, <1>1, <1>2, WroteNothing, AbortingChain DEF Abort
<1>3. ASSUME NEW c \in Codes, AbortWithStatus(r, c) PROVE IInv'
  <2> DEFINE y == WriteHeader(cx(r), c)
             v == SendHeader(wire, cx(r), c)
  <2>1. Wrote(r, cx(r), wire, y, v)
    BY <1>1, HeaderWrites
  <2>2. /\ SetContext(r, Aborting(y)) /\ wire' = v
    <3>1. WriteHeader(Aborting(cx(r)), c) = Aborting(y)
      BY <1>1 DEF WriteHeader, Aborting, Written, Context
    <3> QED
      BY <1>3, <3>1 DEF AbortWithStatus
  <2> HIDE DEF y, v
  <2> QED
    BY <1>0, <1>1, <1>3, <2>1, <2>2, AbortingChain DEF AbortWithStatus
<1> QED
  BY <1>2, <1>3

\* Recoverer cuts the stack back to its own frame and aborts the chain.
LEMMA PanicRecovererKeeps ==
  ASSUME IInv, NEW r \in Requests, PanicRecoverer(r)
  PROVE  IInv'
<1>0. Running(r)
  BY DEF PanicRecoverer, UserCode
<1>1. /\ cx(r) \in Context /\ wire \in Wires /\ cx(r).conn = r
      /\ stack \in [Requests -> Seq(Frame)]
      /\ InternalServerError \in Nat \ {0}
  BY <1>0, InHandler DEF Mine, IInv, TypeOK, InternalServerError
<1> DEFINE y == WriteHeader(cx(r), InternalServerError)
           v == SendHeader(wire, cx(r), InternalServerError)
<1>2. Wrote(r, cx(r), wire, y, v)
  BY <1>1, HeaderWrites
<1>3. SetContext(r, Aborting(y)) /\ wire' = v
  BY DEF PanicRecoverer
<1> HIDE DEF y, v
<1>4. PICK k \in DOMAIN stack[r] :
        stack' = [stack EXCEPT ![r] =
                    Append(SubSeq(@, 1, k - 1), [@[k] EXCEPT !.got = None])]
  BY DEF PanicRecoverer, Recoverers
<1> DEFINE f == [stack[r][k] EXCEPT !.got = None]
           below == SubSeq(stack[r], 1, k - 1)
<1>5. f \in Frame
  <2>1. stack[r][k] \in Frame
    BY <1>1, <1>4
  <2>2. \A g \in Frame : [g EXCEPT !.got = None] \in Frame
    BY DEF Frame
  <2> QED
    BY <2>1, <2>2
<1>6. below \in Seq(Frame)
  <2>1. k \in 1 .. Len(stack[r]) /\ Len(stack[r]) \in Nat
    BY <1>1, <1>4
  <2>2. \A i \in 1 .. k - 1 : i \in 1 .. Len(stack[r])
    BY <2>1
  <2> QED
    BY <1>1, <2>1, <2>2, SubSeqProperties
<1>7. Append(below, f) \in Seq(Frame) /\ Append(below, f) # <<>>
  <2> HIDE DEF f, below
  <2> QED
    BY <1>5, <1>6, AppendProperties
<1>8. /\ stack' \in [Requests -> Seq(Frame)] /\ stack'[r] # <<>>
      /\ \A q \in Requests \ {r} : stack'[q] = stack[q]
  <2>1. stack' = [stack EXCEPT ![r] = Append(below, f)]
    BY <1>4
  <2> HIDE DEF f, below
  <2> QED
    BY <1>1, <1>7, <2>1
<1> QED
  BY <1>0, <1>2, <1>3, <1>8, AbortingChain DEF PanicRecoverer

\* A step that leaves every Context as it is writes none.
LEMMA Untouched ==
  ASSUME IInv, NEW r \in Requests, ctx[r] \in Contexts, UNCHANGED ctxs
  PROVE  SetContext(r, cx(r))
<1>1. ctxs \in [Contexts -> Context]
  BY DEF IInv, TypeOK
<1> QED
  BY <1>1 DEF SetContext, cx

\* A Flush keeps the invariant: what it sends behind the writer's back is
\* recorded in flushed.
LEMMA FlushKeeps ==
  ASSUME IInv, NEW r \in Requests, Flush(r)
  PROVE  IInv'
<1>0. Running(r)
  BY DEF Flush, UserCode
<1>1. /\ ctx[r] \in Contexts /\ ctx[r] # None /\ Holding(r)
      /\ cx(r) \in Context /\ wire \in Wires
      /\ Mine(r) /\ InChain(r) /\ Good(r) /\ TypeOK
  BY <1>0, InHandler DEF IInv
<1>2. /\ wire' = ImplicitHeader(wire, r)
      /\ flushed' = [flushed EXCEPT ![r] = @ \/ ~Written(cx(r))]
      /\ UNCHANGED <<recovery, ctxs, pool, pc, ctx, stack, err, autoHead,
                     started, aborted, errored, swallowed, early>>
  BY <1>1 DEF Flush, Mine
<1>3. /\ wire' \in Wires /\ \A q \in Requests \ {r} : wire'[q] = wire[q]
      /\ wire'[r].body = wire[r].body
      /\ wire'[r].code = IF wire[r].code = noStatus THEN StatusOK
                         ELSE wire[r].code
  BY <1>1, <1>2 DEF ImplicitHeader, Wires, Reply, StatusOK
<1>4. Elsewhere(r)
  BY <1>1, <1>2, <1>3 DEF Elsewhere, TypeOK
<1>5. StepOf(r) /\ cx(r)' = cx(r)
  BY <1>1, <1>2, <1>4, Untouched, InPlace
<1>6. /\ flushed' \in [Requests -> BOOLEAN]
      /\ flushed'[r] <=> (flushed[r] \/ ~Written(cx(r)))
  BY <1>1, <1>2 DEF TypeOK
<1>7. TypeOK'
  BY <1>1, <1>2, <1>3, <1>6 DEF TypeOK, Wires, Reply
<1>8. Mine(r)'
  BY <1>1, <1>2, <1>3, <1>5, <1>6
  DEF Mine, Written, BodyCounted, StatusOK, noStatus
<1>9. InChain(r)'
  BY <1>1, <1>2, <1>5 DEF InChain
<1>10. Good(r)'
  BY <1>0, <1>1, <1>2, <1>8, <1>9 DEF Good, Running, Holding
<1> QED
  BY <1>5, <1>7, <1>10, StepKeepsOthers

\* A panic that Router.recover stops becomes a failure to be answered.
LEMMA PanicRouterKeeps ==
  ASSUME IInv, NEW r \in Requests, PanicRouter(r)
  PROVE  IInv'
<1>0. Running(r)
  BY DEF PanicRouter, UserCode
<1>1. /\ ctx[r] \in Contexts /\ ctx[r] # None /\ Holding(r)
      /\ cx(r) \in Context /\ wire \in Wires
      /\ Mine(r) /\ InChain(r) /\ Good(r) /\ TypeOK
  BY <1>0, InHandler DEF IInv
<1>2. /\ stack' = [stack EXCEPT ![r] = <<>>]
      /\ pc' = [pc EXCEPT ![r] = "failed"]
      /\ err' = [err EXCEPT ![r] = OtherError]
      /\ early' = [early EXCEPT ![r] = wire[r].code]
      /\ UNCHANGED <<recovery, ctxs, pool, ctx, wire, autoHead, started,
                     aborted, errored, swallowed, flushed>>
  BY DEF PanicRouter
<1>3. Elsewhere(r)
  BY <1>1, <1>2 DEF Elsewhere, TypeOK
<1>4. StepOf(r) /\ cx(r)' = cx(r)
  BY <1>1, <1>2, <1>3, Untouched, InPlace
<1>5. TypeOK'
  BY <1>1, <1>2 DEF TypeOK, Errors, Wires, Reply
<1>6. Mine(r)'
  BY <1>1, <1>2, <1>4 DEF Mine
<1>7. /\ pc'[r] = "failed" /\ err'[r] # None /\ early'[r] = wire'[r].code
      /\ ctx'[r] # None /\ Increasing(started'[r])
  BY <1>1, <1>2, NoneAssumption DEF TypeOK, OtherError, Good
<1>8. Good(r)'
  BY <1>6, <1>7 DEF Good, Holding
<1> QED
  BY <1>4, <1>5, <1>8, StepKeepsOthers

\* A panic that leaves ServeHTTP takes its Context with it.
LEMMA PanicEscapesKeeps ==
  ASSUME IInv, NEW r \in Requests,
         \E abortHandler \in BOOLEAN : PanicEscapes(r, abortHandler)
  PROVE  IInv'
<1>0. Running(r)
  BY DEF PanicEscapes, UserCode
<1>1. ctx[r] \in Contexts /\ ctx[r] # None /\ Good(r) /\ TypeOK /\ InChain(r)
  BY <1>0, InHandler DEF IInv
<1>2. /\ stack' = [stack EXCEPT ![r] = <<>>]
      /\ pc' = [pc EXCEPT ![r] = "escaped"]
      /\ ctx' = [ctx EXCEPT ![r] = None]
      /\ SetContext(r, NewContext)
      /\ UNCHANGED <<recovery, pool, err, wire, history>>
  BY DEF PanicEscapes
<1>3. NewContext \in Context
  BY DEF NewContext, Context, noStatus
<1>4. TypeOK'
  BY <1>1, <1>2, <1>3 DEF TypeOK, SetContext, history
<1>5. StepOf(r)
  <2>1. Elsewhere(r) /\ ctx'[r] = None
    BY <1>1, <1>2 DEF Elsewhere, TypeOK, history
  <2>2. ASSUME NEW q \in Requests \ {r}, ctx[q] # None
        PROVE  /\ ctxs'[ctx[q]] = ctxs[ctx[q]]
               /\ ctx[q] \notin pool'
               /\ ctx[q] # ctx'[r]
    <3>1. ctx[q] # ctx[r] /\ ctx[q] \notin pool /\ ctx[q] \in Contexts
      BY <1>1, <2>2 DEF IInv, ContextExclusive, Holding, TypeOK
    <3> QED
      BY <1>1, <1>2, <2>1, <2>2, <3>1 DEF TypeOK, SetContext
  <2> QED
    BY <2>1, <2>2 DEF StepOf
<1>6. /\ pc'[r] = "escaped" /\ ctx'[r] = None /\ Increasing(started'[r])
  BY <1>1, <1>2 DEF TypeOK, Good, history
<1>7. Good(r)'
  BY <1>6 DEF Good, Holding
<1> QED
  BY <1>4, <1>5, <1>7, StepKeepsOthers

-----------------------------------------------------------------------------
(* The chain engine.                                                       *)

\* The loop in Next moves the index forward and nothing else.
Moved(x, y) ==
  /\ y \in Context /\ y.index \in {x.index, x.index + 1}
  /\ y.conn = x.conn /\ y.params = x.params /\ y.store = x.store
  /\ y.queryCache = x.queryCache /\ y.handlers = x.handlers
  /\ y.suppressBody = x.suppressBody
  /\ y.status = x.status /\ y.size = x.size

\* The loop leaves the index where it is or advances it by one.
LEMMA Moves ==
  ASSUME NEW x \in Context
  PROVE  /\ Moved(x, x)
         /\ Moved(x, [x EXCEPT !.index = @ + 1])
         /\ [x EXCEPT !.index = @ + 1].index = x.index + 1
<1>1. x.index \in Int /\ x.index + 1 \in Int
  BY DEF Context
<1> QED
  BY <1>1 DEF Context, Moved

\* The part of the state a move of the chain leaves alone.
ChainOnly(r) ==
  /\ UNCHANGED <<recovery, pool, ctx, wire, aborted, flushed>>
  /\ errored' \in [Requests -> BOOLEAN] /\ swallowed' \in [Requests -> BOOLEAN]

\* Moving the index does not touch what belongs to the request.
LEMMA MovedKeepsMine ==
  ASSUME NEW r \in Requests, Mine(r), NEW y, Moved(cx(r), y), cx(r)' = y,
         autoHead' = autoHead, ChainOnly(r)
  PROVE  Mine(r)'
BY DEF Mine, Moved, ChainOnly, Written, BodyCounted

\* Next returning, to a handler or to runChain, keeps the invariant.
LEMMA NextReturnsKeeps ==
  ASSUME IInv, NEW r \in Requests, Running(r), NEW y, Moved(cx(r), y),
         SetContext(r, y), ChainOnly(r),
         NEW callers \in Seq(Frame), NEW e \in Errors \cup {None},
         NextReturns(r, callers, e)
  PROVE  IInv'
<1>1. /\ ctx[r] \in Contexts /\ ctx[r] # None /\ Holding(r)
      /\ cx(r) \in Context /\ wire \in Wires
      /\ Mine(r) /\ InChain(r) /\ Good(r) /\ TypeOK /\ y \in Context
  BY InHandler DEF IInv, Moved
<1>2. autoHead' = autoHead /\ started' = started
  BY DEF NextReturns
<1>3. CASE callers = <<>>
  <2>1. /\ stack' = [stack EXCEPT ![r] = <<>>]
        /\ pc' = [pc EXCEPT ![r] = IF e = None THEN "finished" ELSE "failed"]
        /\ err' = [err EXCEPT ![r] = e]
        /\ early' = [early EXCEPT ![r] = wire[r].code]
    BY <1>3 DEF NextReturns
  <2>2. Elsewhere(r)
    BY <1>1, <1>2, <2>1 DEF Elsewhere, TypeOK, ChainOnly
  <2>3. StepOf(r) /\ ctxs' \in [Contexts -> Context] /\ cx(r)' = y
    BY <1>1, <2>2, InPlace DEF ChainOnly
  <2>4. TypeOK'
    BY <1>1, <1>2, <2>1, <2>3 DEF TypeOK, ChainOnly, Wires, Reply
  <2>5. Mine(r)'
    BY <1>1, <1>2, <2>3, MovedKeepsMine
  <2>6. /\ pc'[r] = IF e = None THEN "finished" ELSE "failed"
        /\ err'[r] = e /\ early'[r] = wire'[r].code
        /\ ctx'[r] # None /\ Increasing(started'[r])
    BY <1>1, <1>2, <2>1 DEF TypeOK, Good, ChainOnly
  <2>7. Good(r)'
    BY <2>5, <2>6 DEF Good, Holding
  <2> QED
    BY <2>3, <2>4, <2>7, StepKeepsOthers
<1>4. CASE callers # <<>>
  <2> DEFINE s == [callers EXCEPT ![Len(callers)].got = e]
  <2>1. /\ stack' = [stack EXCEPT ![r] = s]
        /\ UNCHANGED <<pc, err, early>>
    BY <1>4 DEF NextReturns
  <2>2. s \in Seq(Frame) /\ s # <<>>
    <3>1. Len(callers) \in 1 .. Len(callers) /\ callers[Len(callers)] \in Frame
      BY <1>4, EmptySeq
    <3>2. [callers[Len(callers)] EXCEPT !.got = e] \in Frame
      BY <3>1, FrameChanges
    <3>3. s = [callers EXCEPT ![Len(callers)] =
                 [callers[Len(callers)] EXCEPT !.got = e]]
      OBVIOUS
    <3>4. s \in Seq(Frame) /\ Len(s) = Len(callers)
      BY <3>1, <3>2, <3>3, ExceptSeq
    <3> QED
      BY <1>4, <3>4, EmptySeq
  <2> HIDE DEF s
  <2>3. Elsewhere(r)
    BY <1>1, <1>2, <2>1 DEF Elsewhere, TypeOK, ChainOnly
  <2>4. StepOf(r) /\ ctxs' \in [Contexts -> Context] /\ cx(r)' = y
    BY <1>1, <2>3, InPlace DEF ChainOnly
  <2>5. TypeOK'
    BY <1>1, <1>2, <2>1, <2>2, <2>4 DEF TypeOK, ChainOnly
  <2>6. Mine(r)'
    BY <1>1, <1>2, <2>4, MovedKeepsMine
  <2>7. InChain(r)'
    <3>1. /\ y.index \in Int /\ cx(r).index \in Int /\ y.index >= cx(r).index
          /\ y.handlers = cx(r).handlers /\ AbortIndex \in Nat
          /\ stack'[r] # <<>> /\ started[r] \in Seq(Nat)
      BY <1>1, <2>1, <2>2, NumbersAssumption DEF Moved, Context, TypeOK
    <3>2. \A i \in DOMAIN started[r] : started[r][i] \in Nat
      BY <3>1
    <3>3. Len(y.handlers) = Len(cx(r).handlers)
      BY <3>1
    <3>4. /\ started' = started /\ err' = err /\ aborted' = aborted
          /\ cx(r)' = y /\ InChain(r)
      BY <1>1, <1>2, <2>1, <2>4 DEF ChainOnly
    <3>5. \A i \in DOMAIN started[r] : /\ started[r][i] <= y.index + 1
                                       /\ started[r][i] <= Len(y.handlers)
      BY <3>1, <3>2, <3>3, <3>4 DEF InChain
    <3>6. /\ y.index >= 0 /\ Len(y.handlers) <= AbortIndex
          /\ aborted[r] => y.index >= AbortIndex
      BY <3>1, <3>3, <3>4 DEF InChain
    <3> QED
      BY <3>1, <3>4, <3>5, <3>6 DEF InChain
  <2>8. Good(r)'
    BY <1>1, <1>2, <2>1, <2>6, <2>7 DEF Good, Running, Holding, ChainOnly
  <2> QED
    BY <2>4, <2>5, <2>8, StepKeepsOthers
<1> QED
  BY <1>3, <1>4

\* A position beyond every element of an increasing sequence extends it.
LEMMA IncreasingAppend ==
  ASSUME NEW s \in Seq(Nat), Increasing(s), NEW p \in Nat,
         \A i \in DOMAIN s : s[i] < p
  PROVE  /\ Append(s, p) \in Seq(Nat) /\ Increasing(Append(s, p))
         /\ \A i \in DOMAIN Append(s, p) : Append(s, p)[i] <= p
<1>1. /\ Append(s, p) \in Seq(Nat) /\ Len(s) \in Nat /\ DOMAIN s = 1 .. Len(s)
      /\ DOMAIN Append(s, p) = 1 .. Len(s) + 1
      /\ \A i \in 1 .. Len(s) : Append(s, p)[i] = s[i]
      /\ Append(s, p)[Len(s) + 1] = p
  BY AppendProperties
<1>2. \A i \in 1 .. Len(s) + 1 : i \in 1 .. Len(s) \/ i = Len(s) + 1
  BY <1>1
<1>3. \A i \in 1 .. Len(s) : s[i] \in Nat
  BY <1>1
<1>4. \A i \in 1 .. Len(s) + 1 : Append(s, p)[i] <= p
  BY <1>1, <1>2, <1>3
<1>5. ASSUME NEW i \in 1 .. Len(s) + 1, NEW j \in 1 .. Len(s) + 1, i < j
      PROVE  Append(s, p)[i] < Append(s, p)[j]
  <2>1. i \in 1 .. Len(s)
    BY <1>1, <1>5
  <2>2. CASE j \in 1 .. Len(s)
    BY <1>1, <1>5, <2>1, <2>2 DEF Increasing
  <2>3. CASE j = Len(s) + 1
    BY <1>1, <2>1, <2>3
  <2> QED
    BY <1>2, <1>5, <2>2, <2>3
<1> QED
  BY <1>1, <1>4, <1>5 DEF Increasing

\* The loop in Next keeps the invariant; it starts no handler of a chain that
\* has been aborted.
LEMMA LoopKeeps ==
  ASSUME IInv, NEW r \in Requests, Running(r),
         NEW callers \in Seq(Frame), ChainOnly(r),
         Loop(r, [cx(r) EXCEPT !.index = @ + 1], callers)
  PROVE  IInv' /\ (aborted[r] => started'[r] = started[r])
<1> DEFINE x == cx(r)
           y == [x EXCEPT !.index = @ + 1]
<1>1. /\ ctx[r] \in Contexts /\ ctx[r] # None /\ Holding(r)
      /\ x \in Context /\ wire \in Wires
      /\ Mine(r) /\ InChain(r) /\ Good(r) /\ TypeOK
  BY InHandler DEF IInv
<1>2. Moved(x, y) /\ y.index = x.index + 1
  BY <1>1, Moves
<1>3. /\ x.index \in Nat /\ AbortIndex \in Nat /\ y \in Context
      /\ y.handlers = x.handlers /\ Len(x.handlers) \in Nat
      /\ Len(x.handlers) <= AbortIndex /\ started[r] \in Seq(Nat)
      /\ y.index = x.index + 1
      /\ \A i \in DOMAIN started[r] : started[r][i] <= x.index + 1
      /\ \A i \in DOMAIN started[r] : started[r][i] <= Len(x.handlers)
  <2> HIDE DEF y
  <2>1. y \in Context /\ y.handlers = x.handlers
    BY <1>2 DEF Moved
  <2>2. x.index \in Int /\ x.handlers \in Seq(Kinds) /\ started[r] \in Seq(Nat)
    BY <1>1 DEF Context, TypeOK
  <2> QED
    BY <1>1, <1>2, <2>1, <2>2, NumbersAssumption DEF InChain
<1>4. SetContext(r, y) /\ Loop(r, y, callers)
  BY DEF Loop
<1> HIDE DEF y
<1>5. CASE y.index < Len(y.handlers)
  <2> DEFINE p == y.index + 1
             s == Append(callers, Entered(p))
             t == Append(started[r], p)
  <2>1. /\ stack' = [stack EXCEPT ![r] = s]
        /\ started' = [started EXCEPT ![r] = t]
        /\ UNCHANGED <<pc, err, autoHead, early>>
    BY <1>1, <1>4, <1>5 DEF Loop, TypeOK
  <2>2. p \in Nat \ {0} /\ p = x.index + 2 /\ p <= Len(x.handlers)
    BY <1>3, <1>5
  <2>3. s \in Seq(Frame) /\ s # <<>>
    <3>1. Entered(p) \in Frame
      BY <2>2, NewFrame
    <3> QED
      BY <3>1, AppendProperties
  <2>4. /\ t \in Seq(Nat) /\ Increasing(t) /\ \A i \in DOMAIN t : t[i] <= p
    <3>1. \A i \in DOMAIN started[r] : started[r][i] \in Nat
      BY <1>3
    <3>2. \A i \in DOMAIN started[r] : started[r][i] < p
      BY <1>3, <2>2, <3>1
    <3> HIDE DEF p
    <3> QED
      BY <1>1, <1>3, <2>2, <3>2, IncreasingAppend DEF Good
  <2> HIDE DEF s, t
  <2>5. Elsewhere(r)
    BY <1>1, <2>1 DEF Elsewhere, TypeOK, ChainOnly
  <2>6. StepOf(r) /\ ctxs' \in [Contexts -> Context] /\ cx(r)' = y
    BY <1>1, <1>3, <1>4, <2>5, InPlace DEF ChainOnly
  <2>7. TypeOK'
    BY <1>1, <2>1, <2>3, <2>4, <2>6 DEF TypeOK, ChainOnly
  <2>8. Mine(r)'
    BY <1>1, <1>2, <2>1, <2>6, MovedKeepsMine
  <2>9. ~aborted[r]
    BY <1>1, <1>3, <2>2 DEF InChain
  <2>10. stack'[r] = s /\ started'[r] = t
    BY <1>1, <2>1 DEF TypeOK
  <2>11. InChain(r)'
    <3>1. \A i \in DOMAIN t : t[i] \in Nat
      BY <2>4
    <3>2. \A i \in DOMAIN t : t[i] <= y.index + 1 /\ t[i] <= Len(y.handlers)
      BY <1>3, <2>2, <2>4, <3>1
    <3>3. aborted' = aborted
      BY DEF ChainOnly
    <3> QED
      BY <1>1, <1>3, <2>1, <2>3, <2>6, <2>9, <2>10, <3>2, <3>3 DEF InChain
  <2>12. Good(r)'
    BY <1>1, <2>1, <2>4, <2>8, <2>10, <2>11
    DEF Good, Running, Holding, ChainOnly
  <2> QED
    BY <2>6, <2>7, <2>9, <2>12, StepKeepsOthers
<1>6. CASE ~(y.index < Len(y.handlers))
  <2>1. NextReturns(r, callers, None)
    BY <1>4, <1>6 DEF Loop
  <2>2. IInv'
    BY <1>2, <1>4, <2>1, NextReturnsKeeps
  <2> QED
    BY <2>1, <2>2 DEF NextReturns
<1> QED
  BY <1>5, <1>6

\* Calling Next and returning from a handler keep the invariant, and start no
\* handler of a chain that has been aborted.
LEMMA ChainStepKeeps ==
  ASSUME IInv, NEW r \in Requests,
         Next_(r) \/ ReturnNil(r) \/ \E e \in Errors : ReturnError(r, e)
  PROVE  IInv' /\ (aborted[r] => started'[r] = started[r])
<1>0. Running(r)
  BY DEF Next_, ReturnNil, ReturnError
<1> DEFINE f == Top(stack[r])
           up == Append(Pop(stack[r]), [f EXCEPT !.calls = @ + 1, !.got = None])
<1>1. /\ ctx[r] \in Contexts /\ cx(r) \in Context /\ TypeOK
      /\ stack[r] \in Seq(Frame) /\ stack[r] # <<>>
  BY <1>0, InHandler DEF InChain, IInv, TypeOK
<1>2. Pop(stack[r]) \in Seq(Frame) /\ f \in Frame
  BY <1>1, PopFrames
<1>3. up \in Seq(Frame)
  <2>1. [f EXCEPT !.calls = @ + 1, !.got = None] \in Frame
    BY <1>2, FrameChanges
  <2> HIDE DEF f
  <2> QED
    BY <1>2, <2>1, AppendProperties
<1> HIDE DEF up, f
<1>4. CASE Next_(r)
  <2>1. Loop(r, [cx(r) EXCEPT !.index = @ + 1], up)
    BY <1>4 DEF Next_, up, f
  <2>2. ChainOnly(r)
    BY <1>1, <1>4 DEF Next_, ChainOnly, TypeOK
  <2> QED
    BY <1>0, <1>3, <2>1, <2>2, LoopKeeps
<1>5. CASE ReturnNil(r)
  <2>1. Loop(r, [cx(r) EXCEPT !.index = @ + 1], Pop(stack[r]))
    BY <1>5 DEF ReturnNil
  <2>2. ChainOnly(r)
    BY <1>1, <1>5 DEF ReturnNil, ChainOnly, TypeOK
  <2> QED
    BY <1>0, <1>2, <2>1, <2>2, LoopKeeps
<1>6. ASSUME NEW e \in Errors, ReturnError(r, e)
      PROVE  IInv' /\ (aborted[r] => started'[r] = started[r])
  <2>1. NextReturns(r, Pop(stack[r]), e) /\ ctxs' = ctxs
    BY <1>6 DEF ReturnError
  <2>2. ChainOnly(r)
    BY <1>1, <1>6 DEF ReturnError, ChainOnly, TypeOK
  <2>3. SetContext(r, cx(r)) /\ Moved(cx(r), cx(r))
    BY <1>1, <2>1, Untouched, Moves
  <2>4. IInv'
    BY <1>0, <1>2, <1>6, <2>1, <2>2, <2>3, NextReturnsKeeps
  <2> QED
    BY <2>1, <2>4 DEF NextReturns
<1> QED
  BY <1>4, <1>5, <1>6

-----------------------------------------------------------------------------
(* ServeHTTP.                                                              *)

\* A Context that was reset carries nothing but the connection.
LEMMA ResetContext ==
  ASSUME NEW r \in Requests, NEW x \in Context
  PROVE  /\ Reset(x, r) \in Context
         /\ Reset(x, r).conn = r /\ Reset(x, r).params = {}
         /\ Reset(x, r).store = {} /\ Reset(x, r).queryCache = None
         /\ Reset(x, r).status = noStatus /\ Reset(x, r).size = 0
         /\ Reset(x, r).suppressBody = FALSE
<1>1. ResetWriter(x, r) \in Context
  BY DEF ResetWriter, Context, noStatus
<1>2. /\ ResetWriter(x, r).conn = r /\ ResetWriter(x, r).status = noStatus
      /\ ResetWriter(x, r).size = 0 /\ ResetWriter(x, r).suppressBody = FALSE
  BY DEF ResetWriter, Context
<1> DEFINE z == ResetWriter(x, r)
<1>3. Reset(x, r) = [z EXCEPT !.params = {}, !.handlers = <<>>, !.index = -1,
                              !.queryCache = None, !.store = {}]
  BY DEF Reset
<1> HIDE DEF z
<1>4. {} \in SUBSET Requests /\ <<>> \in Seq(Kinds) /\ -1 \in Int
  OBVIOUS
<1>5. z \in Context
  BY <1>1 DEF z
<1>6. Reset(x, r) \in Context
  BY <1>3, <1>4, <1>5 DEF Context
<1>7. /\ Reset(x, r).params = {} /\ Reset(x, r).store = {}
      /\ Reset(x, r).queryCache = None
      /\ Reset(x, r).conn = z.conn /\ Reset(x, r).status = z.status
      /\ Reset(x, r).size = z.size /\ Reset(x, r).suppressBody = z.suppressBody
  BY <1>3, <1>5 DEF Context
<1> QED
  BY <1>2, <1>6, <1>7 DEF z

\* The Context a request gets from the pool is in nobody's hands.
LEMMA PoolGetExclusive ==
  ASSUME IInv, NEW r \in Requests, NEW c \in Contexts,
         NEW x \in {ctxs[c], NewContext}, PoolGet(r, c, x),
         NEW y \in Context, ctxs' = [ctxs EXCEPT ![c] = y], Elsewhere(r)
  PROVE  /\ StepOf(r) /\ x \in Context
         /\ ctxs' \in [Contexts -> Context] /\ pool' \subseteq Contexts
         /\ ctx' \in [Requests -> Contexts \cup {None}]
         /\ ctx'[r] # None /\ cx(r)' = y
<1>1. TypeOK /\ ContextExclusive
  BY DEF IInv
<1>2. x \in Context
  <2>1. NewContext \in Context
    BY DEF NewContext, Context, noStatus
  <2> QED
    BY <1>1, <2>1 DEF TypeOK
<1>3. /\ ctxs' \in [Contexts -> Context] /\ pool' \subseteq Contexts
      /\ ctx' \in [Requests -> Contexts \cup {None}]
      /\ ctx'[r] = c /\ ctxs'[c] = y /\ c \notin pool' /\ c # None
  BY <1>1, NoneAssumption DEF TypeOK, PoolGet
<1>4. ASSUME NEW q \in Requests \ {r}, ctx[q] # None
      PROVE  /\ ctxs'[ctx[q]] = ctxs[ctx[q]]
             /\ ctx[q] \notin pool' /\ ctx[q] # c
  <2>1. ctx[q] \notin pool /\ ctx[q] \in Contexts
    BY <1>1, <1>4 DEF ContextExclusive, Holding, TypeOK
  <2>2. ctx[q] # c
    BY <1>4, <2>1 DEF PoolGet, Held
  <2> QED
    BY <1>1, <2>1, <2>2 DEF TypeOK, PoolGet
<1>5. StepOf(r)
  BY <1>3, <1>4 DEF StepOf
<1> QED
  BY <1>2, <1>3, <1>5 DEF cx

\* What ServeHTTP finds before it serves r.
LEMMA BeforeServing ==
  ASSUME IInv, NEW r \in Requests, pc[r] = "idle"
  PROVE  Fresh(r) /\ TypeOK /\ wire \in Wires
BY DEF IInv, Good, TypeOK, Wires, Reply

\* The trailing-slash redirect keeps the invariant.
LEMMA ServeRedirectKeeps ==
  ASSUME IInv, NEW r \in Requests, NEW get \in BOOLEAN, NEW n \in Accepted,
         ServeRedirect(r, get, n)
  PROVE  IInv'
<1> DEFINE to == IF get THEN MovedPermanently ELSE PermanentRedirect
<1>1. Fresh(r) /\ TypeOK /\ wire \in Wires /\ to \in Nat \ {0}
  BY BeforeServing DEF ServeRedirect, MovedPermanently, PermanentRedirect
<1> HIDE DEF to
<1>2. PICK c, x :
        /\ c \in Contexts /\ x \in {ctxs[c], NewContext}
        /\ PoolGet(r, c, x)
        /\ ctxs' = [ctxs EXCEPT ![c] =
             IF get THEN Write(WriteHeader(Reset(x, r), to), n)
             ELSE WriteHeader(Reset(x, r), to)]
        /\ wire' = IF get THEN SendBody(SendHeader(wire, Reset(x, r), to),
                                        WriteHeader(Reset(x, r), to), n)
                   ELSE SendHeader(wire, Reset(x, r), to)
  BY DEF ServeRedirect, to
<1>3. /\ pc' = [pc EXCEPT ![r] = "finished"]
      /\ UNCHANGED <<recovery, stack, err, history>>
  BY DEF ServeRedirect
<1>4. x \in Context
  <2>1. NewContext \in Context
    BY DEF NewContext, Context, noStatus
  <2> QED
    BY <1>1, <1>2, <2>1 DEF TypeOK
<1> DEFINE z == Reset(x, r)
<1>5. /\ z \in Context /\ z.conn = r /\ z.params = {} /\ z.store = {}
      /\ z.queryCache = None /\ z.status = noStatus /\ z.size = 0
      /\ z.suppressBody = FALSE
  BY <1>4, ResetContext
<1> HIDE DEF z
<1>6. PICK y : /\ ctxs' = [ctxs EXCEPT ![c] = y]
               /\ Wrote(r, z, wire, y, wire')
  <2>1. Wrote(r, z, wire, WriteHeader(z, to), SendHeader(wire, z, to))
    BY <1>1, <1>5, HeaderWrites
  <2>2. Wrote(r, z, wire, Write(WriteHeader(z, to), n),
              SendBody(SendHeader(wire, z, to), WriteHeader(z, to), n))
    BY <1>1, <1>5, StatusThenBody
  <2> QED
    BY <1>2, <2>1, <2>2 DEF z
<1>7. y \in Context /\ wire' \in Wires /\ ctx' = [ctx EXCEPT ![r] = c]
  BY <1>2, <1>6 DEF Wrote, PoolGet
<1>8. Elsewhere(r)
  BY <1>1, <1>3, <1>6, <1>7 DEF Elsewhere, Wrote, TypeOK, history
<1>9. /\ StepOf(r) /\ ctxs' \in [Contexts -> Context] /\ pool' \subseteq Contexts
      /\ ctx' \in [Requests -> Contexts \cup {None}]
      /\ ctx'[r] # None /\ cx(r)' = y
  <2>1. c \in Contexts /\ x \in {ctxs[c], NewContext} /\ PoolGet(r, c, x)
    BY <1>2
  <2>2. ctxs' = [ctxs EXCEPT ![c] = y] /\ y \in Context
    BY <1>6, <1>7
  <2> QED
    BY <1>8, <2>1, <2>2, PoolGetExclusive
<1>10. TypeOK'
  BY <1>1, <1>3, <1>7, <1>9 DEF TypeOK, history, Wires, Reply
<1>11. Mine(r)'
  <2>1. /\ y.conn = r /\ y.params = {} /\ y.store = {} /\ y.queryCache = None
        /\ y.suppressBody = FALSE
    BY <1>5, <1>6 DEF Wrote, SameRequest
  <2>2. /\ y.status = wire'[r].code
        /\ Written(y) => wire'[r].code # noStatus
        /\ BodyCounted(y, wire'[r])
    BY <1>1, <1>5, <1>6 DEF Wrote, Fresh, Written, BodyCounted
  <2>3. autoHead'[r] = FALSE /\ flushed'[r] = FALSE
    BY <1>1, <1>3 DEF Fresh, history, TypeOK
  <2> QED
    BY <1>9, <2>1, <2>2, <2>3 DEF Mine
<1>12. /\ pc'[r] = "finished" /\ err'[r] = None /\ Increasing(started'[r])
  BY <1>1, <1>3 DEF TypeOK, Fresh, history, Increasing
<1>13. Good(r)'
  BY <1>9, <1>11, <1>12 DEF Good, Holding
<1> QED
  BY <1>9, <1>10, <1>13, StepKeepsOthers

\* The Context a chain begins with.
Ready(y, z, ch, params, head) ==
  /\ y.params = params /\ y.handlers = ch /\ y.index = 0
  /\ y.suppressBody = head
  /\ y.conn = z.conn /\ y.store = z.store /\ y.queryCache = z.queryCache
  /\ y.status = z.status /\ y.size = z.size

\* runChain makes a reset Context ready for its chain.
LEMMA RunChainContext ==
  ASSUME NEW r \in Requests, NEW z \in Context, NEW ch \in Chains,
         NEW params \in {{}, {r}}, NEW head \in BOOLEAN, ~z.suppressBody
  PROVE  /\ RunChain(z, ch, params, head) \in Context
         /\ Ready(RunChain(z, ch, params, head), z, ch, params, head)
<1>1. RunChain(z, ch, params, head)
        = [z EXCEPT !.params = params, !.suppressBody = head,
                    !.handlers = ch, !.index = 0]
  <2>1. (z.suppressBody \/ head) = head
    OBVIOUS
  <2> QED
    BY <2>1 DEF RunChain
<1>2. params \in SUBSET Requests /\ ch \in Seq(Kinds) /\ 0 \in Int
  BY ChainsAssumption
<1> QED
  BY <1>1, <1>2 DEF Context, Ready

\* Starting a chain keeps the invariant.
LEMMA ServeChainKeeps ==
  ASSUME IInv, NEW r \in Requests, NEW ch \in Chains,
         NEW params \in {{}, {r}}, NEW head \in BOOLEAN,
         ServeChain(r, ch, params, head)
  PROVE  IInv' /\ ~aborted[r]
<1>1. Fresh(r) /\ TypeOK /\ wire \in Wires
  BY BeforeServing DEF ServeChain
<1>2. PICK c, x :
        /\ c \in Contexts /\ x \in {ctxs[c], NewContext}
        /\ PoolGet(r, c, x)
        /\ ctxs' = [ctxs EXCEPT ![c] =
                      RunChain(Reset(x, r), ch, params, head)]
  BY DEF ServeChain
<1>3. /\ pc' = [pc EXCEPT ![r] = "running"]
      /\ stack' = [stack EXCEPT ![r] = <<Entered(1)>>]
      /\ autoHead' = [autoHead EXCEPT ![r] = head]
      /\ started' = [started EXCEPT ![r] = <<1>>]
      /\ UNCHANGED <<recovery, err, wire, aborted, errored, swallowed,
                     flushed, early>>
  BY DEF ServeChain
<1>4. x \in Context
  <2>1. NewContext \in Context
    BY DEF NewContext, Context, noStatus
  <2> QED
    BY <1>1, <1>2, <2>1 DEF TypeOK
<1> DEFINE z == Reset(x, r)
           y == RunChain(z, ch, params, head)
<1>5. /\ z \in Context /\ z.conn = r /\ z.store = {} /\ z.queryCache = None
      /\ z.status = noStatus /\ z.size = 0 /\ ~z.suppressBody
  BY <1>4, ResetContext
<1>6. ctxs' = [ctxs EXCEPT ![c] = y]
  BY <1>2
<1> HIDE DEF z
<1>7. y \in Context /\ Ready(y, z, ch, params, head)
  <2>1. z \in Context /\ ~z.suppressBody
    BY <1>5
  <2> QED
    BY <2>1, RunChainContext, Zenon
<1> HIDE DEF y
<1>8. Elsewhere(r)
  BY <1>1, <1>2, <1>3 DEF Elsewhere, PoolGet, TypeOK
<1>9. /\ StepOf(r) /\ ctxs' \in [Contexts -> Context] /\ pool' \subseteq Contexts
      /\ ctx' \in [Requests -> Contexts \cup {None}]
      /\ ctx'[r] # None /\ cx(r)' = y
  <2>1. c \in Contexts /\ x \in {ctxs[c], NewContext} /\ PoolGet(r, c, x)
    BY <1>2
  <2>2. ctxs' = [ctxs EXCEPT ![c] = y] /\ y \in Context
    BY <1>6, <1>7
  <2> QED
    BY <1>8, <2>1, <2>2, PoolGetExclusive
<1>10. /\ pc'[r] = "running" /\ stack'[r] = <<Entered(1)>>
       /\ autoHead'[r] = head /\ started'[r] = <<1>>
  BY <1>1, <1>3 DEF TypeOK
<1>11. TypeOK'
  <2>1. <<Entered(1)>> \in Seq(Frame) /\ <<1>> \in Seq(Nat)
    BY NewFrame
  <2> QED
    BY <1>1, <1>3, <1>9, <2>1 DEF TypeOK
<1>12. Mine(r)'
  BY <1>1, <1>3, <1>5, <1>7, <1>9, <1>10
  DEF Mine, Ready, Fresh, Written, BodyCounted
<1>13. InChain(r)'
  <2>1. Len(ch) \in Nat /\ 1 <= Len(ch) /\ Len(ch) <= AbortIndex
    BY ChainsAssumption, NumbersAssumption
  <2>2. <<Entered(1)>> # <<>> /\ err'[r] = None /\ ~aborted'[r]
    BY <1>1, <1>3 DEF Fresh
  <2>3. \A i \in DOMAIN <<1>> : <<1>>[i] = 1
    OBVIOUS
  <2> QED
    BY <1>7, <1>9, <1>10, <2>1, <2>2, <2>3 DEF InChain, Ready
<1>14. Increasing(started'[r])
  BY <1>10 DEF Increasing
<1>15. Good(r)'
  BY <1>9, <1>10, <1>12, <1>13, <1>14 DEF Good, Holding
<1> QED
  BY <1>1, <1>9, <1>11, <1>15, StepKeepsOthers DEF Fresh

\* DefaultErrorHandler gives a failed chain the answer it owes.
LEMMA ErrorHandlerKeeps ==
  ASSUME IInv, NEW r \in Requests, NEW n \in Accepted,
         DefaultErrorHandler(r, n)
  PROVE  IInv'
<1>1. /\ Good(r) /\ TypeOK /\ pc[r] = "failed" /\ Holding(r) /\ Mine(r)
      /\ err[r] # None /\ early[r] = wire[r].code
  BY DEF IInv, Good, DefaultErrorHandler
<1>2. /\ ctx[r] \in Contexts /\ ctx[r] # None /\ cx(r) \in Context
      /\ wire \in Wires /\ cx(r).conn = r /\ err[r] \in Errors
  BY <1>1 DEF TypeOK, Holding, cx, Wires, Reply, Mine
<1> DEFINE c == ErrorStatus(err[r])
<1>3. /\ c \in Nat \ {0}
      /\ c = IF err[r] \in Codes THEN err[r] ELSE InternalServerError
  <2>1. 0 \notin Codes /\ (err[r] = 0 \/ err[r] \in Codes)
    BY <1>2, NumbersAssumption DEF Errors, OtherError
  <2>2. c = IF err[r] = 0 THEN InternalServerError ELSE err[r]
    BY DEF ErrorStatus, OtherError
  <2> HIDE DEF c
  <2>3. CASE err[r] = 0
    BY <2>1, <2>2, <2>3 DEF InternalServerError
  <2>4. CASE err[r] # 0
    BY <2>1, <2>2, <2>4, NumbersAssumption
  <2> QED
    BY <2>3, <2>4
<1> HIDE DEF c
<1>4. PICK y : /\ SetContext(r, y) /\ Wrote(r, cx(r), wire, y, wire')
               /\ wire'[r].code = IF early[r] # noStatus THEN early[r] ELSE c
  <2>1. CASE Written(cx(r))
    <3>1. ctxs' = ctxs /\ wire' = wire
      BY <2>1 DEF DefaultErrorHandler
    <3> QED
      BY <1>1, <1>2, <2>1, <3>1, Untouched, WroteNothing DEF Mine
  <2>2. CASE ~Written(cx(r))
    <3> DEFINE h == WriteHeader(cx(r), c)
               w == SendHeader(wire, cx(r), c)
    <3>1. SetContext(r, Write(h, n)) /\ wire' = SendBody(w, h, n)
      BY <2>2 DEF DefaultErrorHandler, c
    <3>2. /\ Wrote(r, cx(r), wire, Write(h, n), SendBody(w, h, n))
          /\ Wrote(r, cx(r), wire, h, w) /\ Written(h)
      BY <1>2, <1>3, StatusThenBody, HeaderWrites
    <3>3. w[r].code = IF early[r] # noStatus THEN early[r] ELSE c
      BY <1>1, <1>2, <2>2 DEF SendHeader, Wires, Reply
    <3> HIDE DEF h, w
    <3>4. SendBody(w, h, n)[r].code = w[r].code
      <4>1. h \in Context /\ h.conn = r /\ w \in Wires
        BY <1>2, <3>2 DEF Wrote, SameRequest
      <4>2. w[r].code # noStatus
        BY <1>3, <3>3 DEF noStatus
      <4> QED
        BY <4>1, <4>2, BodyWrites DEF Wrote
    <3> QED
      BY <3>1, <3>2, <3>3, <3>4
  <2> QED
    BY <2>1, <2>2
<1>5. /\ y \in Context /\ wire' \in Wires
      /\ pc' = [pc EXCEPT ![r] = "finished"]
      /\ UNCHANGED <<recovery, pool, ctx, stack, err, history>>
  BY <1>4 DEF Wrote, DefaultErrorHandler
<1>6. Elsewhere(r)
  BY <1>1, <1>4, <1>5 DEF Elsewhere, Wrote, history, TypeOK
<1>7. StepOf(r) /\ ctxs' \in [Contexts -> Context] /\ cx(r)' = y
  BY <1>2, <1>4, <1>5, <1>6, InPlace
<1>8. TypeOK'
  BY <1>1, <1>5, <1>7 DEF TypeOK, history, Wires, Reply
<1>9. Mine(r)'
  BY <1>1, <1>4, <1>5, <1>7 DEF Mine, Wrote, SameRequest, history
<1>10. Answered(r)'
  BY <1>3, <1>4, <1>5 DEF Answered, history
<1>11. pc'[r] = "finished" /\ ctx'[r] # None /\ Increasing(started'[r])
  BY <1>1, <1>2, <1>5 DEF TypeOK, Good, history
<1>12. Good(r)'
  BY <1>9, <1>10, <1>11 DEF Good, Holding
<1> QED
  BY <1>7, <1>8, <1>12, StepKeepsOthers

\* Putting a Context back keeps the invariant.
LEMMA PoolPutKeeps ==
  ASSUME IInv, NEW r \in Requests, PoolPut(r)
  PROVE  IInv'
<1>1. /\ Good(r) /\ TypeOK /\ pc[r] = "finished" /\ ctx[r] # None
      /\ ctx[r] \in Contexts /\ wire \in Wires
  BY DEF IInv, Good, PoolPut, Holding, TypeOK, Wires, Reply
<1>2. /\ pool' = pool \cup {ctx[r]} /\ ctx' = [ctx EXCEPT ![r] = None]
      /\ pc' = [pc EXCEPT ![r] = "done"] /\ wire' = ImplicitHeader(wire, r)
      /\ UNCHANGED <<recovery, ctxs, stack, err, history>>
  BY DEF PoolPut
<1>3. wire' \in Wires /\ \A q \in Requests \ {r} : wire'[q] = wire[q]
  BY <1>1, <1>2 DEF ImplicitHeader, Wires, Reply, StatusOK
<1>4. TypeOK'
  BY <1>1, <1>2, <1>3 DEF TypeOK, history, Wires, Reply
<1>5. StepOf(r)
  <2>1. Elsewhere(r) /\ ctx'[r] = None
    BY <1>1, <1>2, <1>3 DEF Elsewhere, TypeOK, history
  <2>2. ASSUME NEW q \in Requests \ {r}, ctx[q] # None
        PROVE  ctx[q] \notin pool' /\ ctx[q] # ctx'[r]
    <3>1. ctx[q] # ctx[r] /\ ctx[q] \notin pool
      BY <1>1, <2>2 DEF IInv, ContextExclusive, Holding
    <3> QED
      BY <1>2, <2>1, <2>2, <3>1
  <2> QED
    BY <1>2, <2>1, <2>2 DEF StepOf
<1>6. err[r] # None => Answered(r)'
  <2> SUFFICES ASSUME err[r] # None PROVE Answered(r)'
    OBVIOUS
  <2>1. Answered(r)
    BY <1>1 DEF Good
  <2>2. wire[r].code # noStatus
    BY <2>1, NumbersAssumption DEF Answered, InternalServerError, noStatus
  <2>3. wire' = wire
    BY <1>1, <1>2, <2>2, NoImplicitHeader
  <2> QED
    BY <1>2, <2>1, <2>3 DEF Answered, history
<1>7. pc'[r] = "done" /\ ctx'[r] = None /\ Increasing(started'[r])
  BY <1>1, <1>2 DEF TypeOK, Good, history
<1>8. Good(r)'
  BY <1>2, <1>6, <1>7 DEF Good, Holding
<1> QED
  BY <1>4, <1>5, <1>8, StepKeepsOthers

\* So does the garbage collector's emptying of the pool.
LEMMA EvictPoolKeeps ==
  ASSUME IInv, NEW c \in Contexts, EvictPool(c)
  PROVE  IInv'
<1>1. TypeOK /\ ContextExclusive /\ c \in pool
  BY DEF IInv, EvictPool
<1>2. /\ pool' = pool \ {c} /\ ctxs' = [ctxs EXCEPT ![c] = NewContext]
      /\ UNCHANGED <<recovery, pc, ctx, stack, err, wire, history>>
  BY DEF EvictPool
<1>3. NewContext \in Context
  BY DEF NewContext, Context, noStatus
<1>4. TypeOK'
  BY <1>1, <1>2, <1>3 DEF TypeOK, history
<1>5. ContextExclusive'
  BY <1>1, <1>2 DEF ContextExclusive, Holding
<1>6. ASSUME NEW q \in Requests PROVE Good(q)'
  <2>1. Good(q)
    BY DEF IInv
  <2>2. CASE ctx[q] = None
    BY <1>2, <2>1, <2>2 DEF Good, Holding, Fresh, Answered, history
  <2>3. CASE ctx[q] # None
    <3>1. ctx[q] # c /\ ctx[q] \in Contexts
      BY <1>1, <2>3 DEF ContextExclusive, Holding, TypeOK
    <3>2. cx(q)' = cx(q)
      BY <1>1, <1>2, <3>1 DEF cx, TypeOK
    <3> QED
      BY <1>2, <2>1, <2>3, <3>2
      DEF Good, Holding, Fresh, Answered, Mine, InChain, history
  <2> QED
    BY <2>2, <2>3
<1> QED
  BY <1>4, <1>5, <1>6 DEF IInv

\* Steps in which nothing happens.
LEMMA StutterKeeps ==
  ASSUME IInv, UNCHANGED vars
  PROVE  IInv'
<1>1. UNCHANGED <<recovery, ctxs, pool, pc, ctx, stack, err, wire, autoHead,
                  started, aborted, errored, swallowed, flushed, early>>
  BY DEF vars, code, history
<1>2. TypeOK' /\ ContextExclusive'
  BY <1>1 DEF IInv, TypeOK, ContextExclusive, Holding
<1>3. ASSUME NEW q \in Requests PROVE Good(q)'
  <2>1. Good(q) /\ cx(q)' = cx(q)
    BY <1>1 DEF IInv, cx
  <2> QED
    BY <1>1, <2>1 DEF Good, Holding, Fresh, Answered, Mine, InChain
<1> QED
  BY <1>2, <1>3 DEF IInv

-----------------------------------------------------------------------------
(* The theorems.                                                           *)

\* Every step keeps the invariant, and none starts a handler of a chain that
\* has been aborted.
LEMMA Step ==
  ASSUME IInv, [Next]_vars
  PROVE  IInv' /\ \A r \in Requests : aborted[r] => started'[r] = started[r]
<1> DEFINE Quiet == \A r \in Requests : aborted[r] => started'[r] = started[r]
<1>1. ASSUME NEW r \in Requests,
             (\E get \in BOOLEAN, n \in Accepted : ServeRedirect(r, get, n))
               \/ Call(r) \/ Panic(r) \/ PoolPut(r)
               \/ (\E n \in Accepted : DefaultErrorHandler(r, n))
      PROVE  IInv' /\ Quiet
  <2>1. IInv'
    BY <1>1, ServeRedirectKeeps, AbortKeeps, WritingKeeps, FlushKeeps,
       StoringKeeps, PanicRecovererKeeps, PanicRouterKeeps, PanicEscapesKeeps,
       ErrorHandlerKeeps, PoolPutKeeps
    DEF Call, Panic
  <2>2. started' = started
    BY <1>1
    DEF ServeRedirect, Call, Abort, AbortWithStatus, Status, WriteBody,
        Respond, Redirect, SSEvent, Flush, Set, Query, Responding, Panic,
        PanicRecoverer, PanicRouter, PanicEscapes, DefaultErrorHandler,
        PoolPut, history
  <2> QED
    BY <2>1, <2>2
<1>2. ASSUME NEW r \in Requests, Next_(r) \/ Return(r) PROVE IInv' /\ Quiet
  <2>1. IInv' /\ (aborted[r] => started'[r] = started[r])
    BY <1>2, ChainStepKeeps DEF Return
  <2>2. \A q \in Requests \ {r} : started'[q] = started[q]
    <3>1. started \in [Requests -> Seq(Nat)]
      BY DEF IInv, TypeOK
    <3> QED
      BY <1>2, <3>1
      DEF Next_, Return, ReturnNil, ReturnError, Loop, NextReturns
  <2> QED
    BY <2>1, <2>2
<1>3. ASSUME NEW r \in Requests, NEW ch \in Chains,
             NEW params \in {{}, {r}}, NEW head \in BOOLEAN,
             ServeChain(r, ch, params, head)
      PROVE  IInv' /\ Quiet
  <2>1. IInv' /\ ~aborted[r]
    BY <1>3, ServeChainKeeps
  <2>2. started \in [Requests -> Seq(Nat)]
    BY DEF IInv, TypeOK
  <2>3. \A q \in Requests \ {r} : started'[q] = started[q]
    BY <1>3, <2>2 DEF ServeChain
  <2> QED
    BY <2>1, <2>3
<1>4. ASSUME NEW c \in Contexts, EvictPool(c) PROVE IInv' /\ Quiet
  BY <1>4, EvictPoolKeeps DEF EvictPool, history
<1>5. ASSUME UNCHANGED vars PROVE IInv' /\ Quiet
  BY <1>5, StutterKeeps DEF vars, history
<1> HIDE DEF Quiet
<1>6. ASSUME NEW r \in Requests, Serve(r) PROVE IInv' /\ Quiet
  BY <1>1, <1>3, <1>6, Zenon DEF Serve
<1>7. ASSUME Next PROVE IInv' /\ Quiet
  BY <1>1, <1>2, <1>4, <1>6, <1>7 DEF Next
<1>8. IInv' /\ Quiet
  BY <1>5, <1>7
<1> QED
  BY <1>8 DEF Quiet

\* The invariant always holds.
LEMMA Invariance == Spec => []IInv
BY Initially, Step, PTL DEF Spec

\* The variables of the model keep their types.
THEOREM TypeCorrect == Spec => []TypeOK
<1>1. IInv => TypeOK
  BY DEF IInv
<1> QED
  BY <1>1, Invariance, PTL

\* A Context is never in two places: two requests, or a request and the pool.
THEOREM ContextsAreExclusive == Spec => []ContextExclusive
<1>1. IInv => ContextExclusive
  BY DEF IInv
<1> QED
  BY <1>1, Invariance, PTL

\* A request never sees what another one left in a recycled Context.
THEOREM RequestsAreIsolated == Spec => []Isolation
<1>1. IInv => Isolation
  BY DEF IInv, Good, Mine, Isolation
<1> QED
  BY <1>1, Invariance, PTL

\* The handlers of a chain start in order and at most once, for chains of any
\* length and any pattern of calls of Next.
THEOREM HandlersRunInOrder == Spec => []InOrder
<1>1. IInv => InOrder
  BY DEF IInv, Good, Increasing, InOrder
<1> QED
  BY <1>1, Invariance, PTL

\* No handler starts once Abort has been called.
THEOREM AbortIsFinal == Spec => AbortStopsChain
<1>1. IInv /\ [Next]_vars
        => [\A r \in Requests : aborted[r] => started'[r] = started[r]]_vars
  BY Step
<1> QED
  BY <1>1, Invariance, PTL DEF Spec, AbortStopsChain

\* A failed chain is answered with the status owed.
THEOREM FailuresAreAnswered == Spec => []FailureAnswered
<1>1. IInv => FailureAnswered
  BY DEF IInv, Good, Answered, FailureAnswered
<1> QED
  BY <1>1, Invariance, PTL

\* The writer's account of the response is what the client got.
THEOREM WriterIsTruthful == Spec => []WriterMatchesWire
<1>1. IInv => WriterMatchesWire
  BY DEF IInv, Good, Mine, BodyCounted, WriterMatchesWire
<1> QED
  BY <1>1, Invariance, PTL

-----------------------------------------------------------------------------
(* Errors.                                                                 *)

\* An error that nobody has dropped is in the hands of the running handler,
\* unless a Recoverer has aborted the chain since.
ErrorPending(r) ==
  /\ pc[r] = "idle" => ~errored[r]
  /\ pc[r] = "running" /\ errored[r] /\ ~swallowed[r] =>
       aborted[r] \/ Top(stack[r]).got # None

ErrorsPending == \A r \in Requests : ErrorPending(r)

\* A step that concerns r alone, as far as errors go.
ErrorsElsewhere(r) ==
  \A q \in Requests \ {r} :
    /\ pc'[q] = pc[q] /\ stack'[q] = stack[q] /\ aborted'[q] = aborted[q]
    /\ errored'[q] = errored[q] /\ swallowed'[q] = swallowed[q]

\* Such a step has to be looked at for r alone.
LEMMA ErrorsPendingOthers ==
  ASSUME ErrorsPending, NEW r \in Requests, ErrorsElsewhere(r), ErrorPending(r)'
  PROVE  ErrorsPending'
BY DEF ErrorsPending, ErrorsElsewhere, ErrorPending

\* Steps that end the chain of r, or leave it where it is.
LEMMA LeavingKeepsErrors ==
  ASSUME TypeOK, ErrorsPending, NEW r \in Requests,
         UNCHANGED <<errored, swallowed>>,
         \/ /\ UNCHANGED <<pc, stack>>
            /\ aborted' = aborted \/ aborted' = [aborted EXCEPT ![r] = TRUE]
         \/ /\ \E c \in {"finished", "failed", "escaped", "done"} :
                 pc' = [pc EXCEPT ![r] = c]
            /\ UNCHANGED aborted
            /\ stack' = stack \/ stack' = [stack EXCEPT ![r] = <<>>]
  PROVE  ErrorsPending'
<1>1. /\ pc \in [Requests -> {"idle", "running", "failed", "finished", "done",
                              "escaped"}]
      /\ stack \in [Requests -> Seq(Frame)] /\ aborted \in [Requests -> BOOLEAN]
      /\ ErrorPending(r)
  BY DEF TypeOK, ErrorsPending
<1>2. ErrorsElsewhere(r)
  BY <1>1 DEF ErrorsElsewhere
<1>3. ErrorPending(r)'
  <2>1. CASE /\ UNCHANGED <<pc, stack>>
             /\ aborted' = aborted \/ aborted' = [aborted EXCEPT ![r] = TRUE]
    <3>1. aborted[r] => aborted'[r]
      BY <1>1, <2>1
    <3> QED
      BY <1>1, <2>1, <3>1 DEF ErrorPending
  <2>2. CASE \E c \in {"finished", "failed", "escaped", "done"} :
               pc' = [pc EXCEPT ![r] = c]
    <3>1. pc'[r] # "idle" /\ pc'[r] # "running"
      BY <1>1, <2>2
    <3> QED
      BY <3>1 DEF ErrorPending
  <2> QED
    BY <2>1, <2>2
<1> QED
  BY <1>2, <1>3, ErrorsPendingOthers

\* The steps of the chain engine: an error is passed on, or dropped by a
\* handler that calls Next or returns nil although it has got one.
LEMMA ChainStepErrors ==
  ASSUME IInv, ErrorsPending, NEW r \in Requests,
         Next_(r) \/ ReturnNil(r) \/ \E e \in Errors : ReturnError(r, e)
  PROVE  /\ ErrorsPending'
         /\ errored[r] /\ ~swallowed'[r] => started'[r] = started[r]
<1>1. TypeOK /\ ErrorPending(r)
  BY DEF IInv, ErrorsPending
<1>2. /\ pc \in [Requests -> {"idle", "running", "failed", "finished", "done",
                              "escaped"}]
      /\ stack \in [Requests -> Seq(Frame)] /\ errored \in [Requests -> BOOLEAN]
      /\ swallowed \in [Requests -> BOOLEAN] /\ started \in [Requests -> Seq(Nat)]
  BY <1>1 DEF TypeOK
<1>3. pc[r] = "running" /\ aborted' = aborted
  BY DEF Next_, ReturnNil, ReturnError, Running
<1>4. stack[r] \in Seq(Frame) /\ stack[r] # <<>>
  BY <1>2, <1>3, InHandler DEF Running, InChain
<1>5. ASSUME Next_(r) \/ ReturnNil(r)
      PROVE  /\ ErrorsPending'
             /\ errored[r] /\ ~swallowed'[r] => started'[r] = started[r]
  <2>1. /\ errored' = errored
        /\ swallowed' = [swallowed EXCEPT ![r] = @ \/ Top(stack[r]).got # None]
    BY <1>5 DEF Next_, ReturnNil
  <2>2. PICK x, callers : Loop(r, x, callers)
    BY <1>5 DEF Next_, ReturnNil
  <2>3. /\ \A q \in Requests \ {r} : pc'[q] = pc[q] /\ stack'[q] = stack[q]
        /\ pc'[r] # "idle"
    BY <1>2, <1>3, <2>2 DEF Loop, NextReturns
  <2>4. ErrorsElsewhere(r)
    BY <1>2, <1>3, <2>1, <2>3 DEF ErrorsElsewhere
  <2>5. errored[r] /\ ~swallowed'[r] => aborted[r]
    <3>1. swallowed'[r] = (swallowed[r] \/ Top(stack[r]).got # None)
      BY <1>2, <2>1
    <3> QED
      BY <1>1, <1>3, <3>1 DEF ErrorPending
  <2>6. ErrorPending(r)'
    BY <1>3, <2>1, <2>3, <2>5 DEF ErrorPending
  <2>7. aborted[r] => started'[r] = started[r]
    BY ChainStepKeeps
  <2> QED
    BY <2>4, <2>5, <2>6, <2>7, ErrorsPendingOthers
<1>6. ASSUME NEW e \in Errors, ReturnError(r, e)
      PROVE  /\ ErrorsPending'
             /\ errored[r] /\ ~swallowed'[r] => started'[r] = started[r]
  <2> DEFINE callers == Pop(stack[r])
  <2>1. /\ errored' = [errored EXCEPT ![r] = TRUE] /\ swallowed' = swallowed
        /\ NextReturns(r, callers, e)
    BY <1>6 DEF ReturnError
  <2>2. callers \in Seq(Frame)
    BY <1>4, PopFrames
  <2> HIDE DEF callers
  <2>3. /\ \A q \in Requests \ {r} : pc'[q] = pc[q] /\ stack'[q] = stack[q]
        /\ pc'[r] # "idle" /\ started' = started
    BY <1>2, <1>3, <2>1 DEF NextReturns
  <2>4. ErrorsElsewhere(r)
    BY <1>2, <1>3, <2>1, <2>3 DEF ErrorsElsewhere
  <2>5. pc'[r] = "running" => Top(stack'[r]).got # None
    <3>1. CASE callers = <<>>
      BY <1>2, <2>1, <3>1 DEF NextReturns
    <3>2. CASE callers # <<>>
      <4>1. stack'[r] = [callers EXCEPT ![Len(callers)].got = e]
        BY <1>2, <2>1, <3>2 DEF NextReturns
      <4>2. Len(callers) \in DOMAIN callers /\ callers[Len(callers)] \in Frame
        BY <2>2, <3>2, EmptySeq
      <4>3. /\ Len(stack'[r]) = Len(callers)
            /\ stack'[r][Len(callers)] = [callers[Len(callers)] EXCEPT !.got = e]
        BY <2>2, <4>1, <4>2
      <4>4. Top(stack'[r]).got = e
        BY <4>2, <4>3 DEF Top, Frame
      <4>5. e # None
        BY NumbersAssumption, NoneAssumption DEF Errors, OtherError
      <4> QED
        BY <4>4, <4>5
    <3> QED
      BY <3>1, <3>2
  <2>6. ErrorPending(r)'
    BY <2>3, <2>5 DEF ErrorPending
  <2> QED
    BY <2>3, <2>4, <2>6, ErrorsPendingOthers
<1> QED
  BY <1>5, <1>6

\* No step starts a handler while an error is pending, or forgets one that is.
LEMMA StepErrors ==
  ASSUME IInv, ErrorsPending, [Next]_vars
  PROVE  /\ ErrorsPending'
         /\ \A r \in Requests :
              errored[r] /\ ~swallowed'[r] => started'[r] = started[r]
<1> DEFINE Stops == \A r \in Requests :
                      errored[r] /\ ~swallowed'[r] => started'[r] = started[r]
<1>0. TypeOK
  BY DEF IInv
<1>1. ASSUME NEW r \in Requests, Call(r) PROVE ErrorsPending' /\ Stops
  <2>1. /\ UNCHANGED <<errored, swallowed, pc, stack, started>>
        /\ aborted' = aborted \/ aborted' = [aborted EXCEPT ![r] = TRUE]
    BY <1>1
    DEF Call, Abort, AbortWithStatus, Status, WriteBody, Respond, Redirect,
        SSEvent, Flush, Set, Query, Responding, history
  <2> QED
    BY <1>0, <2>1, LeavingKeepsErrors
<1>2. ASSUME NEW r \in Requests,
             (\E get \in BOOLEAN, n \in Accepted : ServeRedirect(r, get, n))
               \/ PoolPut(r) \/ PanicRouter(r)
               \/ (\E n \in Accepted : DefaultErrorHandler(r, n))
               \/ (\E abortHandler \in BOOLEAN : PanicEscapes(r, abortHandler))
      PROVE  ErrorsPending' /\ Stops
  <2>1. /\ UNCHANGED <<errored, swallowed, aborted, started>>
        /\ stack' = stack \/ stack' = [stack EXCEPT ![r] = <<>>]
    BY <1>2
    DEF ServeRedirect, PoolPut, PanicRouter, DefaultErrorHandler, PanicEscapes,
        history
  <2>2. \E c \in {"finished", "failed", "escaped", "done"} :
          pc' = [pc EXCEPT ![r] = c]
    BY <1>2 DEF ServeRedirect, PoolPut, PanicRouter, DefaultErrorHandler, PanicEscapes
  <2> QED
    BY <1>0, <2>1, <2>2, LeavingKeepsErrors
<1>3. ASSUME NEW r \in Requests, PanicRecoverer(r) PROVE ErrorsPending' /\ Stops
  <2>1. /\ UNCHANGED <<errored, swallowed, pc, started>> /\ pc[r] = "running"
        /\ aborted' = [aborted EXCEPT ![r] = TRUE]
        /\ \E s : stack' = [stack EXCEPT ![r] = s]
    BY <1>3 DEF PanicRecoverer, UserCode, Running
  <2>2. aborted \in [Requests -> BOOLEAN] /\ stack \in [Requests -> Seq(Frame)]
    BY <1>0 DEF TypeOK
  <2>3. ErrorsElsewhere(r) /\ aborted'[r]
    BY <2>1, <2>2 DEF ErrorsElsewhere
  <2>4. ErrorPending(r)'
    BY <2>1, <2>3 DEF ErrorPending
  <2> QED
    BY <2>1, <2>3, <2>4, ErrorsPendingOthers
<1>4. ASSUME NEW r \in Requests, NEW ch, NEW params, NEW head,
             ServeChain(r, ch, params, head)
      PROVE  ErrorsPending' /\ Stops
  <2>1. /\ UNCHANGED <<errored, swallowed, aborted>> /\ pc[r] = "idle"
        /\ pc' = [pc EXCEPT ![r] = "running"]
        /\ stack' = [stack EXCEPT ![r] = <<Entered(1)>>]
        /\ started' = [started EXCEPT ![r] = <<1>>]
    BY <1>4 DEF ServeChain
  <2>2. /\ pc \in [Requests -> {"idle", "running", "failed", "finished", "done",
                                "escaped"}]
        /\ stack \in [Requests -> Seq(Frame)] /\ started \in [Requests -> Seq(Nat)]
    BY <1>0 DEF TypeOK
  <2>3. ~errored[r]
    BY <2>1 DEF ErrorsPending, ErrorPending
  <2>4. ErrorsElsewhere(r) /\ \A q \in Requests \ {r} : started'[q] = started[q]
    BY <2>1, <2>2 DEF ErrorsElsewhere
  <2>5. ErrorPending(r)'
    BY <2>1, <2>3 DEF ErrorPending
  <2>6. Stops
    BY <2>3, <2>4
  <2> QED
    BY <2>4, <2>5, <2>6, ErrorsPendingOthers
<1>5. ASSUME NEW r \in Requests, Next_(r) \/ Return(r)
      PROVE  ErrorsPending' /\ Stops
  <2>1. /\ ErrorsPending'
        /\ errored[r] /\ ~swallowed'[r] => started'[r] = started[r]
    BY <1>5, ChainStepErrors DEF Return
  <2>2. \A q \in Requests \ {r} : started'[q] = started[q]
    <3>1. started \in [Requests -> Seq(Nat)]
      BY <1>0 DEF TypeOK
    <3> QED
      BY <1>5, <3>1
      DEF Next_, Return, ReturnNil, ReturnError, Loop, NextReturns
  <2> QED
    BY <2>1, <2>2
<1>6. ASSUME UNCHANGED <<pc, stack, history>> PROVE ErrorsPending' /\ Stops
  BY <1>6 DEF history, ErrorsPending, ErrorPending
<1>7. ASSUME NEW c \in Contexts, EvictPool(c) PROVE ErrorsPending' /\ Stops
  BY <1>6, <1>7 DEF EvictPool
<1>8. ASSUME UNCHANGED vars PROVE ErrorsPending' /\ Stops
  BY <1>6, <1>8 DEF vars, code
<1> HIDE DEF Stops
<1>9. ASSUME NEW r \in Requests, Serve(r) PROVE ErrorsPending' /\ Stops
  BY <1>2, <1>4, <1>9, Zenon DEF Serve
<1>10. ASSUME NEW r \in Requests, Panic(r) PROVE ErrorsPending' /\ Stops
  BY <1>2, <1>3, <1>10, Zenon DEF Panic
<1>11. ASSUME Next PROVE ErrorsPending' /\ Stops
  BY <1>1, <1>2, <1>5, <1>7, <1>9, <1>10, <1>11, Zenon DEF Next
<1>12. ErrorsPending' /\ Stops
  BY <1>8, <1>11
<1> QED
  BY <1>12 DEF Stops

\* No handler starts after one has returned an error, until a handler that got
\* the error from Next drops it: for chains of any length, any pattern of calls
\* of Next, and panics that a Recoverer stops (return err in Next).
THEOREM ErrorsStopTheChain == Spec => ErrorStopsUnlessSwallowed
<1>1. Init => ErrorsPending
  BY DEF Init, ErrorsPending, ErrorPending
<1>2. IInv /\ ErrorsPending /\ [Next]_vars =>
        /\ ErrorsPending'
        /\ [\A r \in Requests :
              errored[r] /\ ~swallowed'[r] => started'[r] = started[r]]_vars
  BY StepErrors
<1> QED
  BY <1>1, <1>2, Invariance, PTL DEF Spec, ErrorStopsUnlessSwallowed
=============================================================================
