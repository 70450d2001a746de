---------------------------- MODULE HandlerChain ----------------------------
(***************************************************************************)
(* How goXpress serves requests: the pool of Contexts (router.go), the     *)
(* chain engine Next / Abort (context.go), the response writer             *)
(* (response.go), the error and panic pipeline (router.go, errors.go) and  *)
(* the Recoverer middleware (middleware/recoverer.go).                     *)
(*                                                                         *)
(* Every request runs in a goroutine of its own; goroutines share nothing  *)
(* but the sync.Pool of Contexts.  The handlers of a chain are user code,  *)
(* so a "plain" handler may do anything the API lets it do, in any order:  *)
(* call Next, write, Abort, store a value, read the query, return nil or   *)
(* an error, panic.  A "recoverer" handler runs the Recoverer middleware.  *)
(***************************************************************************)
EXTENDS Integers, Sequences

CONSTANTS
  Requests,      \* request identities; one goroutine each
  Contexts,      \* addresses of Context objects
  Chains,        \* the handler chains a request may be routed to
  Codes,         \* status codes handlers write and HTTPErrors carry
  Accepted,      \* how much of a body write may reach the client: {0, 1}
  AbortIndex,    \* abortIndex of context.go (1 << 30)
  MaxNextCalls,  \* bound: calls of Next one handler makes
  MaxWrites,     \* bound: body writes one response receives
  None           \* nil

Kinds == {"plain", "recoverer"}

ASSUME ChainsAssumption ==
  /\ Chains \subseteq Seq(Kinds)
  /\ \A ch \in Chains : Len(ch) \in 1 .. AbortIndex

ASSUME NumbersAssumption ==
  /\ AbortIndex \in Nat /\ MaxNextCalls \in Nat /\ MaxWrites \in Nat
  /\ Codes \subseteq Nat \ {0} /\ Accepted \subseteq {0, 1}

ASSUME NoneAssumption ==
  None \notin Requests \cup Contexts \cup Nat

VARIABLES
  recovery,   \* Router.Recovery, fixed once the server runs
  ctxs,       \* the Context objects in memory
  pool,       \* the Contexts lying in Router.pool
  pc,         \* where ServeHTTP is, per request
  ctx,        \* the Context a request holds
  stack,      \* handlers that have been called and have not returned
  err,        \* the error the chain handed to runChain
  wire,       \* what net/http has sent to the client
  \* history, read only by the properties
  autoHead,   \* a HEAD request answered by a GET route
  started,    \* positions of the handlers started so far, in order
  aborted,    \* Abort was called
  errored,    \* some handler returned an error
  swallowed,  \* a handler that got an error from Next did not pass it on
  flushed,    \* Flush was called before anything had been written
  early       \* the status sent before the error handler ran

code == <<recovery, ctxs, pool, pc, ctx, stack, err, wire>>
history == <<autoHead, started, aborted, errored, swallowed, flushed, early>>
vars == <<code, history>>

noStatus == 0
StatusOK == 200
InternalServerError == 500
MovedPermanently == 301
PermanentRedirect == 308

\* An error is the status its HTTPError carries; any other error is 0.
OtherError == 0
Errors == Codes \cup {OtherError}

-----------------------------------------------------------------------------
(* Context objects and the response writer embedded in them.               *)

\* A request's own data (parameters, query, stored values) is represented by
\* the request's identity, so that a value left behind by another request
\* can be told apart.
Context ==
  [conn : Requests \cup {None}, status : Nat, size : Nat,
   suppressBody : BOOLEAN, params : SUBSET Requests, handlers : Seq(Kinds),
   index : Int, queryCache : Requests \cup {None}, store : SUBSET Requests]

\* pool.New: a zero Context.
NewContext ==
  [conn |-> None, status |-> noStatus, size |-> 0, suppressBody |-> FALSE,
   params |-> {}, handlers |-> <<>>, index |-> 0, queryCache |-> None,
   store |-> {}]

\* Mutant of ResetWriter: the writer keeps suppressing bodies.
ResetWriterKeepsHead(x, r) ==
  [x EXCEPT !.conn = r, !.status = noStatus, !.size = 0]

\* responseWriter.reset: bind the writer to the connection of r.
ResetWriter(x, r) ==
  [x EXCEPT !.conn = r, !.status = noStatus, !.size = 0,
            !.suppressBody = FALSE]

\* Mutant of Reset: the value store is left as it was.
ResetKeepsStore(x, r) ==
  [ResetWriter(x, r) EXCEPT !.params = {}, !.handlers = <<>>, !.index = -1,
                            !.queryCache = None]

\* Context.reset.
Reset(x, r) ==
  [ResetWriter(x, r) EXCEPT !.params = {}, !.handlers = <<>>, !.index = -1,
                            !.queryCache = None, !.store = {}]

Written(x) == x.status # noStatus

\* responseWriter.WriteHeader: the first status wins ...
WriteHeader(x, c) == IF Written(x) THEN x ELSE [x EXCEPT !.status = c]

\* ... and is forwarded to the connection the writer is bound to.
SendHeader(w, x, c) ==
  IF Written(x) THEN w
  ELSE [w EXCEPT ![x.conn].code = IF @ = noStatus THEN c ELSE @]

\* responseWriter.Write / WriteString of one unit of body, of which the
\* connection accepts n (0 when the client has gone).
Write(x, n) ==
  [WriteHeader(x, StatusOK) EXCEPT
     !.size = @ + IF x.suppressBody THEN 1 ELSE n]

SendBody(w, x, n) ==
  LET h == SendHeader(w, x, StatusOK)
  IN  IF x.suppressBody THEN h ELSE [h EXCEPT ![x.conn].body = @ + n]

-----------------------------------------------------------------------------
(* The chain engine.                                                       *)

\* A running handler: its position in the chain, the calls of Next it made
\* and what the last one returned.
Frame == [pos : Nat \ {0}, calls : Nat, got : Errors \cup {None}]

Entered(p) == [pos |-> p, calls |-> 0, got |-> None]

cx(r) == ctxs[ctx[r]]
Top(s) == s[Len(s)]
Pop(s) == SubSeq(s, 1, Len(s) - 1)
Running(r) == pc[r] = "running"
Kind(r, f) == cx(r).handlers[f.pos]
UserCode(r) == Running(r) /\ Kind(r, Top(stack[r])) = "plain"

SetContext(r, x) == ctxs' = [ctxs EXCEPT ![ctx[r]] = x]

\* Next returns e to the handler that called it, or to runChain when callers
\* is empty.
NextReturns(r, callers, e) ==
  /\ IF callers = <<>>
     THEN /\ stack' = [stack EXCEPT ![r] = <<>>]
          /\ pc' = [pc EXCEPT ![r] = IF e = None THEN "finished" ELSE "failed"]
          /\ err' = [err EXCEPT ![r] = e]
          /\ early' = [early EXCEPT ![r] = wire[r].code]
     ELSE /\ stack' = [stack EXCEPT ![r] =
                         [callers EXCEPT ![Len(callers)].got = e]]
          /\ UNCHANGED <<pc, err, early>>
  /\ UNCHANGED <<autoHead, started>>

\* The head of the loop in Next, with x.index already advanced.
Loop(r, x, callers) ==
  /\ SetContext(r, x)
  /\ IF x.index < Len(x.handlers)
     THEN /\ stack' = [stack EXCEPT ![r] =
                         Append(callers, Entered(x.index + 1))]
          /\ started' = [started EXCEPT ![r] = Append(@, x.index + 1)]
          /\ UNCHANGED <<pc, err, autoHead, early>>
     ELSE NextReturns(r, callers, None)

\* Mutant of Next_: the loop counts from the caller's own position.
NextFromCaller(r) ==
  LET f == Top(stack[r])
      x == cx(r)
  IN  /\ Running(r)
      /\ f.calls < MaxNextCalls
      /\ Kind(r, f) = "recoverer" => f.calls = 0
      /\ Loop(r, [x EXCEPT !.index = f.pos],
              Append(Pop(stack[r]), [f EXCEPT !.calls = @ + 1, !.got = None]))
      /\ swallowed' = [swallowed EXCEPT ![r] = @ \/ f.got # None]
      /\ UNCHANGED <<recovery, pool, ctx, wire, aborted, errored, flushed>>

\* The running handler calls c.Next().
Next_(r) ==
  LET f == Top(stack[r])
      x == cx(r)
  IN  /\ Running(r)
      /\ f.calls < MaxNextCalls
      /\ Kind(r, f) = "recoverer" => f.calls = 0
      /\ Loop(r, [x EXCEPT !.index = @ + 1],
              Append(Pop(stack[r]), [f EXCEPT !.calls = @ + 1, !.got = None]))
      /\ swallowed' = [swallowed EXCEPT ![r] = @ \/ f.got # None]
      /\ UNCHANGED <<recovery, pool, ctx, wire, aborted, errored, flushed>>

\* Mutant of ReturnNil: the loop keeps its index in a local variable.
ReturnNilLocalIndex(r) ==
  LET f == Top(stack[r])
  IN  /\ Running(r)
      /\ Kind(r, f) = "recoverer" => f.calls = 1 /\ f.got = None
      /\ Loop(r, [cx(r) EXCEPT !.index = f.pos], Pop(stack[r]))
      /\ swallowed' = [swallowed EXCEPT ![r] = @ \/ f.got # None]
      /\ UNCHANGED <<recovery, pool, ctx, wire, aborted, errored, flushed>>

\* The running handler returns nil: the loop that called it advances.
ReturnNil(r) ==
  LET f == Top(stack[r])
      x == cx(r)
  IN  /\ Running(r)
      /\ Kind(r, f) = "recoverer" => f.calls = 1 /\ f.got = None
      /\ Loop(r, [x EXCEPT !.index = @ + 1], Pop(stack[r]))
      /\ swallowed' = [swallowed EXCEPT ![r] = @ \/ f.got # None]
      /\ UNCHANGED <<recovery, pool, ctx, wire, aborted, errored, flushed>>

\* Mutant of ReturnError: the loop goes on after an error.
ReturnErrorContinues(r, e) ==
  LET f == Top(stack[r])
  IN  /\ Running(r)
      /\ Kind(r, f) = "recoverer" => f.calls = 1 /\ f.got = e
      /\ Loop(r, [cx(r) EXCEPT !.index = @ + 1], Pop(stack[r]))
      /\ errored' = [errored EXCEPT ![r] = TRUE]
      /\ UNCHANGED <<recovery, pool, ctx, wire, aborted, swallowed, flushed>>

\* The running handler returns the error e: Next hands it to its caller.
ReturnError(r, e) ==
  LET f == Top(stack[r])
  IN  /\ Running(r)
      /\ Kind(r, f) = "recoverer" => f.calls = 1 /\ f.got = e
      /\ NextReturns(r, Pop(stack[r]), e)
      /\ errored' = [errored EXCEPT ![r] = TRUE]
      /\ UNCHANGED <<recovery, ctxs, pool, ctx, wire, aborted, swallowed,
                     flushed>>

Aborting(x) == [x EXCEPT !.index = AbortIndex]

\* c.Abort()
Abort(r) ==
  /\ UserCode(r)
  /\ SetContext(r, Aborting(cx(r)))
  /\ aborted' = [aborted EXCEPT ![r] = TRUE]
  /\ UNCHANGED <<recovery, pool, pc, ctx, stack, err, wire,
                 autoHead, started, errored, swallowed, flushed, early>>

\* c.AbortWithStatus(c)
AbortWithStatus(r, c) ==
  /\ UserCode(r)
  /\ SetContext(r, WriteHeader(Aborting(cx(r)), c))
  /\ wire' = SendHeader(wire, cx(r), c)
  /\ aborted' = [aborted EXCEPT ![r] = TRUE]
  /\ UNCHANGED <<recovery, pool, pc, ctx, stack, err,
                 autoHead, started, errored, swallowed, flushed, early>>

-----------------------------------------------------------------------------
(* The rest of the API a handler may call.                                 *)

\* The effect on the response of code that only writes to c.Writer.
Responding(r, x, w) ==
  /\ SetContext(r, x)
  /\ wire' = w
  /\ UNCHANGED <<recovery, pool, pc, ctx, stack, err, history>>

\* c.Status(c), c.NoContent(c)
Status(r, c) ==
  /\ UserCode(r)
  /\ Responding(r, WriteHeader(cx(r), c), SendHeader(wire, cx(r), c))

\* c.Writer.Write(b)
WriteBody(r, n) ==
  /\ UserCode(r)
  /\ cx(r).size < MaxWrites
  /\ Responding(r, Write(cx(r), n), SendBody(wire, cx(r), n))

\* c.JSON, c.XML, c.String, c.Blob, c.HTML: a status, then a body.
Respond(r, c, n) ==
  LET x == WriteHeader(cx(r), c)
      w == SendHeader(wire, cx(r), c)
  IN  /\ UserCode(r)
      /\ cx(r).size < MaxWrites
      /\ Responding(r, Write(x, n), SendBody(w, x, n))

\* c.Redirect(code, location): http.Redirect, whose body is for GET only.
Redirect(r, get, n) ==
  LET x == WriteHeader(cx(r), MovedPermanently)
      w == SendHeader(wire, cx(r), MovedPermanently)
  IN  /\ UserCode(r)
      /\ cx(r).size < MaxWrites
      /\ IF get THEN Responding(r, Write(x, n), SendBody(w, x, n))
         ELSE Responding(r, x, w)

\* net/http sends the header with status 200 when it must send something
\* and no status was chosen.
ImplicitHeader(w, conn) ==
  [w EXCEPT ![conn].code = IF @ = noStatus THEN StatusOK ELSE @]

\* c.Flush(): the ResponseController unwraps the writer and flushes the
\* connection, of which the writer takes no note.
Flush(r) ==
  /\ UserCode(r)
  /\ wire' = ImplicitHeader(wire, cx(r).conn)
  /\ flushed' = [flushed EXCEPT ![r] = @ \/ ~Written(cx(r))]
  /\ UNCHANGED <<recovery, ctxs, pool, pc, ctx, stack, err,
                 autoHead, started, aborted, errored, swallowed, early>>

\* c.SSEvent: the header when there is none yet, a body, a flush.
SSEvent(r, n) ==
  LET x == WriteHeader(cx(r), StatusOK)
      w == SendHeader(wire, cx(r), StatusOK)
  IN  /\ UserCode(r)
      /\ cx(r).size < MaxWrites
      /\ Responding(r, Write(x, n), ImplicitHeader(SendBody(w, x, n), x.conn))

\* c.Set(key, value)
Set(r) ==
  /\ UserCode(r)
  /\ Responding(r, [cx(r) EXCEPT !.store = @ \cup {r}], wire)

\* c.Query, c.QueryDefault, c.QueryArray: parse the query once.
Query(r) ==
  /\ UserCode(r)
  /\ Responding(r, [cx(r) EXCEPT !.queryCache = IF @ = None THEN r ELSE @],
                wire)

-----------------------------------------------------------------------------
(* Panics.  The value http.ErrAbortHandler is passed on by every recover.  *)

\* The positions in the call stack of the Recoverers a panic would meet.
Recoverers(r) ==
  {k \in DOMAIN stack[r] : Kind(r, stack[r][k]) = "recoverer"}

\* The deferred function of the innermost Recoverer stops the panic: 500
\* unless a status was sent, Abort, and nil is what its handler returns.
PanicRecoverer(r) ==
  LET x == cx(r)
  IN  /\ UserCode(r)
      /\ \E k \in Recoverers(r) :
           /\ \A j \in Recoverers(r) : j <= k
           /\ stack' = [stack EXCEPT ![r] =
                          Append(SubSeq(@, 1, k - 1),
                                 [@[k] EXCEPT !.got = None])]
      /\ SetContext(r, Aborting(WriteHeader(x, InternalServerError)))
      /\ wire' = SendHeader(wire, x, InternalServerError)
      /\ aborted' = [aborted EXCEPT ![r] = TRUE]
      /\ UNCHANGED <<recovery, pool, pc, ctx, err,
                     autoHead, started, errored, swallowed, flushed, early>>

\* Mutant of PanicRouter: the panic is stopped and nothing is rendered.
PanicRouterSilent(r) ==
  /\ UserCode(r)
  /\ recovery /\ Recoverers(r) = {}
  /\ stack' = [stack EXCEPT ![r] = <<>>]
  /\ pc' = [pc EXCEPT ![r] = "finished"]
  /\ err' = [err EXCEPT ![r] = OtherError]
  /\ early' = [early EXCEPT ![r] = wire[r].code]
  /\ UNCHANGED <<recovery, ctxs, pool, ctx, wire,
                 autoHead, started, aborted, errored, swallowed, flushed>>

\* Router.recover stops the panic and hands a PanicError to ErrorHandler.
PanicRouter(r) ==
  /\ UserCode(r)
  /\ recovery /\ Recoverers(r) = {}
  /\ stack' = [stack EXCEPT ![r] = <<>>]
  /\ pc' = [pc EXCEPT ![r] = "failed"]
  /\ err' = [err EXCEPT ![r] = OtherError]
  /\ early' = [early EXCEPT ![r] = wire[r].code]
  /\ UNCHANGED <<recovery, ctxs, pool, ctx, wire,
                 autoHead, started, aborted, errored, swallowed, flushed>>

\* The panic leaves ServeHTTP, which does not get to put its Context back:
\* the panic value is ErrAbortHandler, or nobody recovers.  The Context is
\* garbage, its address free for a new one.
PanicEscapes(r, abortHandler) ==
  /\ UserCode(r)
  /\ abortHandler \/ (~recovery /\ Recoverers(r) = {})
  /\ stack' = [stack EXCEPT ![r] = <<>>]
  /\ pc' = [pc EXCEPT ![r] = "escaped"]
  /\ ctx' = [ctx EXCEPT ![r] = None]
  /\ SetContext(r, NewContext)
  /\ UNCHANGED <<recovery, pool, err, wire, history>>

-----------------------------------------------------------------------------
(* Router.ServeHTTP.                                                       *)

Held == {ctx[r] : r \in Requests}

\* Mutant of PoolGet: a Context handed out stays in the pool.
PoolGetLeaves(r, c, x) ==
  /\ \/ c \in pool /\ x = ctxs[c]
     \/ c \notin pool \cup Held /\ x = NewContext
  /\ UNCHANGED pool
  /\ ctx' = [ctx EXCEPT ![r] = c]

\* sync.Pool.Get: some pooled Context, or a new one from pool.New.
PoolGet(r, c, x) ==
  /\ \/ c \in pool /\ x = ctxs[c]
     \/ c \notin pool \cup Held /\ x = NewContext
  /\ pool' = pool \ {c}
  /\ ctx' = [ctx EXCEPT ![r] = c]

\* dispatch found no chain to run: the trailing-slash redirect, whose body
\* http.Redirect writes for GET only.
ServeRedirect(r, get, n) ==
  LET to == IF get THEN MovedPermanently ELSE PermanentRedirect
      c1(x) == WriteHeader(Reset(x, r), to)
      w1(x) == SendHeader(wire, Reset(x, r), to)
  IN  /\ pc[r] = "idle"
      /\ \E c \in Contexts : \E x \in {ctxs[c], NewContext} :
           /\ PoolGet(r, c, x)
           /\ ctxs' = [ctxs EXCEPT ![c] =
                         IF get THEN Write(c1(x), n) ELSE c1(x)]
           /\ wire' = IF get THEN SendBody(w1(x), c1(x), n) ELSE w1(x)
      /\ pc' = [pc EXCEPT ![r] = "finished"]
      /\ UNCHANGED <<recovery, stack, err, history>>

\* What runChain and the first step of Next make of a Context that was reset.
RunChain(x, ch, params, head) ==
  [x EXCEPT !.params = params, !.suppressBody = @ \/ head,
            !.handlers = ch, !.index = 0]

\* dispatch picked the chain ch: with parameters when a route matched, with
\* the body suppressed when a HEAD request is answered by a GET route, with
\* neither for the 404, 405 and OPTIONS chains.
ServeChain(r, ch, params, head) ==
  /\ pc[r] = "idle"
  /\ head => params = {r}
  /\ \E c \in Contexts : \E x \in {ctxs[c], NewContext} :
       /\ PoolGet(r, c, x)
       /\ ctxs' = [ctxs EXCEPT ![c] =
                     RunChain(Reset(x, r), ch, params, head)]
  /\ pc' = [pc EXCEPT ![r] = "running"]
  /\ stack' = [stack EXCEPT ![r] = <<Entered(1)>>]
  /\ autoHead' = [autoHead EXCEPT ![r] = head]
  /\ started' = [started EXCEPT ![r] = <<1>>]
  /\ UNCHANGED <<recovery, err, wire,
                 aborted, errored, swallowed, flushed, early>>

\* Mutant of ErrorStatus: an error that is no HTTPError has no status.
ErrorStatusNil(e) == IF e = OtherError THEN None ELSE e

\* The status DefaultErrorHandler renders an error with.
ErrorStatus(e) == IF e = OtherError THEN InternalServerError ELSE e

\* Mutant of DefaultErrorHandler: it does not return once the response has
\* started.
DefaultErrorHandlerStuck(r, n) ==
  LET x == WriteHeader(cx(r), ErrorStatus(err[r]))
      w == SendHeader(wire, cx(r), ErrorStatus(err[r]))
  IN  /\ pc[r] = "failed"
      /\ ~Written(cx(r))
      /\ pc' = [pc EXCEPT ![r] = "finished"]
      /\ SetContext(r, Write(x, n)) /\ wire' = SendBody(w, x, n)
      /\ UNCHANGED <<recovery, pool, ctx, stack, err, history>>

\* DefaultErrorHandler writes nothing once the response has started.
DefaultErrorHandler(r, n) ==
  LET x == WriteHeader(cx(r), ErrorStatus(err[r]))
      w == SendHeader(wire, cx(r), ErrorStatus(err[r]))
  IN  /\ pc[r] = "failed"
      /\ pc' = [pc EXCEPT ![r] = "finished"]
      /\ IF Written(cx(r))
         THEN UNCHANGED <<ctxs, wire>>
         ELSE SetContext(r, Write(x, n)) /\ wire' = SendBody(w, x, n)
      /\ UNCHANGED <<recovery, pool, ctx, stack, err, history>>

\* ServeHTTP puts the Context back and returns; net/http ends the response.
PoolPut(r) ==
  /\ pc[r] = "finished"
  /\ pool' = pool \cup {ctx[r]}
  /\ ctx' = [ctx EXCEPT ![r] = None]
  /\ pc' = [pc EXCEPT ![r] = "done"]
  /\ wire' = ImplicitHeader(wire, r)
  /\ UNCHANGED <<recovery, ctxs, stack, err, history>>

\* The garbage collector empties a sync.Pool when it likes.
EvictPool(c) ==
  /\ c \in pool
  /\ pool' = pool \ {c}
  /\ ctxs' = [ctxs EXCEPT ![c] = NewContext]
  /\ UNCHANGED <<recovery, pc, ctx, stack, err, wire, history>>

-----------------------------------------------------------------------------
Init ==
  /\ recovery \in BOOLEAN
  /\ ctxs = [c \in Contexts |-> NewContext]
  /\ pool = {}
  /\ pc = [r \in Requests |-> "idle"]
  /\ ctx = [r \in Requests |-> None]
  /\ stack = [r \in Requests |-> <<>>]
  /\ err = [r \in Requests |-> None]
  /\ wire = [r \in Requests |-> [code |-> noStatus, body |-> 0]]
  /\ autoHead = [r \in Requests |-> FALSE]
  /\ started = [r \in Requests |-> <<>>]
  /\ aborted = [r \in Requests |-> FALSE]
  /\ errored = [r \in Requests |-> FALSE]
  /\ swallowed = [r \in Requests |-> FALSE]
  /\ flushed = [r \in Requests |-> FALSE]
  /\ early = [r \in Requests |-> noStatus]

\* What a handler does apart from returning, panicking and calling Next.
Call(r) ==
  \/ Abort(r)
  \/ \E c \in Codes : AbortWithStatus(r, c)
  \/ \E c \in Codes : Status(r, c)
  \/ \E n \in Accepted : WriteBody(r, n)
  \/ \E c \in Codes, n \in Accepted : Respond(r, c, n)
  \/ \E get \in BOOLEAN, n \in Accepted : Redirect(r, get, n)
  \/ \E n \in Accepted : SSEvent(r, n)
  \/ Flush(r)
  \/ Set(r)
  \/ Query(r)

Return(r) == ReturnNil(r) \/ \E e \in Errors : ReturnError(r, e)

Panic(r) ==
  \/ PanicRecoverer(r)
  \/ PanicRouter(r)
  \/ \E abortHandler \in BOOLEAN : PanicEscapes(r, abortHandler)

Serve(r) ==
  \/ \E get \in BOOLEAN, n \in Accepted : ServeRedirect(r, get, n)
  \/ \E ch \in Chains, params \in {{}, {r}}, head \in BOOLEAN :
       ServeChain(r, ch, params, head)

Next ==
  \/ \E r \in Requests :
       \/ Serve(r)
       \/ Next_(r)
       \/ Return(r)
       \/ Call(r)
       \/ Panic(r)
       \/ \E n \in Accepted : DefaultErrorHandler(r, n)
       \/ PoolPut(r)
  \/ \E c \in Contexts : EvictPool(c)

\* Handlers return in the end, Recoverer calls Next without delay, and the
\* goroutine of a request that has left its chain is not held up by anything.
Fairness ==
  \A r \in Requests :
    /\ WF_vars(Return(r) \/ (~UserCode(r) /\ Next_(r)))
    /\ WF_vars(\E n \in Accepted : DefaultErrorHandler(r, n))
    /\ WF_vars(PoolPut(r))

Spec == Init /\ [][Next]_vars
FairSpec == Spec /\ Fairness
-----------------------------------------------------------------------------
(* Properties.                                                             *)

\* Every variable holds a value of its type.
TypeOK ==
  /\ recovery \in BOOLEAN
  /\ ctxs \in [Contexts -> Context]
  /\ pool \subseteq Contexts
  /\ pc \in [Requests -> {"idle", "running", "failed", "finished", "done",
                          "escaped"}]
  /\ ctx \in [Requests -> Contexts \cup {None}]
  /\ stack \in [Requests -> Seq(Frame)]
  /\ err \in [Requests -> Errors \cup {None}]
  /\ wire \in [Requests -> [code : Nat, body : Nat]]
  /\ autoHead \in [Requests -> BOOLEAN]
  /\ started \in [Requests -> Seq(Nat)]
  /\ aborted \in [Requests -> BOOLEAN]
  /\ errored \in [Requests -> BOOLEAN]
  /\ swallowed \in [Requests -> BOOLEAN]
  /\ flushed \in [Requests -> BOOLEAN]
  /\ early \in [Requests -> Nat]

Holding(r) == ctx[r] # None

\* Whatever the pool, the goroutines and the panics do, no Context serves two
\* requests at once and none lies in the pool while a request uses it
\* (pool.Get and pool.Put in ServeHTTP).
ContextExclusive ==
  \A r \in Requests : Holding(r) =>
    /\ ctx[r] \notin pool
    /\ \A q \in Requests \ {r} : ctx[q] # ctx[r]

\* A recycled Context shows its request nothing of another one: connection,
\* parameters, parsed query and stored values are its own (Context.reset).
Isolation ==
  \A r \in Requests : Holding(r) =>
    /\ cx(r).conn = r
    /\ cx(r).params \subseteq {r}
    /\ cx(r).store \subseteq {r}
    /\ cx(r).queryCache \in {r, None}

\* Handlers run in chain order and none runs twice, however often and from
\* wherever Next is called (the index shared by every Next of a request).
InOrder ==
  \A r \in Requests : \A i, j \in DOMAIN started[r] :
    i < j => started[r][i] < started[r][j]

\* Once Abort has been called, by a handler or by Recoverer, no further
\* handler starts, whoever calls Next afterwards (abortIndex).
AbortStopsChain ==
  [][\A r \in Requests : aborted[r] => started'[r] = started[r]]_vars

\* After a handler has returned an error no further handler starts, unless a
\* handler that got the error from Next drops it (return err in Next).
ErrorStopsUnlessSwallowed ==
  [][\A r \in Requests :
       errored[r] /\ ~swallowed'[r] => started'[r] = started[r]]_vars

\* A chain that ends with an error, or with a panic the router recovered,
\* has its client answered: with the status sent before the failure if there
\* is one, else with the error's own, else with 500 (runChain, recover,
\* DefaultErrorHandler).
FailureAnswered ==
  \A r \in Requests : pc[r] \in {"finished", "done"} /\ err[r] # None =>
    wire[r].code = IF early[r] # noStatus THEN early[r]
                   ELSE IF err[r] \in Codes THEN err[r]
                   ELSE InternalServerError

\* Status() and Size() are what the client got: the status sent, unless the
\* header went out in an early Flush, and the bytes of the body, of which an
\* automatic HEAD sends none (responseWriter).
WriterMatchesWire ==
  \A r \in Requests : Holding(r) =>
    /\ ~flushed[r] => cx(r).status = wire[r].code
    /\ wire[r].body = IF autoHead[r] THEN 0 ELSE cx(r).size

\* A request whose handlers return is answered and leaves ServeHTTP, with its
\* Context put back unless a panic escaped.
RequestTerminates ==
  \A r \in Requests : pc[r] = "running" ~> pc[r] \in {"done", "escaped"}
=============================================================================
