------------------------------- MODULE Layers -------------------------------
(***************************************************************************)
(* One request on its way down and up a chain of middleware that replaces  *)
(* or watches the Context's writer: Compress, Logger, Recoverer, CORS,     *)
(* middleware that may refuse (BasicAuth, BodyLimit, Decompress), adapted  *)
(* net/http middleware (FromStd), and a second router behind Mount, with a *)
(* Context of its own.                                                     *)
(*                                                                         *)
(* Each of them calls Next at most once, so a position in the chain and a  *)
(* direction stand for the stack of calls; the chain engine is the subject *)
(* of HandlerChain.  Writers point to the writer below them and the lowest *)
(* is the connection.  Middleware that only sets headers is left out.      *)
(***************************************************************************)
EXTENDS Integers, Sequences, FiniteSets

CONSTANTS
  Chains,     \* sequences of layers; the last one is the handler
  Codes,      \* status codes of handlers and of errors
  MaxLayers,  \* bound: layers of a chain
  MaxWrites,  \* bound: calls of the handler to its writer
  ErrAbortHandler,  \* http.ErrAbortHandler
  OtherPanic,       \* any other panic value
  None

Kinds == {"logger", "recoverer", "compress", "cors", "guard", "std", "wrapper",
          "mount", "handler"}

ASSUME LayersAssumption ==
  /\ \A ch \in Chains :
       /\ ch \in Seq(Kinds) /\ Len(ch) \in 1 .. MaxLayers
       /\ \A i \in DOMAIN ch : ch[i] = "handler" <=> i = Len(ch)
       /\ \A i, j \in DOMAIN ch : ch[i] = "mount" /\ ch[j] = "mount" => i = j
       /\ \A i \in DOMAIN ch : ch[i] = "wrapper" => Len(ch) = 2
  /\ MaxLayers \in Nat /\ MaxWrites \in Nat
  /\ Codes \subseteq Nat \ {0}

VARIABLES
  chain,     \* the layers of this request
  accepts,   \* the client accepts gzip
  recovery,  \* Router.Recovery of the mounted router
  at,        \* the layer that has control; 0 is the router
  dir,       \* "down", "up", "panic", and then "done", "aborted", "crashed"
  err,       \* the error or panic on its way up
  out,       \* the writers and the connection
  writer,    \* Context.Writer of the two Contexts
  path,      \* Request.URL.Path, "full" or without the mount prefix
  logged,    \* the status each logger has logged, or None
  writes,    \* calls of the handler to its writer
  \* history
  saved,     \* writer and path when a layer called Next
  chunks,    \* chunks the handler has written
  failed,    \* where an error or panic began, and the status at that time
  unwound    \* the layers it left, by the way it left them

request == <<chain, accepts, recovery>>
vars == <<request, at, dir, err, out, writer, path, logged, writes, saved,
          chunks, failed, unwound>>

-----------------------------------------------------------------------------
(* Writers.                                                                *)

Layer == 1 .. MaxLayers
Contexts == 1 .. 2
Wire == <<"wire", 0>>
Base(c) == <<"base", c>>          \* Context.writer
Gzip(i) == <<"gzip", i>>          \* the gzipResponseWriter of layer i
Wrapper(i) == <<"wrapper", i>>    \* a writer of net/http middleware
Writers == {Wire} \cup {Base(c) : c \in Contexts} \cup {Gzip(i) : i \in Layer}
           \cup {Wrapper(i) : i \in Layer}

\* What a layer had when it called Next, and how an error or panic began.
Saved == [writer : Writers, path : {"full", "rest"}]
Failure == [at : Nat, dir : {"up", "panic"}, code : Nat, recorded : Nat]

ASSUME NoneAssumption ==
  None \notin Nat \cup Saved \cup Failure \cup {ErrAbortHandler, OtherPanic}

\* No way down to the connection is longer: a gzipResponseWriter of each layer
\* and the two Contexts' writers.  A way that is longer has no end.
MaxDepth == MaxLayers + 2

\* The writers that a call of w comes to, one after the other.
Way(o, w) ==
  LET below[i \in 0 .. MaxDepth] == IF i = 0 THEN w ELSE o.under[below[i - 1]]
  IN  below

\* w leads to the connection.
Reaches(o, w) == Way(o, w)[MaxDepth] = Wire

\* v is a responseWriter that has recorded a status.
Written(o, v) == v[1] = "base" /\ o.recorded[v[2]] # 0

\* WriteHeader: a gzipResponseWriter forwards it, a responseWriter records and
\* forwards the first one, and the connection takes the first.
WriteHeader(o, w, code) ==
  LET way == Way(o, w)
      informed == {way[i] : i \in {k \in 0 .. MaxDepth :
                                    \A j \in 0 .. k - 1 : ~Written(o, way[j])}}
      sent == Wire \in informed /\ o.status = 0
  IN  [o EXCEPT !.recorded = [c \in Contexts |->
                                IF o.recorded[c] = 0 /\ Base(c) \in informed
                                THEN code ELSE o.recorded[c]],
                !.status = IF sent THEN code ELSE @,
                !.encoding = IF sent THEN o.header ELSE @]

\* Status, which every writer takes from the responseWriter below it.
Status(o, w) ==
  LET way == Way(o, w)
      first == CHOOSE i \in 0 .. MaxDepth :
                 way[i][1] = "base" /\ \A j \in 0 .. i - 1 : way[j][1] # "base"
  IN  o.recorded[way[first][2]]

Ensure(o, w, status) == IF status = 0 THEN WriteHeader(o, w, 200) ELSE o

GzipHeader == <<"gzip header", 0>>

\* What Write does at the writer v with a token, and what it passes on.  A
\* gzip.Writer sends its header with the first byte it gets and the rest, as far
\* as this model goes, when it is closed.  A 204 has no body.
WriteAt(o, v, token) ==
  CASE v = Wire ->
         LET sent == Ensure(o, v, o.status)
         IN  [out |-> IF sent.status = 204 THEN sent
                      ELSE [sent EXCEPT !.body = Append(@, token)],
              pass |-> <<>>]
    [] v[1] = "base" ->
         [out |-> Ensure(o, v, o.recorded[v[2]]), pass |-> <<token>>]
    [] v[1] = "gzip" ->
         LET sent == Ensure(o, v, Status(o, v))
         IN  [out |-> [sent EXCEPT !.begun = @ \cup {v[2]},
                                   !.buffer[v[2]] = Append(@, token)],
              pass |-> IF v[2] \in o.begun THEN <<>> ELSE <<GzipHeader>>]
    [] OTHER -> [out |-> o, pass |-> <<token>>]

\* The same when s is what the writers above v have done and passed on.
Pass(s, v) == IF s.pass = <<>> THEN s ELSE WriteAt(s.out, v, s.pass[1])

\* Write: each writer passes on to the one below it what it does not keep.
Write(o, w, token) ==
  LET after[i \in 0 .. MaxDepth + 1] ==
        IF i = 0 THEN [out |-> o, pass |-> <<token>>]
        ELSE Pass(after[i - 1], Way(o, w)[i - 1])
  IN  after[MaxDepth + 1].out

\* Mutant of CloseGzip: only what was written first is sent.
CloseGzipFirst(o, i) ==
  LET begun == IF i \in o.begun THEN o
               ELSE Write([o EXCEPT !.begun = @ \cup {i}], o.under[Gzip(i)],
                          GzipHeader)
      first == IF o.buffer[i] = <<>> THEN <<>> ELSE <<o.buffer[i][1]>>
  IN  Write(begun, o.under[Gzip(i)], <<"deflated", first>>)

\* gzip.Writer.Close, on the writer that Compress found.
CloseGzip(o, i) ==
  LET begun == IF i \in o.begun THEN o
               ELSE Write([o EXCEPT !.begun = @ \cup {i}], o.under[Gzip(i)],
                          GzipHeader)
  IN  Write(begun, o.under[Gzip(i)], <<"deflated", o.buffer[i]>>)

\* Mutant of DefaultErrorHandler: the message goes out without the status.
DefaultErrorHandlerLate(o, w, code) ==
  IF Status(o, w) # 0 THEN o ELSE Write(o, w, <<"error", code>>)

\* DefaultErrorHandler: JSON with the status, unless the response has begun.
DefaultErrorHandler(o, w, code) ==
  IF Status(o, w) # 0 THEN o
  ELSE Write(WriteHeader(o, w, code), w, <<"error", code>>)

-----------------------------------------------------------------------------
(* Control.                                                                *)

\* The Context of layer i: that of the main router or of the mounted one.
Ctx(i) == IF \E j \in 1 .. i - 1 : chain[j] = "mount" THEN 2 ELSE 1

W == writer[Ctx(at)]

\* Layer at calls Next; its Context now has writer w and the path is p.
CallNext(w, p) ==
  /\ saved' = [saved EXCEPT ![at] = [writer |-> w, path |-> p]]
  /\ at' = at + 1
  /\ UNCHANGED <<request, dir, err, logged, writes, chunks, failed, unwound>>

\* Layer at returns nil, without having called Next.
Answers ==
  /\ at' = at - 1 /\ dir' = "up"
  /\ UNCHANGED <<request, err, writer, path, logged, writes, saved, chunks,
                 failed, unwound>>

\* Layer at begins to fail, with an error or a panic.
Begin(d, e) ==
  /\ at' = at - 1 /\ dir' = d /\ err' = e
  /\ failed' = [at |-> at, dir |-> d, code |-> IF d = "up" THEN e ELSE 500,
                recorded |-> Status(out, W)]
  /\ UNCHANGED <<request, out, writer, path, logged, writes, saved, chunks,
                 unwound>>

\* Control leaves layer at the way it came from below.
Leave ==
  /\ at' = at - 1
  /\ unwound' = IF dir = "panic" \/ err # None
                THEN unwound \cup {<<at, dir>>} ELSE unwound
  /\ UNCHANGED <<request, saved, writes, chunks, failed>>

\* Layer at is of this kind and is called, or gets control back.
Down(kind) == dir = "down" /\ chain[at] = kind
Up(kind) == dir = "up" /\ at > 0 /\ chain[at] = kind

-----------------------------------------------------------------------------
(* The layers.                                                             *)

\* Mutant of LogStatus: the status the logger found on its way down.
LogStatusEarly == 200

\* What Logger writes to its output.
LogStatus == IF Status(out, W) = 0 THEN 200 ELSE Status(out, W)

LoggerDown ==
  Down("logger") /\ CallNext(W, path) /\ UNCHANGED <<out, writer, path>>

LoggerUp ==
  /\ Up("logger")
  /\ logged' = [logged EXCEPT ![at] = LogStatus]
  /\ Leave
  /\ UNCHANGED <<dir, err, out, writer, path>>

\* Compress, when the client accepts gzip: headers, a gzip.Writer from its
\* pool, reset to the writer there was.
CompressDown ==
  /\ Down("compress")
  /\ IF accepts
     THEN /\ out' = [out EXCEPT !.header = "gzip", !.under[Gzip(at)] = W,
                                !.buffer[at] = <<>>]
          /\ writer' = [writer EXCEPT ![Ctx(at)] = Gzip(at)]
          /\ CallNext(Gzip(at), path)
     ELSE CallNext(W, path) /\ UNCHANGED <<out, writer>>
  /\ UNCHANGED path

\* Mutant of Restore: the gzip writer stays.
RestoreNot == writer

\* The writer that Compress found.
Restore == [writer EXCEPT ![Ctx(at)] = out.under[Gzip(at)]]

CompressUp ==
  /\ Up("compress")
  /\ IF accepts THEN out' = CloseGzip(out, at) /\ writer' = Restore
     ELSE UNCHANGED <<out, writer>>
  /\ Leave
  /\ UNCHANGED <<dir, err, path, logged>>

\* CORS answers a preflight request and passes on any other.
CorsDown(preflight) ==
  /\ Down("cors")
  /\ IF preflight THEN out' = WriteHeader(out, W, 204) /\ Answers
     ELSE CallNext(W, path) /\ UNCHANGED <<out, writer, path>>

\* What BasicAuth, BodyLimit and Decompress refuse a request with.
Unauthorized == 401
RequestEntityTooLarge == 413
BadRequest == 400
Refusals == {Unauthorized, RequestEntityTooLarge, BadRequest}

\* Each of them passes the request on or returns its HTTPError.
GuardDown(e) ==
  /\ Down("guard")
  /\ IF e = None THEN CallNext(W, path) /\ UNCHANGED <<out, writer, path>>
     ELSE Begin("up", e)

\* Mutant of Adopt: every writer is treated as a foreign one.
AdoptAlways(w) ==
  /\ out' = [out EXCEPT !.under[Base(Ctx(at))] = w, !.recorded[Ctx(at)] = 0]
  /\ writer' = [writer EXCEPT ![Ctx(at)] = Base(Ctx(at))]

\* FromStd: the chain goes on with the writer w that the adapted middleware
\* passes to its next handler.  A writer that is not a goxpress.ResponseWriter
\* is put below Context.writer.
Adopt(w) ==
  IF w[1] = "wrapper"
  THEN /\ out' = [out EXCEPT !.under[w] = W, !.under[Base(Ctx(at))] = w,
                             !.recorded[Ctx(at)] = 0]
       /\ writer' = [writer EXCEPT ![Ctx(at)] = Base(Ctx(at))]
  ELSE writer' = [writer EXCEPT ![Ctx(at)] = w] /\ UNCHANGED out

StdDown ==
  /\ dir = "down" /\ chain[at] \in {"std", "wrapper"}
  /\ Adopt(IF chain[at] = "wrapper" THEN Wrapper(at) ELSE W)
  /\ CallNext(writer'[Ctx(at)], path)
  /\ UNCHANGED path

RecovererDown ==
  Down("recoverer") /\ CallNext(W, path) /\ UNCHANGED <<out, writer, path>>

\* Of the layers that only pass results on.
PassUp ==
  /\ dir = "up" /\ at > 0
  /\ chain[at] \in {"std", "wrapper", "recoverer", "cors", "guard"}
  /\ Leave
  /\ UNCHANGED <<dir, err, out, writer, path, logged>>

\* A Recoverer stops every panic but http.ErrAbortHandler.
RecovererPanic ==
  /\ dir = "panic" /\ at > 0 /\ chain[at] = "recoverer" /\ err # ErrAbortHandler
  /\ out' = IF Status(out, W) = 0 THEN WriteHeader(out, W, 500) ELSE out
  /\ at' = at - 1 /\ dir' = "up" /\ err' = None
  /\ UNCHANGED <<request, writer, path, logged, writes, saved, chunks, failed,
                 unwound>>

\* The mounted router takes the panic, if it does recover.
Recovers == recovery /\ err # ErrAbortHandler

\* A panic leaves every other layer without running any more of it.
PanicUp ==
  /\ dir = "panic" /\ at > 0
  /\ ~(chain[at] = "recoverer" /\ err # ErrAbortHandler)
  /\ ~(chain[at] = "mount" /\ Recovers)
  /\ Leave
  /\ UNCHANGED <<dir, err, out, writer, path, logged>>

\* The delegate of Mount: the prefix is cut off and the second router serves
\* the request on a Context of its own, over the writer of the first.
MountDown ==
  /\ Down("mount")
  /\ out' = [out EXCEPT !.under[Base(2)] = W, !.recorded[2] = 0]
  /\ writer' = [writer EXCEPT ![2] = Base(2)]
  /\ path' = "rest"
  /\ CallNext(W, "rest")

\* runChain of the mounted router ends, and with it ServeHTTP: the error or
\* panic has been answered, and the delegate returns nil.
MountUp ==
  /\ at > 0 /\ chain[at] = "mount"
  /\ dir = "up" \/ (dir = "panic" /\ Recovers)
  /\ out' = IF dir = "panic" THEN DefaultErrorHandler(out, writer[2], 500)
            ELSE IF err # None THEN DefaultErrorHandler(out, writer[2], err)
            ELSE out
  /\ path' = "full"
  /\ at' = at - 1 /\ dir' = "up" /\ err' = None
  /\ UNCHANGED <<request, writer, logged, writes, saved, chunks, failed,
                 unwound>>

-----------------------------------------------------------------------------
(* The handler and the router.                                             *)

InHandler == Down("handler")

\* The handler sets a status, or writes a chunk of the body.  A write that does
\* not come to the connection comes back to the writer it started at, until the
\* stack is exhausted, which ends the program.
HandlerStatus(code) ==
  /\ InHandler /\ writes < MaxWrites
  /\ out' = WriteHeader(out, W, code)
  /\ writes' = writes + 1
  /\ UNCHANGED <<request, at, dir, err, writer, path, logged, saved, chunks,
                 failed, unwound>>

HandlerWrite ==
  /\ InHandler /\ writes < MaxWrites
  /\ writes' = writes + 1
  /\ chunks' = chunks + 1
  /\ IF Reaches(out, W)
     THEN out' = Write(out, W, <<"chunk", chunks + 1>>) /\ UNCHANGED dir
     ELSE dir' = "crashed" /\ UNCHANGED out
  /\ UNCHANGED <<request, at, err, writer, path, logged, saved, failed, unwound>>

HandlerReturns == InHandler /\ Answers /\ UNCHANGED out

HandlerFails(d, e) == InHandler /\ Begin(d, e)

\* runChain of the main router ends, and net/http finishes the response.
Finish ==
  LET answered == IF dir = "panic" THEN DefaultErrorHandler(out, writer[1], 500)
                  ELSE IF err # None THEN DefaultErrorHandler(out, writer[1], err)
                  ELSE out
  IN  /\ at = 0
      /\ dir = "up" \/ (dir = "panic" /\ err # ErrAbortHandler)
      /\ IF err # None /\ ~Reaches(out, writer[1])
         THEN dir' = "crashed" /\ UNCHANGED out
         ELSE dir' = "done" /\ out' = WriteHeader(answered, Wire, 200)
      /\ UNCHANGED <<request, at, err, writer, path, logged, writes, saved,
                     chunks, failed, unwound>>

\* http.ErrAbortHandler goes on to net/http, which closes the connection.
Abort ==
  /\ at = 0 /\ dir = "panic" /\ err = ErrAbortHandler
  /\ dir' = "aborted"
  /\ UNCHANGED <<request, at, err, out, writer, path, logged, writes, saved,
                 chunks, failed, unwound>>

-----------------------------------------------------------------------------
Init ==
  /\ chain \in Chains /\ accepts \in BOOLEAN /\ recovery \in BOOLEAN
  /\ at = 1 /\ dir = "down" /\ err = None
  /\ out = [under |-> [w \in Writers |-> Wire], recorded |-> [c \in Contexts |-> 0],
            begun |-> {}, buffer |-> [i \in Layer |-> <<>>],
            header |-> "identity", status |-> 0, encoding |-> "identity",
            body |-> <<>>]
  /\ writer = [c \in Contexts |-> Base(c)]
  /\ path = "full"
  /\ logged = [i \in Layer |-> None] /\ writes = 0
  /\ saved = [i \in Layer |-> None] /\ chunks = 0
  /\ failed = None /\ unwound = {}

Next ==
  \/ LoggerDown \/ LoggerUp \/ CompressDown \/ CompressUp
  \/ \E preflight \in BOOLEAN : CorsDown(preflight)
  \/ \E e \in Refusals \cup {None} : GuardDown(e)
  \/ StdDown \/ RecovererDown \/ PassUp \/ RecovererPanic \/ PanicUp
  \/ MountDown \/ MountUp
  \/ \E code \in Codes : HandlerStatus(code) \/ HandlerFails("up", code)
  \/ HandlerWrite \/ HandlerReturns
  \/ \E e \in {OtherPanic, ErrAbortHandler} : HandlerFails("panic", e)
  \/ Finish \/ Abort

Spec == Init /\ [][Next]_vars

-----------------------------------------------------------------------------
(* Properties.                                                             *)

\* The layers that compress the response.
Compressing == {i \in DOMAIN chain : chain[i] = "compress" /\ accepts}

\* What the client makes of the response.
Decoded ==
  IF out.encoding = "identity" \/ out.status = 204 THEN out.body
  ELSE IF Len(out.body) = 2 /\ out.body[2][1] = "deflated" THEN out.body[2][2]
  ELSE <<<<"corrupt", 0>>>>

\* When nothing fails, the client decodes the body with the Content-Encoding it
\* was told and gets what the handler wrote, in order, through mounts, adapted
\* middleware and one Compress (gzipResponseWriter, CloseGzip).
BodyDecodes ==
  dir = "done" /\ failed = None /\ Cardinality(Compressing) <= 1 =>
    \/ out.status = 204 /\ out.body = <<>>
    \/ out.status # 204 /\ Decoded = [i \in 1 .. chunks |-> <<"chunk", i>>]

\* The router whose runChain deals with the failure begins behind this layer.
Boundary ==
  LET mount == {i \in 1 .. failed.at - 1 : chain[i] = "mount"}
  IN  IF mount = {} \/ (failed.dir = "panic" /\ ~recovery) THEN 0
      ELSE CHOOSE i \in mount : TRUE

\* Nothing had been sent when the failure began, and the response is complete.
Answered == dir = "done" /\ failed # None /\ failed.recorded = 0

\* The client gets the status of the failure, and a body it can decode.
FailureShown ==
  /\ out.status = failed.code
  /\ Decoded \in {<<>>, <<<<"error", failed.code>>>>}

\* An error or panic that comes before anything was written is answered with
\* its status, unless a Compress lies between it and its router
\* (DefaultErrorHandler behind Mount, Logger, CORS and FromStd).
FailureReachesClient ==
  Answered /\ Cardinality(Compressing) <= 1
  /\ (\A i \in Compressing : ~(Boundary < i /\ i < failed.at)) =>
    FailureShown

\* The README says that an HTTPError is rendered with its status and message.
HTTPErrorRendered == Answered /\ failed.dir = "up" => FailureShown

\* When Next returns, a layer finds the writer and the path it had when it
\* called Next; only a panic that a Recoverer further out has stopped may have
\* kept Compress and Mount from restoring them (Compress, Mount, FromStd).
ContextRestored ==
  dir = "up" /\ at > 0 /\ chain[at] # "handler"
  /\ ~(\E i \in DOMAIN chain :
         <<i, "panic">> \in unwound /\ chain[i] \in {"compress", "mount"}) =>
    saved[at] = [writer |-> W, path |-> path]

\* What a Logger wrote is the status the client gets, unless an error passed
\* through the Logger, which the router renders later (Logger).
LogTruthful ==
  dir = "done" =>
    \A i \in DOMAIN chain :
      logged[i] # None /\ <<i, "up">> \notin unwound => logged[i] = out.status

\* Whoever has control, its writer leads to the connection (FromStd, Compress,
\* Mount: each puts a writer on top of the one it found).
WritersReachWire ==
  at > 0 => Reaches(out, W)
=============================================================================
