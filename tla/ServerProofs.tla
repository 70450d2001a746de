---------------------------- MODULE ServerProofs ----------------------------
(***************************************************************************)
(* Proofs about Server, for any set of requests, any timeouts and any      *)
(* bound on time.                                                          *)
(***************************************************************************)
EXTENDS Server, TLAPS

\* The channel holds what Serve returned, once the goroutine is done with it.
ChannelInv ==
  /\ errc # "empty" => loop = "done"
  /\ errc = "nil" => serveErr = "closed"
  /\ errc = "serve error" => serveErr = "serve error"

\* The goroutine: not there before Notify, with an error once Serve is over,
\* and told that the server is closed by nobody else than Shutdown.
LoopInv ==
  /\ main \in {"listen", "notify"} => loop = "none"
  /\ result = "listen error" => loop = "none"
  /\ serveErr # "none" <=> loop \in {"stopped", "done"}
  /\ serveErr = "closed" => srv = "shutdown"
  /\ listener = "closed" => srv = "shutdown" \/ loop \in {"stopped", "done"}

\* ListenAndServe has called Shutdown after a signal and for no other reason.
MainInv ==
  /\ result # "none" <=> main = "returned"
  /\ srv = "shutdown" <=> main = "shutdown" \/ result \in {"nil", "deadline exceeded"}
  /\ srv = "shutdown" => ctx = "done"

\* What a result says of the rest, for ever after.
ResultInv ==
  /\ result \in {"nil", "deadline exceeded"} => loop # "serving"
  /\ result = "nil" => Serving = {}
  /\ ErrorsReported
  /\ DrainIsPatient

\* The inductive invariant: the two goroutines agree on how far each of them is.
Inv == TypeOK /\ ChannelInv /\ LoopInv /\ MainInv /\ ResultInv

-----------------------------------------------------------------------------
\* The initial states satisfy the invariant (ListenAndServe has not begun).
LEMMA InitInv == Init => Inv
  BY ServerAssumption DEF Init, Inv, TypeOK, ChannelInv, LoopInv, MainInv,
     ResultInv, Serving, ErrorsReported, DrainIsPatient

\* The timeout and the time that has passed are numbers.
LEMMA Numbers == TypeOK => ShutdownTimeout \in Int /\ elapsed \in Nat
<1> SUFFICES ASSUME TypeOK PROVE ShutdownTimeout \in Int /\ elapsed \in Nat
  OBVIOUS
<1>1. ShutdownTimeout \in Timeouts /\ elapsed \in 0 .. MaxTime
  BY DEF TypeOK
<1> QED
  BY <1>1, ServerAssumption

\* Whoever has waited for Timeout has waited for the configured time, or for
\* the default where none is configured.
LEMMA TimeoutBound ==
  ASSUME ShutdownTimeout \in Int, elapsed \in Nat, elapsed >= Timeout
  PROVE  \/ ShutdownTimeout > 0 /\ elapsed >= ShutdownTimeout
         \/ ShutdownTimeout <= 0 /\ elapsed >= DefaultShutdownTimeout
<1>1. CASE ShutdownTimeout <= 0
  BY <1>1 DEF Timeout
<1>2. CASE ShutdownTimeout > 0
  BY <1>2, ServerAssumption DEF Timeout
<1> QED
  BY <1>1, <1>2

\* Every step of the main goroutine keeps the invariant (serve).
LEMMA MainStep == Inv /\ Main => Inv'
<1> SUFFICES ASSUME Inv, Main PROVE Inv'
  OBVIOUS
<1> USE ServerAssumption DEF Inv, TypeOK, ChannelInv, LoopInv, MainInv,
      ResultInv, ErrorsReported, DrainIsPatient, Return, Serving
<1>1. ASSUME NEW ok \in BOOLEAN, Listen(ok) PROVE Inv'
  BY <1>1 DEF Listen
<1>2. CASE Notify
  BY <1>2 DEF Notify
<1>3. CASE SelectServe
  <2>1. errc = "serve error" /\ serveErr = "serve error"
    BY <1>3 DEF SelectServe
  <2>2. result' = "serve error" /\ errc' = "empty"
    BY <1>3, <2>1 DEF SelectServe
  <2> QED
    BY <1>3, <2>1, <2>2 DEF SelectServe
<1>4. CASE SelectSignal
  BY <1>4 DEF SelectSignal
<1>5. CASE ShutdownReturns
  <2>1. CASE Serving = {} /\ Return("nil")
    BY <1>5, <2>1 DEF ShutdownReturns
  <2>2. CASE elapsed >= Timeout /\ Return("deadline exceeded")
    <3>1. ShutdownTimeout \in Int /\ elapsed \in Nat
      BY Numbers
    <3>2. elapsed' = elapsed /\ ShutdownTimeout' = ShutdownTimeout
      BY <1>5 DEF ShutdownReturns
    <3>3. elapsed >= Timeout => \/ ShutdownTimeout > 0 /\ elapsed >= ShutdownTimeout
                                \/ /\ ShutdownTimeout <= 0
                                   /\ elapsed >= DefaultShutdownTimeout
      BY <3>1, TimeoutBound
    <3>4. DrainIsPatient'
      BY <2>2, <3>2, <3>3
    <3>5. TypeOK' /\ ChannelInv' /\ LoopInv' /\ MainInv'
      BY <1>5, <2>2 DEF ShutdownReturns
    <3>6. ResultInv'
      BY <1>5, <2>2, <3>4 DEF ShutdownReturns
    <3> QED
      BY <3>5, <3>6
  <2> QED
    BY <1>5, <2>1, <2>2 DEF ShutdownReturns
<1> QED
  BY <1>1, <1>2, <1>3, <1>4, <1>5 DEF Main

\* Every step of the goroutine that calls Serve keeps the invariant.
LEMMA LoopStep == Inv /\ Loop => Inv'
<1> SUFFICES ASSUME Inv, Loop PROVE Inv'
  OBVIOUS
<1> USE ServerAssumption DEF Inv, TypeOK, ChannelInv, LoopInv, MainInv,
      ResultInv, ErrorsReported, DrainIsPatient, Serving
<1>1. CASE Serve
  <2>1. CASE srv = "shutdown"
    BY <1>1, <2>1 DEF Serve
  <2>2. CASE srv = "open"
    BY <1>1, <2>2 DEF Serve
  <2> QED
    BY <2>1, <2>2
<1>2. CASE ServeClosed
  BY <1>2 DEF ServeClosed
<1>3. CASE Send
  <2>1. errc' = IF serveErr = "closed" THEN "nil" ELSE "serve error"
    BY <1>3 DEF Send
  <2> QED
    BY <1>3, <2>1 DEF Send
<1> QED
  BY <1>1, <1>2, <1>3 DEF Loop

\* The time of a drain stays within its bound.
LEMMA TickBound == TypeOK /\ Tick => elapsed' \in 0 .. MaxTime
<1> SUFFICES ASSUME TypeOK, Tick PROVE elapsed' \in 0 .. MaxTime
  OBVIOUS
<1>1. elapsed \in 0 .. MaxTime /\ elapsed < MaxTime /\ elapsed' = elapsed + 1
  BY DEF TypeOK, Tick
<1> QED
  BY <1>1, ServerAssumption

\* So does everything that signals, clients, handlers and time do.
LEMMA WorldStep == Inv /\ World => Inv'
<1> SUFFICES ASSUME Inv, World PROVE Inv'
  OBVIOUS
<1> USE ServerAssumption DEF Inv, TypeOK, ChannelInv, LoopInv, MainInv,
      ResultInv, ErrorsReported, DrainIsPatient, Serving
<1>1. CASE AcceptFails
  BY <1>1 DEF AcceptFails
<1>2. CASE Signal
  BY <1>2 DEF Signal
<1>3. CASE Tick
  <2>1. elapsed' \in 0 .. MaxTime
    BY <1>3, TickBound DEF Inv, Tick
  <2>2. result' = "none"
    BY <1>3 DEF Tick
  <2>3. TypeOK' /\ ChannelInv' /\ LoopInv' /\ MainInv'
    BY <1>3, <2>1, <2>2 DEF Tick
  <2>4. ResultInv'
    BY <1>3, <2>2 DEF Tick
  <2> QED
    BY <2>3, <2>4
<1>4. ASSUME NEW r \in Requests, Accept(r) PROVE Inv'
  BY <1>4 DEF Accept
<1>5. ASSUME NEW r \in Requests, NEW how \in {"answered", "hijacked"},
             EndRequest(r, how)
      PROVE Inv'
  <2>1. Serving' \subseteq Serving
    BY <1>5 DEF EndRequest
  <2>2. TypeOK'
    BY <1>5 DEF EndRequest
  <2>3. ChannelInv' /\ LoopInv' /\ MainInv'
    BY <1>5 DEF EndRequest
  <2>4. ResultInv'
    BY <1>5, <2>1 DEF EndRequest
  <2> QED
    BY <2>2, <2>3, <2>4
<1> QED
  BY <1>1, <1>2, <1>3, <1>4, <1>5 DEF World

\* Inv holds in every reachable state.
LEMMA Invariance == Spec => []Inv
<1>1. Inv /\ UNCHANGED vars => Inv'
  BY DEF Inv, TypeOK, ChannelInv, LoopInv, MainInv, ResultInv, ErrorsReported,
     DrainIsPatient, Serving, vars
<1>2. Inv /\ [Next]_vars => Inv'
  BY <1>1, MainStep, LoopStep, WorldStep DEF Next
<1> QED
  BY InitInv, <1>2, PTL DEF Spec

-----------------------------------------------------------------------------
\* The variables of the server keep their types (server.go).
THEOREM TypeCorrect == Spec => []TypeOK
<1>1. Inv => TypeOK
  BY DEF Inv
<1> QED
  BY <1>1, Invariance, PTL

\* nil means that a signal came, that every request was served and that none
\* will be accepted any more; a drain that fails took all of the time that is
\* configured, or all of the default time where none is (serve).
THEOREM GracefulShutdownHolds == Spec => []GracefulShutdown
<1>1. Inv => GracefulShutdown
  BY DEF Inv, MainInv, ResultInv, GracefulShutdown, CleanShutdown
<1> QED
  BY <1>1, Invariance, PTL

\* An error of Serve is what ListenAndServe returns, unless a signal raced it,
\* and nothing else is returned as one.
THEOREM ErrorsReportedHolds == Spec => []ErrorsReported
<1>1. Inv => ErrorsReported
  BY DEF Inv, ResultInv
<1> QED
  BY <1>1, Invariance, PTL
=============================================================================
