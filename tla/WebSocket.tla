----------------------------- MODULE WebSocket -----------------------------
(***************************************************************************)
(* A server-side WebSocket connection (ws/ws.go): Upgrade, ReadMessage     *)
(* with its reassembly of fragments and its answers to control frames,     *)
(* WriteMessage and Close by several goroutines, and the connection, which *)
(* may break at any time.                                                  *)
(*                                                                         *)
(* The client keeps to RFC 6455: it sends the fragments of a message one   *)
(* after the other, with control frames wherever it likes.  One bit stands *)
(* for the content of a payload; its length is a number of its own.        *)
(***************************************************************************)
EXTENDS Integers, Sequences, FiniteSets

CONSTANTS
  Handler,      \* the goroutine of the handler, the only one that reads
  Writers,      \* other goroutines that write to the connection
  DataTypes,    \* message types in use, of opText and opBinary
  Masks,        \* whether clients mask: a set of BOOLEANs
  ReadSizes,    \* payload lengths of the client's frames
  WriteSizes,   \* payload lengths each goroutine writes
  maxPayload,   \* maxPayload
  MaxFrames,    \* bound: frames the client sends
  MaxInFlight,  \* bound: frames the client is ahead of the server
  MaxWrites,    \* bound: messages one goroutine writes
  None

Procs == {Handler} \cup Writers

opContinuation == 0
opText == 1
opBinary == 2
opClose == 8
opPing == 9
opPong == 10
opReserved == 3

Opcodes == {opContinuation, opText, opBinary, opReserved, opClose, opPing, opPong}

VARIABLES
  pc,         \* where the handler's goroutine is
  aborted,    \* Upgrade has called c.Abort()
  connUp,     \* the TCP connection carries data
  inbox,      \* frames on their way to the server
  wmu,        \* who holds Conn.wmu, or None
  job,        \* the frame each goroutine is writing, or None
  out,        \* what went out, one element per conn.Write
  msg,        \* the message being reassembled, or None
  result,     \* what the last ReadMessage returned
  delivered,  \* the messages ReadMessage returned
  writes,     \* messages each goroutine has written
  \* the client
  frames,     \* frames it has sent
  partial,    \* the message it is in the middle of, or None
  sent,       \* the messages it has sent completely
  pinged,     \* the lengths of the pings it has sent
  provoked    \* what it has sent that makes ReadMessage return an error

server == <<pc, aborted, wmu, job, out, msg, result, delivered, writes>>
client == <<frames, partial, sent, pinged, provoked>>
vars == <<server, connUp, inbox, client>>

-----------------------------------------------------------------------------
(* Frame headers, byte by byte.                                            *)

\* n >> 8*i
Shift(n, i) ==
  LET shr[j \in 0 .. 7] == IF j = 0 THEN n ELSE shr[j - 1] \div 256 IN shr[i]

\* Lengths that a Go int can have.
Length == {n \in Nat : Shift(n, 7) < 128}

bigEndian(n, width) == [i \in 1 .. width |-> Shift(n, width - i) % 256]

Uint(bs) ==
  LET acc[i \in 0 .. Len(bs)] == IF i = 0 THEN 0 ELSE acc[i - 1] * 256 + bs[i]
  IN  acc[Len(bs)]

\* The header RFC 6455 prescribes, as a client builds it.
RfcHeader(fin, op, masked, n) ==
  LET b0 == op + IF fin THEN 128 ELSE 0
      m == IF masked THEN 128 ELSE 0
  IN  IF n <= 125 THEN <<b0, m + n>>
      ELSE IF n <= 65535 THEN <<b0, m + 126>> \o bigEndian(n, 2)
      ELSE <<b0, m + 127>> \o bigEndian(n, 8)

\* The header writeFrame builds: FIN set, never masked.
frameHeader(op, n) ==
  IF n < 126 THEN <<128 + op, n>>
  ELSE IF n <= 65535 THEN <<128 + op, 126, (n \div 256) % 256, n % 256>>
  ELSE <<128 + op, 127>> \o bigEndian(n, 8)

\* What readFrame makes of a header.
readHeader(h) ==
  LET short == h[2] % 128
  IN  [fin |-> h[1] >= 128, opcode |-> h[1] % 16, masked |-> h[2] >= 128,
       length |-> IF short \in {126, 127} THEN Uint(SubSeq(h, 3, Len(h)))
                  ELSE short]

-----------------------------------------------------------------------------
(* The client and the network.                                             *)

Message == [type : DataTypes, data : Seq({0, 1})]

\* A call of writeFrame.
Job == [op : Opcodes, length : Length,
        for : {"message", "pong", "echo", "close", "conn"}]

Results == {"message", "error", "expected continuation frame", "ErrClosed"}

ASSUME SocketAssumption ==
  /\ Handler \notin Writers
  /\ DataTypes \subseteq {opText, opBinary} /\ Masks \subseteq BOOLEAN
  /\ ReadSizes \subseteq Length /\ WriteSizes \in [Procs -> SUBSET Length]
  /\ maxPayload \in Nat /\ maxPayload >= 125
  /\ MaxFrames \in Nat /\ MaxInFlight \in Nat /\ MaxWrites \in Nat
  /\ None \notin Procs \cup Message \cup Job \cup Results

\* A frame as it travels.  Masking is an exclusive or, here with the bit 1.
Sealed(fin, op, masked, n, bit) ==
  [header |-> RfcHeader(fin, op, masked, n),
   body |-> IF masked THEN (bit + 1) % 2 ELSE bit]

Sends(f) ==
  /\ pc \notin {"new", "refused"} /\ connUp
  /\ frames < MaxFrames /\ Len(inbox) < MaxInFlight
  /\ frames' = frames + 1
  /\ inbox' = Append(inbox, f)
  /\ UNCHANGED <<server, connUp>>

\* A fragment of a message, the first or a later one.
SendData(type, fin, masked, n, bit) ==
  LET p == IF partial = None THEN [type |-> type, data |-> <<bit>>]
           ELSE [partial EXCEPT !.data = Append(@, bit)]
  IN  /\ n \notin 1 .. maxPayload => bit = 0
      /\ partial # None => type = partial.type
      /\ Sends(Sealed(fin, IF partial = None THEN type ELSE opContinuation,
                      masked, n, bit))
      /\ partial' = IF fin THEN None ELSE p
      /\ sent' = IF fin THEN Append(sent, p) ELSE sent
      /\ provoked' = provoked \cup IF n > maxPayload THEN {"too long"} ELSE {}
      /\ UNCHANGED pinged

\* A control frame, or one with an opcode reserved for the future.
SendControl(op, masked, n) ==
  /\ n < 126
  /\ Sends(Sealed(TRUE, op, masked, n, 0))
  /\ pinged' = IF op = opPing THEN Append(pinged, n) ELSE pinged
  /\ provoked' = provoked \cup
       CASE partial # None -> {"interruption"}
         [] partial = None /\ op = opClose -> {"closing"}
         [] partial = None /\ op = opReserved -> {"reserved opcode"}
         [] OTHER -> {}
  /\ UNCHANGED <<partial, sent>>

\* No more data in either direction.  Of what was in flight the server still
\* reads as much as has come through.
Down ==
  /\ connUp' = FALSE
  /\ \E n \in 0 .. Len(inbox) : inbox' = SubSeq(inbox, 1, n)

\* The client goes away, or the network does.
Break ==
  /\ pc \notin {"new", "refused"} /\ connUp
  /\ Down
  /\ UNCHANGED <<server, client>>

-----------------------------------------------------------------------------
(* Writing.                                                                *)

\* A goroutine calls writeFrame; "for" is what it does when that returns.
writeFrame(p, op, n, for) ==
  job' = [job EXCEPT ![p] = [op |-> op, length |-> n, for |-> for]]

\* writeFrame has returned, ok or with an error.
Returned(p, ok) ==
  LET for == job[p].for
  IN  \/ /\ for = "message"
         /\ job' = [job EXCEPT ![p] = None]
         /\ UNCHANGED <<pc, result>>
      \/ /\ for = "close"
         /\ job' = [job EXCEPT ![p].for = "conn"]
         /\ UNCHANGED <<pc, result>>
      \/ /\ for = "pong"
         /\ job' = [job EXCEPT ![p] = None]
         /\ pc' = IF ok THEN "reading" ELSE "handler"
         /\ result' = IF ok THEN result ELSE "error"
      \/ /\ for = "echo"
         /\ job' = [job EXCEPT ![p] = None]
         /\ pc' = "handler"
         /\ result' = "ErrClosed"

Chunk(p, header) ==
  [by |-> p, op |-> job[p].op, length |-> job[p].length, header |-> header]

WantsToWrite(p) == job[p] # None /\ job[p].for # "conn" /\ wmu # p

\* What a conn.Write may report.  On a connection that is down it fails, unless
\* the kernel still takes data that no one will read.
Outcomes == IF connUp THEN {TRUE} ELSE BOOLEAN

\* Mutant of WriteHeader: the mutex is not respected.
WriteHeaderUnlocked(p) ==
  /\ WantsToWrite(p)
  /\ connUp
  /\ out' = Append(out, Chunk(p, frameHeader(job[p].op, job[p].length)))
  /\ IF job[p].length > 0 THEN wmu' = p /\ UNCHANGED <<pc, job, result>>
     ELSE Returned(p, TRUE) /\ UNCHANGED wmu
  /\ UNCHANGED <<aborted, connUp, msg, delivered, writes, inbox, client>>

\* Lock, and the conn.Write of the header.
WriteHeader(p) ==
  /\ WantsToWrite(p)
  /\ wmu = None
  /\ out' = IF connUp
            THEN Append(out, Chunk(p, frameHeader(job[p].op, job[p].length)))
            ELSE out
  /\ \E ok \in Outcomes :
       IF ok /\ job[p].length > 0 THEN wmu' = p /\ UNCHANGED <<pc, job, result>>
       ELSE Returned(p, ok) /\ UNCHANGED wmu
  /\ UNCHANGED <<aborted, connUp, msg, delivered, writes, inbox, client>>

\* Mutant of WritePayload: no deferred Unlock when the write fails.
WritePayloadKeepsLock(p) ==
  /\ wmu = p /\ job[p] # None /\ job[p].for # "conn"
  /\ wmu' = IF connUp THEN None ELSE wmu
  /\ out' = IF connUp THEN Append(out, Chunk(p, <<>>)) ELSE out
  /\ \E ok \in Outcomes : Returned(p, ok)
  /\ UNCHANGED <<aborted, connUp, msg, delivered, writes, inbox, client>>

\* The conn.Write of the payload, and the deferred Unlock.
WritePayload(p) ==
  /\ wmu = p
  /\ wmu' = None
  /\ out' = IF connUp THEN Append(out, Chunk(p, <<>>)) ELSE out
  /\ \E ok \in Outcomes : Returned(p, ok)
  /\ UNCHANGED <<aborted, connUp, msg, delivered, writes, inbox, client>>

\* Goroutine p is in code of its own.
Free(p) == job[p] = None /\ (p = Handler => pc = "handler")

\* WriteMessage, WriteText.
WriteMessage(p, type, n) ==
  /\ Free(p) /\ pc \notin {"new", "refused"} /\ writes[p] < MaxWrites
  /\ writeFrame(p, type, n, "message")
  /\ writes' = [writes EXCEPT ![p] = @ + 1]
  /\ UNCHANGED <<pc, aborted, wmu, out, msg, result, delivered, connUp, inbox,
                 client>>

\* Close, which a handler defers.
Close(p) ==
  /\ Free(p) /\ pc \notin {"new", "refused"}
  /\ p # Handler => writes[p] < MaxWrites
  /\ writeFrame(p, opClose, 0, "close")
  /\ pc' = IF p = Handler THEN "done" ELSE pc
  /\ writes' = IF p = Handler THEN writes ELSE [writes EXCEPT ![p] = @ + 1]
  /\ UNCHANGED <<aborted, wmu, out, msg, result, delivered, connUp, inbox,
                 client>>

\* The conn.Close in Close, which does not wait for the mutex.
CloseConn(p) ==
  /\ job[p] # None /\ job[p].for = "conn"
  /\ job' = [job EXCEPT ![p] = None]
  /\ Down
  /\ UNCHANGED <<pc, aborted, wmu, out, msg, result, delivered, writes, client>>

-----------------------------------------------------------------------------
(* Upgrade and ReadMessage.                                                *)

Handshake == {"Upgrade", "Connection", "Sec-WebSocket-Version",
              "Sec-WebSocket-Key"}

\* The headers in good are as they should be.  Once hijacked, a connection
\* that does not take the answer is closed.
Upgrade(good, hijacked, answered) ==
  /\ pc = "new"
  /\ IF good = Handshake /\ hijacked /\ answered
     THEN pc' = "handler" /\ aborted' = TRUE
     ELSE pc' = "refused" /\ UNCHANGED aborted
  /\ connUp' = ~(good = Handshake /\ hijacked /\ ~answered)
  /\ UNCHANGED <<wmu, job, out, msg, result, delivered, writes, inbox, client>>

\* The handler calls ReadMessage, until that returns an error.
ReadMessage ==
  /\ Free(Handler)
  /\ result \in {None, "message"}
  /\ pc' = "reading"
  /\ UNCHANGED <<aborted, wmu, job, out, msg, result, delivered, writes, connUp,
                 inbox, client>>

\* Mutant of Unmask: payloads are taken as they come.
UnmaskNot(f, h) == f.body

\* The loop over the payload in readFrame.
Unmask(f, h) == IF h.masked THEN (f.body + 1) % 2 ELSE f.body

\* ReadMessage returns an error and drops what it had put together.
Fails(why) ==
  /\ pc' = "handler" /\ result' = why /\ msg' = None
  /\ UNCHANGED <<job, delivered>>

\* Mutant of Extends: a message that was returned is not let go.
ExtendsKeeps(m, fin) ==
  /\ IF fin
     THEN /\ delivered' = Append(delivered, m)
          /\ pc' = "handler" /\ result' = "message" /\ msg' = m
     ELSE msg' = m /\ UNCHANGED <<pc, result, delivered>>
  /\ UNCHANGED job

\* m is complete when fin is set.
Extends(m, fin) ==
  /\ IF fin
     THEN /\ delivered' = Append(delivered, m)
          /\ pc' = "handler" /\ result' = "message" /\ msg' = None
     ELSE msg' = m /\ UNCHANGED <<pc, result, delivered>>
  /\ UNCHANGED job

\* A ping is answered, a close echoed, with the payload that came.
Answer(h) ==
  /\ IF h.opcode = opPing
     THEN pc' = "pong" /\ writeFrame(Handler, opPong, h.length, "pong")
     ELSE pc' = "echo" /\ writeFrame(Handler, opClose, h.length, "echo")
  /\ UNCHANGED <<msg, result, delivered>>

\* The inner loop of ReadMessage, on the frame after an unfinished message.
Continues(h, bit) ==
  IF h.opcode = opContinuation
  THEN Extends([msg EXCEPT !.data = Append(@, bit)], h.fin)
  ELSE Fails("expected continuation frame")

\* The outer loop, on any other frame.
Starts(h, bit) ==
  \/ /\ h.opcode \in {opText, opBinary}
     /\ Extends([type |-> h.opcode, data |-> <<bit>>], h.fin)
  \/ h.opcode \in {opPing, opClose} /\ Answer(h)
  \/ h.opcode = opPong /\ UNCHANGED <<pc, job, msg, result, delivered>>
  \/ /\ h.opcode \notin {opText, opBinary, opPing, opClose, opPong}
     /\ Fails("error")

\* readFrame, and what the two loops of ReadMessage make of the frame.
ReadFrame ==
  LET f == Head(inbox)
      h == readHeader(f.header)
      bit == Unmask(f, h)
  IN  /\ pc = "reading" /\ inbox # <<>>
      /\ inbox' = Tail(inbox)
      /\ \/ h.length > maxPayload /\ Fails("error")
         \/ h.length <= maxPayload /\ msg # None /\ Continues(h, bit)
         \/ h.length <= maxPayload /\ msg = None /\ Starts(h, bit)
      /\ UNCHANGED <<aborted, wmu, out, writes, connUp, client>>

\* readFrame on a connection that has nothing more to read.
ReadFails ==
  /\ pc = "reading" /\ inbox = <<>> /\ ~connUp
  /\ Fails("error")
  /\ UNCHANGED <<aborted, wmu, out, writes, connUp, inbox, client>>

-----------------------------------------------------------------------------
Init ==
  /\ pc = "new" /\ aborted = FALSE
  /\ connUp = TRUE /\ inbox = <<>>
  /\ wmu = None /\ job = [p \in Procs |-> None] /\ out = <<>>
  /\ msg = None /\ result = None /\ delivered = <<>>
  /\ writes = [p \in Procs |-> 0]
  /\ frames = 0 /\ partial = None /\ sent = <<>> /\ pinged = <<>>
  /\ provoked = {}

Client ==
  \/ \E type \in DataTypes, fin \in BOOLEAN, masked \in Masks,
        n \in ReadSizes, bit \in {0, 1} : SendData(type, fin, masked, n, bit)
  \/ \E op \in {opPing, opPong, opClose, opReserved}, masked \in Masks,
        n \in ReadSizes : SendControl(op, masked, n)
  \/ Break

Reader ==
  \/ \E good \in SUBSET Handshake, hijacked, answered \in BOOLEAN :
       Upgrade(good, hijacked, answered)
  \/ ReadMessage
  \/ ReadFrame
  \/ ReadFails

Writer(p) ==
  \/ \E type \in DataTypes, n \in WriteSizes[p] : WriteMessage(p, type, n)
  \/ Close(p)
  \/ WriteHeader(p)
  \/ WritePayload(p)
  \/ CloseConn(p)

Next == Client \/ Reader \/ \E p \in Procs : Writer(p)

\* A write ends, because the client reads or the connection breaks; a Go mutex
\* that is free again and again is handed to everyone who waits for it.
Fairness ==
  \A p \in Procs :
    SF_vars(WriteHeader(p)) /\ WF_vars(WritePayload(p)) /\ WF_vars(CloseConn(p))

Spec == Init /\ [][Next]_vars
FairSpec == Spec /\ Fairness

-----------------------------------------------------------------------------
(* Properties.                                                             *)

Byte == 0 .. 255

\* Every variable holds a value of its type.
TypeOK ==
  /\ pc \in {"new", "refused", "handler", "reading", "pong", "echo", "done"}
  /\ aborted \in BOOLEAN /\ connUp \in BOOLEAN
  /\ inbox \in Seq([header : Seq(Byte), body : {0, 1}])
  /\ wmu \in Procs \cup {None} /\ job \in [Procs -> Job \cup {None}]
  /\ out \in Seq([by : Procs, op : Opcodes, length : Length, header : Seq(Byte)])
  /\ msg \in Message \cup {None} /\ partial \in Message \cup {None}
  /\ result \in Results \cup {None}
  /\ delivered \in Seq(Message) /\ sent \in Seq(Message) /\ pinged \in Seq(Nat)
  /\ writes \in [Procs -> 0 .. MaxWrites] /\ frames \in 0 .. MaxFrames

\* The client finds whole frames in what the goroutines and the reader's pongs
\* and close echoes put on the connection: behind every header its payload, of
\* the length the header tells.  Only a frame that is being written, or the
\* last one of a connection that is down, may lack it (writeFrame, wmu).
FramesIntact ==
  \A i \in DOMAIN out :
    LET h == readHeader(out[i].header)
    IN  IF out[i].header = <<>> THEN i > 1 /\ out[i - 1].header # <<>>
        ELSE /\ h.fin /\ ~h.masked /\ h.opcode = out[i].op
             /\ IF h.length = 0 THEN i < Len(out) => out[i + 1].header # <<>>
                ELSE IF i = Len(out) THEN wmu = out[i].by \/ ~connUp
                ELSE /\ out[i + 1].header = <<>>
                     /\ out[i + 1].by = out[i].by
                     /\ out[i + 1].length = h.length

\* However a message is fragmented and masked, and whatever frames come
\* between messages, ReadMessage returns the messages the client sent, whole
\* and in their order (ReadMessage, readFrame).
MessagesInOrder ==
  /\ Len(delivered) <= Len(sent)
  /\ \A i \in DOMAIN delivered : delivered[i] = sent[i]

\* The first chunk of a pong, and how many of those the first n chunks have.
IsPong(c) == c.header # <<>> /\ c.op = opPong
Pongs(chunks, n) == Cardinality({i \in 1 .. n : IsPong(chunks[i])})

\* Pongs are sent in the order of the pings they answer and carry their
\* payloads, while others write to the connection (ReadMessage).
PongsEchoPings ==
  \A i \in DOMAIN out : IsPong(out[i]) =>
    /\ Pongs(out, i) <= Len(pinged)
    /\ out[i].length = pinged[Pongs(out, i)]

\* What the client receives: whole frames, and the pongs it asked for among them
\* (writeFrame, ReadMessage).
OutputCorrect == FramesIntact /\ PongsEchoPings

\* A control frame came between the fragments of a message.  ReadMessage then
\* fails on any of them, against its comment, which says that pings are answered,
\* pongs discarded and closes echoed and told by ErrClosed.
Interrupted == "interruption" \in provoked

\* As long as that has not happened, ReadMessage takes every sequence of frames
\* that RFC 6455 allows, pings and pongs included.  It returns ErrClosed only to
\* a client that closes, and another error only when the connection is gone or a
\* frame is too long or has a reserved opcode (ReadMessage, readFrame).
FailuresHaveCauses ==
  /\ ~Interrupted => result # "expected continuation frame"
  /\ result = "ErrClosed" => "closing" \in provoked
  /\ result = "error" =>
       ~connUp \/ provoked \cap {"too long", "reserved opcode"} # {}

\* Every call of writeFrame and Close ends, also when the connection breaks
\* between a header and its payload (the deferred Unlock).
WritesFinish ==
  \A p \in Procs : job[p] # None ~> job[p] = None
=============================================================================
