-------------------------- MODULE WebSocketProofs --------------------------
(***************************************************************************)
(* Proofs about WebSocket, for any number of goroutines, any frames of a   *)
(* conforming client and payloads of any length.                           *)
(***************************************************************************)
EXTENDS WebSocket, Induction, SequenceTheorems, FiniteSetTheorems, TLAPS

-----------------------------------------------------------------------------
(* Frame headers.                                                          *)

\* Taking off the last byte of n and putting it back.
LEMMA DivMod ==
  ASSUME NEW n \in Nat
  PROVE  /\ n \div 256 \in Nat /\ n % 256 \in Byte
         /\ (n \div 256) * 256 + (n % 256) = n
         /\ n < 256 => n % 256 = n
<1>1. n \div 256 \in Nat
  OBVIOUS
<1>2. n % 256 \in Byte
  BY DEF Byte
<1>3. (n \div 256) * 256 + (n % 256) = n
  OBVIOUS
<1>4. n < 256 => n % 256 = n
  OBVIOUS
<1> QED
  BY <1>1, <1>2, <1>3, <1>4

\* The bytes of n from the right.
Shifts(f, n) == f = [j \in 0 .. 7 |-> IF j = 0 THEN n ELSE f[j - 1] \div 256]

\* The recursion in Shift has a solution.
LEMMA ShiftsExist == \A n \in Nat : \E f : Shifts(f, n)
<1> SUFFICES ASSUME NEW n \in Nat PROVE \E f : Shifts(f, n)
  OBVIOUS
<1> DEFINE Upto(f, k) ==
             /\ f \in [0 .. k -> Nat] /\ f[0] = n
             /\ \A j \in 1 .. k : f[j] = f[j - 1] \div 256
           S == {k \in Nat : \E f : Upto(f, k)}
<1>1. 0 \in S
  <2>1. Upto([j \in 0 .. 0 |-> n], 0)
    OBVIOUS
  <2> QED
    BY <2>1
<1>2. ASSUME NEW k \in Nat, k \in S PROVE k + 1 \in S
  <2>1. PICK f : Upto(f, k)
    BY <1>2
  <2> DEFINE d == f[k] \div 256
             g == [j \in 0 .. k + 1 |-> IF j = k + 1 THEN d ELSE f[j]]
  <2>2. f[k] \in Nat /\ d \in Nat
    BY <2>1, DivMod
  <2>3. g \in [0 .. k + 1 -> Nat] /\ g[0] = n
    BY <2>1, <2>2
  <2>4. ASSUME NEW j \in 1 .. k + 1 PROVE g[j] = g[j - 1] \div 256
    <3>1. CASE j = k + 1
      <4>1. g[j] = d /\ g[j - 1] = f[k]
        BY <3>1
      <4> QED
        BY <4>1
    <3>2. CASE j \in 1 .. k
      <4>1. g[j] = f[j] /\ g[j - 1] = f[j - 1]
        BY <3>2
      <4> QED
        BY <2>1, <3>2, <4>1
    <3> QED
      BY <3>1, <3>2
  <2> HIDE DEF g
  <2>5. Upto(g, k + 1)
    BY <2>3, <2>4
  <2> HIDE DEF Upto
  <2> QED
    BY <2>5
<1> HIDE DEF S
<1>3. Nat \subseteq S
  BY <1>1, <1>2, NaturalInduction
<1>4. PICK f : Upto(f, 7)
  <2>1. 7 \in S
    BY <1>3
  <2> HIDE DEF Upto
  <2> QED
    BY <2>1 DEF S
<1> DEFINE e(j) == IF j = 0 THEN n ELSE f[j - 1] \div 256
<1>5. \A j \in 0 .. 7 : f[j] = e(j)
  BY <1>4
<1>6. f = [j \in 0 .. 7 |-> f[j]]
  BY <1>4
<1> HIDE DEF e
<1>7. f = [j \in 0 .. 7 |-> e(j)]
  BY <1>5, <1>6
<1> QED
  BY <1>7 DEF Shifts, e

\* Each byte further left is the one before divided by 256.
LEMMA ShiftSteps ==
  ASSUME NEW n \in Nat
  PROVE  /\ Shift(n, 0) = n /\ \A i \in 0 .. 7 : Shift(n, i) \in Nat
         /\ \A i \in 1 .. 7 : Shift(n, i) = Shift(n, i - 1) \div 256
<1> DEFINE f == CHOOSE f : Shifts(f, n)
<1>1. Shifts(f, n)
  BY ShiftsExist
<1>2. \A i : Shift(n, i) = f[i]
  BY DEF Shift, Shifts
<1> HIDE DEF f
<1>3. f[0] = n /\ \A i \in 1 .. 7 : f[i] = f[i - 1] \div 256
  BY <1>1 DEF Shifts
<1>4. \A i \in 0 .. 7 : f[i] \in Nat
  <2> DEFINE S == {i \in Nat : i <= 7 => f[i] \in Nat}
  <2>1. 0 \in S
    BY <1>3
  <2>2. ASSUME NEW i \in Nat, i \in S PROVE i + 1 \in S
    <3> SUFFICES ASSUME i + 1 <= 7 PROVE f[i + 1] \in Nat
      OBVIOUS
    <3>1. f[i] \in Nat /\ f[i + 1] = f[i] \div 256
      BY <1>3, <2>2
    <3> QED
      BY <3>1, DivMod
  <2> HIDE DEF S
  <2>3. Nat \subseteq S
    BY <2>1, <2>2, NaturalInduction
  <2> QED
    BY <2>3 DEF S
<1> QED
  BY <1>2, <1>3, <1>4

\* The function that Uint computes.
Accumulates(f, bs, n) ==
  f = [i \in 0 .. n |-> IF i = 0 THEN 0 ELSE f[i - 1] * 256 + bs[i]]

\* What a solution of the recursion in Uint satisfies.
LEMMA AccumulateSteps ==
  ASSUME NEW n \in Nat, NEW f, NEW bs, Accumulates(f, bs, n)
  PROVE  /\ DOMAIN f = 0 .. n /\ f[0] = 0
         /\ \A i \in 1 .. n : f[i] = f[i - 1] * 256 + bs[i]
<1> DEFINE e(i) == IF i = 0 THEN 0 ELSE f[i - 1] * 256 + bs[i]
<1>1. f = [i \in 0 .. n |-> e(i)]
  BY DEF Accumulates
<1> HIDE DEF e
<1>2. DOMAIN f = 0 .. n /\ \A i \in 0 .. n : f[i] = e(i)
  BY <1>1
<1> QED
  BY <1>2 DEF e

\* The recursion in Uint has a solution, for any bytes.
LEMMA AccumulateExists == \A n \in Nat : \A bs : \E f : Accumulates(f, bs, n)
<1> DEFINE S == {n \in Nat : \A bs : \E f : Accumulates(f, bs, n)}
<1>1. 0 \in S
  <2> SUFFICES ASSUME NEW bs PROVE \E f : Accumulates(f, bs, 0)
    OBVIOUS
  <2> WITNESS [i \in 0 .. 0 |-> 0]
  <2> QED
    BY DEF Accumulates
<1>2. ASSUME NEW n \in Nat, n \in S PROVE n + 1 \in S
  <2> SUFFICES ASSUME NEW bs PROVE \E f : Accumulates(f, bs, n + 1)
    OBVIOUS
  <2>1. PICK f : Accumulates(f, bs, n)
    BY <1>2
  <2> DEFINE e == f[n] * 256 + bs[n + 1]
             g == [i \in 0 .. n + 1 |-> IF i = n + 1 THEN e ELSE f[i]]
             h(i) == IF i = 0 THEN 0 ELSE g[i - 1] * 256 + bs[i]
  <2>2. f[0] = 0 /\ \A i \in 1 .. n : f[i] = f[i - 1] * 256 + bs[i]
    BY <2>1, AccumulateSteps
  <2> HIDE DEF e
  <2>3. /\ \A i \in 0 .. n : g[i] = f[i]
        /\ g[n + 1] = e /\ g = [i \in 0 .. n + 1 |-> g[i]]
    OBVIOUS
  <2> HIDE DEF g
  <2>4. ASSUME NEW i \in 0 .. n + 1 PROVE g[i] = h(i)
    <3>1. CASE i = 0
      <4>1. 0 \in 0 .. n
        OBVIOUS
      <4>2. g[0] = 0
        BY <2>2, <2>3, <4>1
      <4> QED
        BY <3>1, <4>2
    <3>2. CASE i = n + 1
      <4>1. i - 1 = n /\ n \in 0 .. n /\ i # 0
        BY <3>2
      <4>2. g[n] = f[n] /\ g[i] = e
        BY <2>3, <3>2, <4>1
      <4> QED
        BY <3>2, <4>1, <4>2 DEF e
    <3>3. CASE i \in 1 .. n
      <4>1. i - 1 \in 0 .. n /\ i # 0 /\ i \in 0 .. n
        BY <3>3
      <4>2. g[i] = f[i] /\ g[i - 1] = f[i - 1]
        BY <2>3, <4>1
      <4> QED
        BY <2>2, <3>3, <4>1, <4>2
    <3> QED
      BY <3>1, <3>2, <3>3
  <2> HIDE DEF h
  <2>5. g = [i \in 0 .. n + 1 |-> h(i)]
    BY <2>3, <2>4
  <2>6. Accumulates(g, bs, n + 1)
    BY <2>5 DEF Accumulates, h
  <2> QED
    BY <2>6
<1> HIDE DEF S
<1>3. Nat \subseteq S
  BY <1>1, <1>2, NaturalInduction
<1> QED
  BY <1>3 DEF S

\* Uint is the last value of such a solution.
LEMMA UintAccumulates ==
  ASSUME NEW bs, Len(bs) \in Nat
  PROVE  \E f : Accumulates(f, bs, Len(bs)) /\ Uint(bs) = f[Len(bs)]
<1> DEFINE f == CHOOSE f : Accumulates(f, bs, Len(bs))
<1>1. Accumulates(f, bs, Len(bs))
  BY AccumulateExists
<1>2. Uint(bs) = f[Len(bs)]
  BY DEF Uint, Accumulates
<1> QED
  BY <1>1, <1>2

\* The byte of n of weight 256^k.
Digit(n, k) == Shift(n, k) % 256

\* bigEndian writes the bytes of n, the one of the greatest weight first.
LEMMA BigEndianBytes ==
  \A n \in Nat : \A w \in 0 .. 8 :
    /\ bigEndian(n, w) \in Seq(Byte) /\ Len(bigEndian(n, w)) = w
    /\ \A i \in 1 .. w : bigEndian(n, w)[i] = Digit(n, w - i)
<1> SUFFICES ASSUME NEW n \in Nat, NEW w \in 0 .. 8
             PROVE  /\ bigEndian(n, w) \in Seq(Byte) /\ Len(bigEndian(n, w)) = w
                    /\ \A i \in 1 .. w : bigEndian(n, w)[i] = Digit(n, w - i)
  OBVIOUS
<1>1. \A i \in 1 .. w : Digit(n, w - i) \in Byte
  <2> SUFFICES ASSUME NEW i \in 1 .. w PROVE Digit(n, w - i) \in Byte
    OBVIOUS
  <2>1. w - i \in 0 .. 7
    OBVIOUS
  <2>2. Shift(n, w - i) \in Nat
    BY <2>1, ShiftSteps
  <2> QED
    BY <2>2, DivMod DEF Digit
<1> DEFINE s == [i \in 1 .. w |-> Digit(n, w - i)]
<1>2. s = bigEndian(n, w)
  BY DEF bigEndian, Digit
<1>3. s \in Seq(Byte) /\ Len(s) = w /\ \A i \in 1 .. w : s[i] = Digit(n, w - i)
  BY <1>1
<1> HIDE DEF s
<1> QED
  BY <1>2, <1>3

\* binary.BigEndian reads what it wrote.
LEMMA UintBigEndian ==
  ASSUME NEW n \in Nat, NEW w \in 1 .. 8, Shift(n, w - 1) < 256
  PROVE  Uint(bigEndian(n, w)) = n
<1> DEFINE bs == bigEndian(n, w)
<1>1. Len(bs) = w /\ \A i \in 1 .. w : bs[i] = Digit(n, w - i)
  <2>1. w \in 0 .. 8
    OBVIOUS
  <2> HIDE DEF bs
  <2> QED
    BY <2>1, BigEndianBytes, Zenon DEF bs
<1>2. PICK f : Accumulates(f, bs, w) /\ Uint(bs) = f[w]
  BY <1>1, UintAccumulates
<1> HIDE DEF bs
<1>3. f[0] = 0 /\ \A i \in 1 .. w : f[i] = f[i - 1] * 256 + bs[i]
  BY <1>2, AccumulateSteps
<1> DEFINE S == {i \in Nat : i < w => f[i + 1] = Shift(n, w - (i + 1))}
<1>4. 0 \in S
  <2>1. f[1] = 0 * 256 + bs[1] /\ bs[1] = Shift(n, w - 1) % 256
    BY <1>1, <1>3 DEF Digit
  <2>2. w - 1 \in 0 .. 7
    OBVIOUS
  <2>3. Shift(n, w - 1) \in Nat /\ Shift(n, w - 1) % 256 = Shift(n, w - 1)
    BY <2>2, ShiftSteps, DivMod
  <2> QED
    BY <2>1, <2>3
<1>5. ASSUME NEW i \in Nat, i \in S PROVE i + 1 \in S
  <2> SUFFICES ASSUME i + 1 < w PROVE f[(i + 1) + 1] = Shift(n, w - ((i + 1) + 1))
    OBVIOUS
  <2> DEFINE k == w - (i + 1)
  <2>1. /\ k \in 1 .. 7 /\ w - ((i + 1) + 1) = k - 1 /\ k - 1 \in 0 .. 7
        /\ i + 2 \in 1 .. w /\ w - (i + 2) = k - 1 /\ (i + 2) - 1 = i + 1
        /\ (i + 1) + 1 = i + 2 /\ k \in 0 .. 7
    OBVIOUS
  <2>2. f[i + 1] = Shift(n, k)
    BY <1>5
  <2> HIDE DEF k
  <2>3. f[i + 2] = f[i + 1] * 256 + bs[i + 2] /\ bs[i + 2] = Shift(n, k - 1) % 256
    BY <1>1, <1>3, <2>1 DEF Digit
  <2>4. Shift(n, k) = Shift(n, k - 1) \div 256 /\ Shift(n, k - 1) \in Nat
    BY <2>1, ShiftSteps
  <2>5. (Shift(n, k - 1) \div 256) * 256 + (Shift(n, k - 1) % 256) = Shift(n, k - 1)
    BY <2>4, DivMod
  <2>6. f[i + 2] = Shift(n, k - 1)
    BY <2>2, <2>3, <2>4, <2>5
  <2> QED
    BY <2>1, <2>6
<1> HIDE DEF S
<1>6. Nat \subseteq S
  BY <1>4, <1>5, NaturalInduction
<1>7. f[w] = Shift(n, 0)
  <2>1. w - 1 \in Nat /\ w - 1 < w /\ (w - 1) + 1 = w /\ w - w = 0
    OBVIOUS
  <2> QED
    BY <1>6, <2>1 DEF S
<1> QED
  BY <1>2, <1>7, ShiftSteps DEF bs

\* Two bytes and eight, as the headers use them.
LEMMA TwoBytes ==
  ASSUME NEW n \in Nat, n <= 65535
  PROVE  /\ Uint(bigEndian(n, 2)) = n
         /\ bigEndian(n, 2) = <<(n \div 256) % 256, n % 256>>
<1>1. Shift(n, 0) = n /\ Shift(n, 1) = n \div 256
  <2>1. 1 \in 1 .. 7 /\ 1 - 1 = 0
    OBVIOUS
  <2>2. Shift(n, 0) = n
    BY ShiftSteps
  <2>3. Shift(n, 1) = Shift(n, 1 - 1) \div 256
    BY <2>1, ShiftSteps
  <2> QED
    BY <2>1, <2>2, <2>3
<1>2. n \div 256 < 256
  BY SMT
<1>3. Uint(bigEndian(n, 2)) = n
  <2>1. 2 \in 1 .. 8 /\ 2 - 1 = 1
    BY SMT
  <2>2. Shift(n, 2 - 1) < 256
    BY <1>1, <1>2, <2>1
  <2> QED
    BY <2>1, <2>2, UintBigEndian
<1>4. /\ Len(bigEndian(n, 2)) = 2 /\ bigEndian(n, 2) \in Seq(Byte)
      /\ bigEndian(n, 2)[1] = (n \div 256) % 256 /\ bigEndian(n, 2)[2] = n % 256
  <2>1. 2 - 1 = 1 /\ 2 - 2 = 0 /\ 1 \in 1 .. 2 /\ 2 \in 1 .. 2 /\ 2 \in 0 .. 8
    OBVIOUS
  <2>2. /\ Len(bigEndian(n, 2)) = 2 /\ bigEndian(n, 2) \in Seq(Byte)
        /\ \A i \in 1 .. 2 : bigEndian(n, 2)[i] = Digit(n, 2 - i)
    BY <2>1, BigEndianBytes
  <2>3. /\ Digit(n, 2 - 1) = (n \div 256) % 256 /\ Digit(n, 2 - 2) = n % 256
    BY <1>1, <2>1 DEF Digit
  <2> QED
    BY <2>1, <2>2, <2>3
<1> HIDE DEF bigEndian
<1>5. bigEndian(n, 2) = <<(n \div 256) % 256, n % 256>>
  BY <1>4
<1> QED
  BY <1>3, <1>5

\* A length written in eight bytes is read back from them.
LEMMA EightBytes ==
  ASSUME NEW n \in Length
  PROVE  Uint(bigEndian(n, 8)) = n
<1>1. 8 - 1 = 7 /\ Shift(n, 7) < 256 /\ n \in Nat
  <2>1. n \in Nat /\ Shift(n, 7) < 128
    BY DEF Length
  <2>2. Shift(n, 7) \in Nat
    BY <2>1, ShiftSteps
  <2> QED
    BY <2>1, <2>2
<1> QED
  BY <1>1, UintBigEndian

\* A header is its first two bytes and those of an extended length.
LEMMA TwoAndMore ==
  ASSUME NEW a \in Byte, NEW b \in Byte, NEW bs \in Seq(Byte)
  PROVE  LET h == <<a, b>> \o bs
         IN  /\ h \in Seq(Byte) /\ h[1] = a /\ h[2] = b /\ h # <<>>
             /\ SubSeq(h, 3, Len(h)) = bs
<1> DEFINE two == <<a, b>>
           h == two \o bs
<1>1. two \in Seq(Byte) /\ Len(two) = 2 /\ two[1] = a /\ two[2] = b
  OBVIOUS
<1>2. Len(bs) \in Nat
  OBVIOUS
<1> HIDE DEF two
<1>3. /\ h \in Seq(Byte) /\ Len(h) = 2 + Len(bs)
      /\ \A i \in 1 .. 2 + Len(bs) : h[i] = IF i <= 2 THEN two[i] ELSE bs[i - 2]
  <2>1. /\ h \in Seq(Byte) /\ Len(h) = Len(two) + Len(bs)
        /\ \A i \in 1 .. Len(two) + Len(bs) :
             h[i] = IF i <= Len(two) THEN two[i] ELSE bs[i - Len(two)]
    BY <1>1, ConcatProperties
  <2> HIDE DEF h
  <2> QED
    BY <1>1, <2>1
<1> HIDE DEF h
<1>4. h[1] = a /\ h[2] = b /\ h # <<>>
  <2>1. Len(h) # 0 /\ Len(<<>>) = 0
    BY <1>2, <1>3
  <2> QED
    BY <1>1, <1>2, <1>3, <2>1
<1>5. SubSeq(h, 3, Len(h)) = bs
  <2> DEFINE t == SubSeq(h, 3, Len(h))
             n == Len(bs)
  <2>1. \A i \in 1 .. n : 3 + i - 1 \in 1 .. Len(h) /\ (3 + i - 1) - 2 = i /\ 3 + i - 1 > 2
    BY <1>2, <1>3
  <2>2. t = [i \in 1 .. Len(h) - 3 + 1 |-> h[3 + i - 1]]
    BY <1>2, <1>3
  <2>3. Len(h) - 3 + 1 = n
    BY <1>2, <1>3
  <2>4. \A i \in 1 .. n : h[3 + i - 1] = bs[i]
    BY <1>3, <2>1
  <2>5. bs = [i \in 1 .. n |-> bs[i]]
    OBVIOUS
  <2> HIDE DEF t
  <2> QED
    BY <2>2, <2>3, <2>4, <2>5 DEF t
<1> QED
  BY <1>3, <1>4, <1>5 DEF h, two

\* Two pairs of numbers in a row.
LEMMA FourBytes ==
  ASSUME NEW a \in Nat, NEW b \in Nat, NEW c \in Nat, NEW d \in Nat
  PROVE  <<a, b>> \o <<c, d>> = <<a, b, c, d>>
<1> DEFINE s == <<a, b>>
           t == <<c, d>>
           u == <<a, b, c, d>>
<1>1. /\ s \in Seq(Nat) /\ Len(s) = 2 /\ s[1] = a /\ s[2] = b
      /\ t \in Seq(Nat) /\ Len(t) = 2 /\ t[1] = c /\ t[2] = d
  OBVIOUS
<1>2. /\ u \in Seq(Nat) /\ Len(u) = 4
      /\ u[1] = a /\ u[2] = b /\ u[3] = c /\ u[4] = d
  OBVIOUS
<1> HIDE DEF s, t, u
<1>3. /\ s \o t \in Seq(Nat) /\ Len(s \o t) = 2 + 2
      /\ \A i \in 1 .. 2 + 2 : (s \o t)[i] = IF i <= 2 THEN s[i] ELSE t[i - 2]
  <2>1. /\ s \o t \in Seq(Nat) /\ Len(s \o t) = Len(s) + Len(t)
        /\ \A i \in 1 .. Len(s) + Len(t) :
             (s \o t)[i] = IF i <= Len(s) THEN s[i] ELSE t[i - Len(s)]
    BY <1>1, ConcatProperties
  <2> QED
    BY <1>1, <2>1
<1>4. \A i \in 1 .. 4 : (s \o t)[i] = u[i]
  BY <1>1, <1>2, <1>3
<1>5. s \o t = u
  <2>1. Len(s \o t) = Len(u) /\ Len(u) = 4
    BY <1>2, <1>3
  <2> QED
    BY <1>2, <1>3, <1>4, <2>1, SeqEqual
<1> QED
  BY <1>5 DEF s, t, u

\* readFrame finds in an RFC 6455 header what the client put into it.
LEMMA HeaderRead ==
  ASSUME NEW fin \in BOOLEAN, NEW op \in Opcodes, NEW masked \in BOOLEAN,
         NEW n \in Length
  PROVE  LET h == RfcHeader(fin, op, masked, n)
         IN  /\ h \in Seq(Byte) /\ h # <<>>
             /\ readHeader(h) = [fin |-> fin, opcode |-> op, masked |-> masked,
                                 length |-> n]
<1> DEFINE b0 == op + IF fin THEN 128 ELSE 0
           m == IF masked THEN 128 ELSE 0
           h == RfcHeader(fin, op, masked, n)
           want == [fin |-> fin, opcode |-> op, masked |-> masked, length |-> n]
<1>1. n \in Nat
  BY DEF Length
<1>2. /\ op \in 0 .. 15 /\ b0 \in Byte /\ (b0 >= 128 <=> fin) /\ b0 % 16 = op
  BY DEF Opcodes, Byte, opContinuation, opText, opBinary, opReserved, opClose,
     opPing, opPong
<1>3. \A k \in 0 .. 127 : /\ m + k \in Byte /\ (m + k) % 128 = k
                          /\ (m + k >= 128 <=> masked)
  BY DEF Byte
<1> DEFINE short == IF n <= 125 THEN n ELSE IF n <= 65535 THEN 126 ELSE 127
           bs == IF n <= 125 THEN <<>> ELSE IF n <= 65535 THEN bigEndian(n, 2)
                 ELSE bigEndian(n, 8)
<1>4. h = <<b0, m + short>> \o bs /\ bs \in Seq(Byte)
      /\ (n > 125 => Uint(bs) = n)
  <2>1. CASE n <= 125
    <3>1. h = <<b0, m + n>>
      BY <1>1, <2>1, SMT DEF RfcHeader
    <3>2. <<b0, m + n>> \in Seq(Byte)
      BY <1>1, <1>2, <1>3, <2>1
    <3>3. <<b0, m + n>> \o <<>> = <<b0, m + n>>
      BY <3>2, ConcatEmptySeq
    <3> QED
      BY <1>1, <2>1, <3>1, <3>3
  <2>2. CASE n > 125 /\ n <= 65535
    <3>1. h = <<b0, m + 126>> \o bigEndian(n, 2)
      BY <1>1, <2>2, SMT DEF RfcHeader
    <3>2. bigEndian(n, 2) \in Seq(Byte) /\ Uint(bigEndian(n, 2)) = n
      <4>1. 2 \in 0 .. 8
        OBVIOUS
      <4>2. bigEndian(n, 2) \in Seq(Byte)
        BY <1>1, <4>1, BigEndianBytes
      <4>3. Uint(bigEndian(n, 2)) = n
        BY <1>1, <2>2, TwoBytes, SMT
      <4> QED
        BY <4>2, <4>3
    <3> QED
      BY <1>1, <2>2, <3>1, <3>2
  <2>3. CASE n > 65535
    <3>1. h = <<b0, m + 127>> \o bigEndian(n, 8)
      BY <1>1, <2>3, SMT DEF RfcHeader
    <3>2. bigEndian(n, 8) \in Seq(Byte) /\ Uint(bigEndian(n, 8)) = n
      BY <1>1, BigEndianBytes, EightBytes
    <3> QED
      BY <1>1, <2>3, <3>1, <3>2
  <2> QED
    BY <1>1, <2>1, <2>2, <2>3
<1>5. short \in 0 .. 127 /\ (short \in {126, 127} <=> n > 125)
      /\ (n <= 125 => short = n)
  BY <1>1
<1>6. m + short \in Byte /\ (m + short) % 128 = short /\ (m + short >= 128 <=> masked)
  BY <1>3, <1>5
<1> HIDE DEF b0, m, h, short, bs
<1>7. /\ h \in Seq(Byte) /\ h[1] = b0 /\ h[2] = m + short /\ h # <<>>
      /\ SubSeq(h, 3, Len(h)) = bs
  BY <1>2, <1>4, <1>6, TwoAndMore
<1>8. (h[1] >= 128) = fin /\ (h[2] >= 128) = masked
  <2>1. h[1] \in Int /\ h[2] \in Int
    <3>1. b0 \in Int /\ m + short \in Int
      BY <1>2, <1>6, SMT DEF Byte
    <3> QED
      BY <1>7, <3>1
  <2> QED
    BY <1>2, <1>6, <1>7, <2>1
<1>9. readHeader(h).length = n
  <2>1. CASE n <= 125
    BY <1>1, <1>5, <1>6, <1>7, <2>1 DEF readHeader
  <2>2. CASE n > 125
    <3>1. h[2] % 128 = short /\ short \in {126, 127} /\ SubSeq(h, 3, Len(h)) = bs
      BY <1>5, <1>6, <1>7, <2>2
    <3>2. Uint(bs) = n
      BY <1>4, <2>2
    <3> QED
      BY <3>1, <3>2 DEF readHeader
  <2> QED
    BY <1>1, <2>1, <2>2
<1>10. readHeader(h) = want
  BY <1>2, <1>7, <1>8, <1>9 DEF readHeader
<1> QED
  BY <1>7, <1>10 DEF h

\* writeFrame builds the header RFC 6455 prescribes.
LEMMA HeaderWritten ==
  ASSUME NEW op \in Opcodes, NEW n \in Length
  PROVE  frameHeader(op, n) = RfcHeader(TRUE, op, FALSE, n)
<1> DEFINE f == frameHeader(op, n)
           h == RfcHeader(TRUE, op, FALSE, n)
<1> SUFFICES f = h
  OBVIOUS
<1>1. n \in Nat /\ op \in Nat
  BY DEF Length, Opcodes, opContinuation, opText, opBinary, opReserved, opClose,
     opPing, opPong
<1>2. 128 + op = op + 128 /\ 0 + n = n /\ 0 + 126 = 126 /\ 0 + 127 = 127
  BY <1>1
<1>3. ASSUME n <= 125 PROVE f = h
  <2>1. frameHeader(op, n) = <<128 + op, n>>
    BY <1>1, <1>3, SMT DEF frameHeader
  <2>2. RfcHeader(TRUE, op, FALSE, n) = <<op + 128, 0 + n>>
    BY <1>1, <1>3, SMT DEF RfcHeader
  <2> QED
    BY <1>2, <2>1, <2>2
<1>4. ASSUME n > 125, n <= 65535 PROVE f = h
  <2>1. frameHeader(op, n) = <<128 + op, 126, (n \div 256) % 256, n % 256>>
    BY <1>1, <1>4, SMT DEF frameHeader
  <2>2. RfcHeader(TRUE, op, FALSE, n) = <<op + 128, 0 + 126>> \o bigEndian(n, 2)
    BY <1>1, <1>4, SMT DEF RfcHeader
  <2>3. bigEndian(n, 2) = <<(n \div 256) % 256, n % 256>>
    BY <1>1, <1>4, TwoBytes, SMT
  <2>4. <<128 + op, 126>> \o <<(n \div 256) % 256, n % 256>> =
          <<128 + op, 126, (n \div 256) % 256, n % 256>>
    <3>1. /\ 128 + op \in Nat /\ (n \div 256) % 256 \in Nat
          /\ n % 256 \in Nat /\ 126 \in Nat
      BY <1>1, SMT
    <3> QED
      BY <3>1, FourBytes, SMT
  <2>5. h = <<128 + op, 126>> \o bigEndian(n, 2)
    BY <1>2, <2>2
  <2> DEFINE x == <<(n \div 256) % 256, n % 256>>
             y == <<128 + op, 126>>
             z == <<128 + op, 126, (n \div 256) % 256, n % 256>>
  <2>6. bigEndian(n, 2) = x /\ y \o x = z /\ h = y \o bigEndian(n, 2) /\ f = z
    BY <2>1, <2>3, <2>4, <2>5
  <2> HIDE DEF h, f, x, y, z
  <2> QED
    BY <2>6
<1>5. ASSUME n > 65535 PROVE f = h
  <2>1. frameHeader(op, n) = <<128 + op, 127>> \o bigEndian(n, 8)
    BY <1>1, <1>5, SMT DEF frameHeader
  <2>2. RfcHeader(TRUE, op, FALSE, n) = <<op + 128, 0 + 127>> \o bigEndian(n, 8)
    BY <1>1, <1>5, SMT DEF RfcHeader
  <2> QED
    BY <1>2, <2>1, <2>2
<1> HIDE DEF f, h
<1> QED
  BY <1>1, <1>3, <1>4, <1>5, SMT

-----------------------------------------------------------------------------
(* What the client has sent and the server has not yet read.               *)

Frame == [header : Seq(Byte), body : {0, 1}]

\* readFrame gets from a frame what the client put into it, mask or no mask.
LEMMA FrameRead ==
  ASSUME NEW fin \in BOOLEAN, NEW op \in Opcodes, NEW masked \in BOOLEAN,
         NEW n \in Length, NEW bit \in {0, 1}
  PROVE  LET f == Sealed(fin, op, masked, n, bit)
             h == readHeader(f.header)
         IN  /\ f \in Frame /\ h.fin = fin /\ h.opcode = op /\ h.length = n
             /\ Unmask(f, h) = bit
<1> DEFINE f == Sealed(fin, op, masked, n, bit)
           h == readHeader(f.header)
<1>1. f.header = RfcHeader(fin, op, masked, n)
  BY DEF Sealed
<1>2. /\ f.header \in Seq(Byte)
      /\ h = [fin |-> fin, opcode |-> op, masked |-> masked, length |-> n]
  BY <1>1, HeaderRead
<1>3. f.body = IF masked THEN (bit + 1) % 2 ELSE bit
  BY DEF Sealed
<1>4. f.body \in {0, 1} /\ (IF masked THEN (f.body + 1) % 2 ELSE f.body) = bit
  <2>1. CASE bit = 0
    BY <1>3, <2>1
  <2>2. CASE bit = 1
    BY <1>3, <2>2
  <2> QED
    BY <2>1, <2>2
<1>5. f = [header |-> f.header, body |-> f.body]
  BY DEF Sealed
<1>6. f \in Frame
  BY <1>2, <1>4, <1>5 DEF Frame
<1> HIDE DEF f, h
<1>7. h.fin = fin /\ h.opcode = op /\ h.length = n /\ h.masked = masked
  BY <1>2
<1>8. Unmask(f, h) = bit
  BY <1>4, <1>7 DEF Unmask
<1> QED
  BY <1>6, <1>7, <1>8 DEF f, h

\* How far the client is: the message it is in the middle of, and how many
\* messages and pings it has sent.
Stage == [partial : Message \cup {None}, count : Nat, pings : Nat]

\* The message m, if it is one, and another fragment.
Longer(m, type, bit) ==
  IF m = None THEN [type |-> type, data |-> <<bit>>]
  ELSE [m EXCEPT !.data = Append(@, bit)]

\* A message with one more fragment is a message.
LEMMA LongerMessage ==
  ASSUME NEW m \in Message \cup {None}, NEW type \in DataTypes, NEW bit \in {0, 1}
  PROVE  Longer(m, type, bit) \in Message
<1>1. CASE m = None
  <2>1. <<bit>> \in Seq({0, 1})
    OBVIOUS
  <2>2. Longer(m, type, bit) = [type |-> type, data |-> <<bit>>]
    BY <1>1 DEF Longer
  <2> QED
    BY <2>1, <2>2 DEF Message
<1>2. CASE m # None
  <2>1. /\ m \in Message
        /\ Longer(m, type, bit) = [m EXCEPT !.data = Append(m.data, bit)]
    BY <1>2 DEF Longer
  <2>2. Append(m.data, bit) \in Seq({0, 1})
    BY <2>1 DEF Message
  <2> QED
    BY <2>1, <2>2 DEF Message
<1> QED
  BY <1>1, <1>2

\* The frame f with which the client went from the stage a to the stage b; ss
\* and gs are all messages and pings it has sent, ws what it has provoked.
DataFrame(f, a, b, ss, ws) ==
  \E type \in DataTypes, fin \in BOOLEAN, masked \in BOOLEAN, n \in Length,
     bit \in {0, 1} :
    LET m == Longer(a.partial, type, bit)
    IN  /\ f = Sealed(fin, IF a.partial = None THEN type ELSE opContinuation,
                      masked, n, bit)
        /\ b = [partial |-> IF fin THEN None ELSE m,
                count |-> IF fin THEN a.count + 1 ELSE a.count,
                pings |-> a.pings]
        /\ fin => b.count \in 1 .. Len(ss) /\ ss[b.count] = m
        /\ n > maxPayload => "too long" \in ws

ControlFrame(f, a, b, gs, ws) ==
  \E op \in {opPing, opPong, opClose, opReserved}, masked \in BOOLEAN,
     n \in Length :
    /\ n < 126 /\ f = Sealed(TRUE, op, masked, n, 0)
    /\ b = [partial |-> a.partial, count |-> a.count,
            pings |-> IF op = opPing THEN a.pings + 1 ELSE a.pings]
    /\ op = opPing => b.pings \in 1 .. Len(gs) /\ gs[b.pings] = n
    /\ a.partial # None => "interruption" \in ws
    /\ a.partial = None /\ op = opClose => "closing" \in ws
    /\ a.partial = None /\ op = opReserved => "reserved opcode" \in ws

Sent(f, a, b, ss, gs, ws) ==
  DataFrame(f, a, b, ss, ws) \/ ControlFrame(f, a, b, gs, ws)

\* What the client sends later does not change that.
LEMMA SentBefore ==
  ASSUME NEW f, NEW a, NEW b, NEW ss, NEW gs, NEW ws, NEW s2, NEW g2, NEW w2,
         Sent(f, a, b, ss, gs, ws), Len(ss) \in Nat, Len(gs) \in Nat,
         Len(s2) \in Nat, Len(g2) \in Nat, Len(ss) <= Len(s2), Len(gs) <= Len(g2),
         \A i \in 1 .. Len(ss) : s2[i] = ss[i],
         \A i \in 1 .. Len(gs) : g2[i] = gs[i], ws \subseteq w2
  PROVE  Sent(f, a, b, s2, g2, w2)
<1>1. \A i \in 1 .. Len(ss) : i \in 1 .. Len(s2)
  OBVIOUS
<1>2. \A i \in 1 .. Len(gs) : i \in 1 .. Len(g2)
  OBVIOUS
<1>3. CASE DataFrame(f, a, b, ss, ws)
  <2>1. DataFrame(f, a, b, s2, w2)
    <3>1. PICK type \in DataTypes, fin \in BOOLEAN, masked \in BOOLEAN,
               n \in Length, bit \in {0, 1} :
            LET m == Longer(a.partial, type, bit)
            IN  /\ f = Sealed(fin, IF a.partial = None THEN type
                                   ELSE opContinuation, masked, n, bit)
                /\ b = [partial |-> IF fin THEN None ELSE m,
                        count |-> IF fin THEN a.count + 1 ELSE a.count,
                        pings |-> a.pings]
                /\ fin => b.count \in 1 .. Len(ss) /\ ss[b.count] = m
                /\ n > maxPayload => "too long" \in ws
      BY <1>3, Zenon DEF DataFrame
    <3>2. fin => /\ b.count \in 1 .. Len(s2)
                 /\ s2[b.count] = Longer(a.partial, type, bit)
      BY <1>1, <3>1
    <3>3. n > maxPayload => "too long" \in w2
      BY <3>1
    <3> QED
      BY <3>1, <3>2, <3>3, Zenon DEF DataFrame
  <2> QED
    BY <2>1 DEF Sent
<1>4. CASE ControlFrame(f, a, b, gs, ws)
  <2>1. ControlFrame(f, a, b, g2, w2)
    <3>1. PICK op \in {opPing, opPong, opClose, opReserved},
               masked \in BOOLEAN, n \in Length :
            /\ n < 126 /\ f = Sealed(TRUE, op, masked, n, 0)
            /\ b = [partial |-> a.partial, count |-> a.count,
                    pings |-> IF op = opPing THEN a.pings + 1 ELSE a.pings]
            /\ op = opPing => b.pings \in 1 .. Len(gs) /\ gs[b.pings] = n
            /\ a.partial # None => "interruption" \in ws
            /\ a.partial = None /\ op = opClose => "closing" \in ws
            /\ a.partial = None /\ op = opReserved => "reserved opcode" \in ws
      BY <1>4, Zenon DEF ControlFrame
    <3>2. op = opPing => b.pings \in 1 .. Len(g2) /\ g2[b.pings] = n
      BY <1>2, <3>1
    <3>3. /\ a.partial # None => "interruption" \in w2
          /\ a.partial = None /\ op = opClose => "closing" \in w2
          /\ a.partial = None /\ op = opReserved => "reserved opcode" \in w2
      BY <3>1
    <3> QED
      BY <3>1, <3>2, <3>3, Zenon DEF ControlFrame
  <2> QED
    BY <2>1 DEF Sent
<1> QED
  BY <1>3, <1>4 DEF Sent

\* The server has read what the client had sent when it was at the stage t[1];
\* the frames in flight took it from there to where it is now.
Sync(t) ==
  /\ t \in [Nat -> Stage]
  /\ t[1].partial = msg /\ t[1].count = Len(delivered)
  /\ \A i \in 1 .. Len(inbox) :
       Sent(inbox[i], t[i], t[i + 1], sent, pinged, provoked)
  /\ \A i \in 1 .. Len(inbox) + 1 :
       t[i].count <= Len(sent) /\ t[i].pings <= Len(pinged)
  /\ connUp =>
       /\ t[Len(inbox) + 1] = [partial |-> partial, count |-> Len(sent),
                               pings |-> Len(pinged)]
       /\ IF pc = "pong" /\ wmu # Handler
          THEN /\ t[1].pings = Pongs(out, Len(out)) + 1
               /\ job[Handler].length = pinged[t[1].pings]
          ELSE t[1].pings = Pongs(out, Len(out))

\* What a frame that was read may bring about.
ReadsError(t) ==
  \/ Fails("error") /\ provoked \cap {"too long", "reserved opcode"} # {}
  \/ Fails("expected continuation frame") /\ "interruption" \in provoked

ReadsData(t, m, fin) ==
  /\ Extends(m, fin)
  /\ t[2] = [partial |-> IF fin THEN None ELSE m,
             count |-> IF fin THEN t[1].count + 1 ELSE t[1].count,
             pings |-> t[1].pings]
  /\ fin => t[2].count \in 1 .. Len(sent) /\ sent[t[2].count] = m

ReadsPing(t, n) ==
  /\ pc' = "pong"
  /\ job' = [job EXCEPT ![Handler] =
               [op |-> opPong, length |-> n, for |-> "pong"]]
  /\ UNCHANGED <<msg, result, delivered>>
  /\ t[2] = [partial |-> t[1].partial, count |-> t[1].count,
             pings |-> t[1].pings + 1]
  /\ t[2].pings \in 1 .. Len(pinged) /\ pinged[t[2].pings] = n

ReadsClose(t, n) ==
  /\ pc' = "echo"
  /\ job' = [job EXCEPT ![Handler] =
               [op |-> opClose, length |-> n, for |-> "echo"]]
  /\ UNCHANGED <<msg, result, delivered>>
  /\ t[2] = t[1] /\ "closing" \in provoked

ReadsPong(t) == UNCHANGED <<pc, job, msg, result, delivered>> /\ t[2] = t[1]

\* What readFrame and the loops of ReadMessage make of the next frame of a
\* conforming client: one of five outcomes, each in step with the client.
LEMMA ReadOutcome ==
  ASSUME TypeOK, NEW t, Sync(t), ReadFrame
  PROVE  /\ pc = "reading" /\ inbox # <<>> /\ inbox' = Tail(inbox)
         /\ UNCHANGED <<aborted, wmu, out, writes, connUp, client>>
         /\ \/ ReadsError(t)
            \/ \E m \in Message, fin \in BOOLEAN : ReadsData(t, m, fin)
            \/ \E n \in Length : ReadsPing(t, n)
            \/ \E n \in Length : ReadsClose(t, n)
            \/ ReadsPong(t)
<1> DEFINE f == Head(inbox)
           h == readHeader(f.header)
           bit == Unmask(f, h)
<1>1. /\ pc = "reading" /\ inbox # <<>> /\ inbox' = Tail(inbox)
      /\ UNCHANGED <<aborted, wmu, out, writes, connUp, client>>
  BY DEF ReadFrame
<1>2. Sent(f, t[1], t[2], sent, pinged, provoked)
  <2>1. f = inbox[1] /\ Len(inbox) \in Nat /\ Len(inbox) # 0
    BY <1>1, EmptySeq DEF TypeOK
  <2>2. 1 \in 1 .. Len(inbox) /\ 1 + 1 = 2
    BY <2>1
  <2> QED
    BY <2>1, <2>2 DEF Sync
<1>3. /\ t[1] \in Stage /\ t[1].partial = msg /\ msg \in Message \cup {None}
      /\ maxPayload \in Nat /\ maxPayload >= 125
  BY SocketAssumption DEF Sync, TypeOK
<1>4. \/ h.length > maxPayload /\ Fails("error")
      \/ h.length <= maxPayload /\ msg # None /\ Continues(h, bit)
      \/ h.length <= maxPayload /\ msg = None /\ Starts(h, bit)
  BY DEF ReadFrame
<1>5. ASSUME DataFrame(f, t[1], t[2], sent, provoked)
      PROVE  ReadsError(t) \/ \E m \in Message, fin \in BOOLEAN : ReadsData(t, m, fin)
  <2>1. PICK type \in DataTypes, fin \in BOOLEAN, masked \in BOOLEAN,
             n \in Length, b \in {0, 1} :
          LET m == Longer(t[1].partial, type, b)
          IN  /\ f = Sealed(fin, IF t[1].partial = None THEN type
                                 ELSE opContinuation, masked, n, b)
              /\ t[2] = [partial |-> IF fin THEN None ELSE m,
                         count |-> IF fin THEN t[1].count + 1 ELSE t[1].count,
                         pings |-> t[1].pings]
              /\ fin => t[2].count \in 1 .. Len(sent) /\ sent[t[2].count] = m
              /\ n > maxPayload => "too long" \in provoked
    BY <1>5, Zenon DEF DataFrame
  <2> DEFINE m == Longer(msg, type, b)
             op == IF msg = None THEN type ELSE opContinuation
  <2>2. /\ f = Sealed(fin, op, masked, n, b) /\ op \in Opcodes
        /\ type \in {opText, opBinary} /\ type \in Opcodes
    BY <1>3, <2>1, SocketAssumption DEF Opcodes
  <2>3. /\ t[2] = [partial |-> IF fin THEN None ELSE m,
                   count |-> IF fin THEN t[1].count + 1 ELSE t[1].count,
                   pings |-> t[1].pings]
        /\ fin => t[2].count \in 1 .. Len(sent) /\ sent[t[2].count] = m
        /\ n > maxPayload => "too long" \in provoked
    BY <1>3, <2>1
  <2> HIDE DEF f, op
  <2>4. h.fin = fin /\ h.opcode = op /\ h.length = n /\ bit = b
    BY <2>2, FrameRead
  <2>5. m \in Message
    BY <1>3, LongerMessage
  <2> HIDE DEF h, bit
  <2>6. CASE h.length > maxPayload /\ Fails("error")
    BY <2>3, <2>4, <2>6 DEF ReadsError
  <2>7. CASE msg # None /\ Continues(h, bit)
    <3>1. h.opcode = opContinuation /\ m = [msg EXCEPT !.data = Append(@, bit)]
      BY <2>4, <2>7 DEF op, Longer
    <3>2. Extends(m, fin)
      BY <2>4, <2>7, <3>1 DEF Continues
    <3> HIDE DEF m
    <3>3. ReadsData(t, m, fin)
      BY <2>3, <3>2 DEF ReadsData
    <3> QED
      BY <2>5, <3>3
  <2>8. CASE msg = None /\ Starts(h, bit)
    <3>1. /\ h.opcode = type /\ m = [type |-> h.opcode, data |-> <<bit>>]
      BY <2>4, <2>8 DEF op, Longer
    <3>2. h.opcode \in {opText, opBinary}
      BY <2>2, <3>1
    <3>3. Extends(m, fin)
      BY <2>4, <2>8, <3>1, <3>2
      DEF Starts, opText, opBinary, opPing, opClose, opPong
    <3> HIDE DEF m
    <3>4. ReadsData(t, m, fin)
      BY <2>3, <3>3 DEF ReadsData
    <3> QED
      BY <2>5, <3>4
  <2> QED
    BY <1>4, <2>6, <2>7, <2>8
<1>6. ASSUME ControlFrame(f, t[1], t[2], pinged, provoked)
      PROVE  \/ ReadsError(t)
             \/ \E n \in Length : ReadsPing(t, n)
             \/ \E n \in Length : ReadsClose(t, n)
             \/ ReadsPong(t)
  <2>1. PICK op \in {opPing, opPong, opClose, opReserved}, masked \in BOOLEAN,
             n \in Length :
          /\ n < 126 /\ f = Sealed(TRUE, op, masked, n, 0)
          /\ t[2] = [partial |-> t[1].partial, count |-> t[1].count,
                     pings |-> IF op = opPing THEN t[1].pings + 1 ELSE t[1].pings]
          /\ op = opPing => t[2].pings \in 1 .. Len(pinged) /\ pinged[t[2].pings] = n
          /\ t[1].partial # None => "interruption" \in provoked
          /\ t[1].partial = None /\ op = opClose => "closing" \in provoked
          /\ t[1].partial = None /\ op = opReserved => "reserved opcode" \in provoked
    BY <1>6, Zenon DEF ControlFrame
  <2>2. op \in Opcodes /\ n \in Nat
    BY DEF Opcodes, Length
  <2> HIDE DEF f
  <2>3. h.opcode = op /\ h.length = n
    <3>1. TRUE \in BOOLEAN /\ 0 \in {0, 1} /\ f = Sealed(TRUE, op, masked, n, 0)
      BY <2>1
    <3>2. ASSUME NEW fin \in BOOLEAN, NEW b \in {0, 1},
                 f = Sealed(fin, op, masked, n, b)
          PROVE  h.opcode = op /\ h.length = n
      BY <2>2, <3>2, FrameRead
    <3> HIDE DEF h
    <3> QED
      BY <3>1, <3>2, Zenon
  <2>4. ~(h.length > maxPayload)
    <3>1. n < 126
      BY <2>1
    <3>2. ~(n > maxPayload)
      BY <1>3, <2>2, <3>1
    <3> QED
      BY <2>3, <3>2
  <2>5. op # opPing => t[2] = t[1]
    BY <1>3, <2>1 DEF Stage
  <2> HIDE DEF h, bit
  <2>6. CASE msg # None /\ Continues(h, bit)
    <3>1. h.opcode # opContinuation
      BY <2>3 DEF opContinuation, opPing, opClose, opPong, opReserved
    <3>2. Fails("expected continuation frame") /\ "interruption" \in provoked
      BY <1>3, <2>1, <2>6, <3>1 DEF Continues
    <3> QED
      BY <3>2 DEF ReadsError
  <2>7. CASE msg = None /\ Starts(h, bit)
    <3>1. CASE op = opPing
      <4>1. Answer(h)
        BY <2>3, <2>7, <3>1 DEF Starts, opText, opBinary, opPing, opClose, opPong
      <4>2. ReadsPing(t, n)
        BY <2>1, <2>3, <3>1, <4>1 DEF Answer, writeFrame, ReadsPing
      <4> QED
        BY <4>2
    <3>2. CASE op = opClose
      <4>1. Answer(h)
        BY <2>3, <2>7, <3>2 DEF Starts, opText, opBinary, opPing, opClose, opPong
      <4>2. opClose # opPing
        BY DEF opClose, opPing
      <4>3. "closing" \in provoked
        BY <1>3, <2>1, <2>7, <3>2
      <4>4. ReadsClose(t, n)
        BY <2>3, <2>5, <3>2, <4>1, <4>2, <4>3 DEF Answer, writeFrame, ReadsClose
      <4> QED
        BY <4>4
    <3>3. CASE op = opPong
      <4>1. UNCHANGED <<pc, job, msg, result, delivered>>
        BY <2>3, <2>7, <3>3 DEF Starts, opText, opBinary, opPing, opClose, opPong
      <4>2. opPong # opPing
        BY DEF opPong, opPing
      <4> QED
        BY <2>5, <3>3, <4>1, <4>2 DEF ReadsPong
    <3>4. CASE op = opReserved
      <4>1. Fails("error")
        BY <2>3, <2>7, <3>4
        DEF Starts, opText, opBinary, opPing, opClose, opPong, opReserved
      <4>2. "reserved opcode" \in provoked
        BY <1>3, <2>1, <2>7, <3>4
      <4> QED
        BY <4>1, <4>2 DEF ReadsError
    <3> QED
      BY <3>1, <3>2, <3>3, <3>4
  <2> QED
    BY <1>4, <2>4, <2>6, <2>7
<1> QED
  BY <1>1, <1>2, <1>5, <1>6 DEF Sent

-----------------------------------------------------------------------------
(* The inductive invariant.                                                *)

ChunkType == [by : Procs, op : Opcodes, length : Length, header : Seq(Byte)]

\* ReadMessage has not returned an error.
Alive == result \in {None, "message"}

\* What each goroutine may be at, and what the handler's is waiting for.
Calls ==
  /\ \A p \in Procs : job[p] # None =>
       /\ job[p].for \in {"pong", "echo"} => p = Handler /\ pc = job[p].for
       /\ job[p].op = opPong <=> job[p].for = "pong"
  /\ pc \in {"pong", "echo"} => job[Handler] # None /\ job[Handler].for = pc
  /\ pc = "reading" => job[Handler] = None
  /\ pc \in {"reading", "pong", "echo"} => Alive
  /\ pc = "echo" => "closing" \in provoked
  /\ pc = "new" => connUp /\ result = None /\ \A p \in Procs : job[p] = None
  /\ wmu # None => job[wmu] # None /\ job[wmu].for # "conn"

\* The chunk i of a sequence of whole frames.
InPlace(chunks, i) ==
  LET c == chunks[i]
      d == chunks[i + 1]
  IN  /\ c.header \in {<<>>, frameHeader(c.op, c.length)}
      /\ c.header = <<>> => i > 1 /\ chunks[i - 1].header # <<>>
      /\ c.header # <<>> /\ i < Len(chunks) =>
           IF c.length = 0 THEN d.header # <<>>
           ELSE d.header = <<>> /\ d.by = c.by /\ d.length = c.length

\* Whoever holds the mutex has written its header and owes the payload; nobody
\* does when the mutex is free.
Output ==
  /\ \A i \in DOMAIN out : InPlace(out, i)
  /\ connUp /\ wmu = None /\ out # <<>> =>
       out[Len(out)].header = <<>> \/ out[Len(out)].length = 0
  /\ connUp /\ wmu # None =>
       /\ out # <<>> /\ out[Len(out)].header # <<>> /\ out[Len(out)].by = wmu
       /\ out[Len(out)].length = job[wmu].length /\ out[Len(out)].length # 0

Synchronous == Alive => \E t : Sync(t)

IInv ==
  /\ TypeOK /\ Calls /\ Output /\ Synchronous
  /\ MessagesInOrder /\ PongsEchoPings /\ FailuresHaveCauses

\* The opcodes that writeFrame gets are distinct, and None is none of the values.
LEMMA Distinct ==
  /\ opPong \notin DataTypes /\ opPong # opClose
  /\ DataTypes \subseteq Opcodes /\ opClose \in Opcodes /\ opPong \in Opcodes
  /\ 0 \in Length /\ None \notin Procs /\ None \notin Message /\ None \notin Job
  /\ None \notin Results
<1>1. 0 \in Length
  <2> DEFINE S == {i \in Nat : i <= 7 => Shift(0, i) = 0}
  <2>1. 0 \in S
    BY ShiftSteps
  <2>2. ASSUME NEW i \in Nat, i \in S PROVE i + 1 \in S
    <3> SUFFICES ASSUME i + 1 <= 7 PROVE Shift(0, i + 1) = 0
      OBVIOUS
    <3>1. i + 1 \in 1 .. 7 /\ (i + 1) - 1 = i /\ Shift(0, i) = 0
      BY <2>2
    <3>2. Shift(0, i + 1) = 0 \div 256
      BY <3>1, ShiftSteps
    <3> QED
      BY <3>2
  <2> HIDE DEF S
  <2>3. Nat \subseteq S
    BY <2>1, <2>2, NaturalInduction
  <2>4. Shift(0, 7) = 0
    BY <2>3 DEF S
  <2> QED
    BY <2>4 DEF Length
<1>2. /\ opPong \notin DataTypes /\ opPong # opClose
      /\ DataTypes \subseteq Opcodes /\ opClose \in Opcodes /\ opPong \in Opcodes
  BY SocketAssumption DEF Opcodes, opText, opBinary, opPong, opClose
<1> QED
  BY <1>1, <1>2, SocketAssumption

\* A chunk more.
LEMMA PongsAppend ==
  ASSUME NEW chunks \in Seq(ChunkType), NEW c \in ChunkType
  PROVE  /\ \A i \in 0 .. Len(chunks) :
              Pongs(chunks, i) \in Nat /\ Pongs(Append(chunks, c), i) = Pongs(chunks, i)
         /\ Pongs(Append(chunks, c), Len(chunks) + 1) =
              IF IsPong(c) THEN Pongs(chunks, Len(chunks)) + 1
              ELSE Pongs(chunks, Len(chunks))
<1> DEFINE n == Len(chunks)
           more == Append(chunks, c)
           Old(i) == {k \in 1 .. i : IsPong(chunks[k])}
           New(i) == {k \in 1 .. i : IsPong(more[k])}
<1>1. /\ n \in Nat /\ more[n + 1] = c
      /\ \A k \in 1 .. n : more[k] = chunks[k]
  BY AppendProperties
<1> HIDE DEF more, n
<1>2. ASSUME NEW i \in 0 .. n
      PROVE  /\ IsFiniteSet(Old(i)) /\ Cardinality(Old(i)) \in Nat
             /\ New(i) = Old(i)
  <2>1. IsFiniteSet(1 .. i)
    BY <1>1, FS_Interval
  <2>2. IsFiniteSet(Old(i))
    BY <2>1, FS_Subset
  <2>3. Cardinality(Old(i)) \in Nat
    BY <2>2, FS_CardinalityType
  <2>4. New(i) = Old(i)
    BY <1>1
  <2> QED
    BY <2>2, <2>3, <2>4
<1>3. Cardinality(New(n + 1)) = IF IsPong(c) THEN Cardinality(Old(n)) + 1
                                ELSE Cardinality(Old(n))
  <2>1. n \in 0 .. n /\ n + 1 \notin Old(n)
    BY <1>1
  <2>2. CASE IsPong(c)
    <3>1. New(n + 1) = Old(n) \cup {n + 1}
      BY <1>1, <2>2
    <3> HIDE DEF Old, New
    <3>2. IsFiniteSet(Old(n))
      BY <1>2, <2>1
    <3> QED
      BY <2>1, <2>2, <3>1, <3>2, FS_AddElement
  <2>3. CASE ~IsPong(c)
    <3>1. New(n + 1) = Old(n)
      BY <1>1, <2>3
    <3> QED
      BY <2>3, <3>1
  <2> QED
    BY <2>2, <2>3
<1> QED
  BY <1>1, <1>2, <1>3 DEF Pongs, more, n

\* Pongs are counted by a number.
LEMMA PongsNat ==
  ASSUME NEW i \in Nat, NEW chunks
  PROVE  Pongs(chunks, i) \in Nat
<1>1. IsFiniteSet(1 .. i)
  BY FS_Interval
<1>2. IsFiniteSet({k \in 1 .. i : IsPong(chunks[k])})
  BY <1>1, FS_Subset
<1> QED
  BY <1>2, FS_CardinalityType DEF Pongs

\* A pong is counted.
LEMMA PongsPositive ==
  ASSUME NEW i \in Nat, i > 0, NEW chunks, IsPong(chunks[i])
  PROVE  Pongs(chunks, i) \in Nat /\ Pongs(chunks, i) > 0
<1> DEFINE S == {k \in 1 .. i : IsPong(chunks[k])}
<1>1. IsFiniteSet(1 .. i)
  BY FS_Interval
<1>2. IsFiniteSet(S)
  BY <1>1, FS_Subset
<1>3. i \in S
  OBVIOUS
<1> HIDE DEF S
<1>4. Cardinality(S) \in Nat /\ Cardinality(S) # 0
  BY <1>2, <1>3, FS_CardinalityType, FS_EmptySet
<1> QED
  BY <1>4 DEF Pongs, S

\* The invariant holds before Upgrade.
LEMMA InitIInv == Init => IInv
<1> SUFFICES ASSUME Init PROVE IInv
  OBVIOUS
<1>1. TypeOK
  <2>1. MaxWrites \in Nat /\ MaxFrames \in Nat
    BY SocketAssumption
  <2>2. job \in [Procs -> Job \cup {None}] /\ writes \in [Procs -> 0 .. MaxWrites]
    BY <2>1 DEF Init
  <2>3. /\ pc = "new" /\ aborted = FALSE /\ connUp = TRUE /\ inbox = <<>>
        /\ wmu = None /\ out = <<>> /\ msg = None /\ result = None
        /\ delivered = <<>> /\ frames = 0 /\ partial = None /\ sent = <<>>
        /\ pinged = <<>>
    BY DEF Init
  <2>4. \A S : <<>> \in Seq(S)
    BY EmptySeq
  <2>5. /\ inbox \in Seq(Frame) /\ out \in Seq(ChunkType)
        /\ delivered \in Seq(Message) /\ sent \in Seq(Message)
        /\ pinged \in Seq(Nat)
    BY <2>3, <2>4
  <2>6. frames \in 0 .. MaxFrames
    BY <2>1, <2>3
  <2> QED
    BY <2>2, <2>3, <2>5, <2>6 DEF TypeOK, Frame, ChunkType
<1>2. Calls
  BY Distinct DEF Init, Calls, Alive
<1>3. Output /\ PongsEchoPings
  BY DEF Init, Output, PongsEchoPings
<1>4. MessagesInOrder /\ FailuresHaveCauses
  <2>1. None \notin Results
    BY Distinct
  <2>2. result = None
    BY DEF Init
  <2>3. FailuresHaveCauses
    BY <2>1, <2>2 DEF FailuresHaveCauses, Interrupted, Results
  <2>4. MessagesInOrder
    BY DEF Init, MessagesInOrder
  <2> QED
    BY <2>3, <2>4
<1>5. Synchronous
  <2> DEFINE t == [i \in Nat |-> [partial |-> None, count |-> 0, pings |-> 0]]
  <2>1. Pongs(<<>>, 0) = 0
    <3>1. {i \in 1 .. 0 : IsPong(<<>>[i])} = {}
      OBVIOUS
    <3> QED
      BY <3>1, FS_EmptySet DEF Pongs
  <2>2. t \in [Nat -> Stage] /\ t[1] = [partial |-> None, count |-> 0, pings |-> 0]
    BY DEF Stage
  <2>3. Len(<<>>) = 0 /\ 0 + 1 = 1
    OBVIOUS
  <2> HIDE DEF t
  <2>4. Sync(t)
    BY <2>1, <2>2, <2>3 DEF Init, Sync
  <2> QED
    BY <2>4 DEF Synchronous
<1> QED
  BY <1>1, <1>2, <1>3, <1>4, <1>5 DEF IInv

-----------------------------------------------------------------------------
(* The client and the network.                                             *)

\* The client sends a frame, whatever kind of frame that is.
LEMMA ClientSends ==
  ASSUME IInv, NEW f \in Frame, Sends(f),
         sent' \in Seq(Message), pinged' \in Seq(Nat),
         partial' \in Message \cup {None},
         Len(sent) <= Len(sent'), \A i \in 1 .. Len(sent) : sent'[i] = sent[i],
         Len(pinged) <= Len(pinged'),
         \A i \in 1 .. Len(pinged) : pinged'[i] = pinged[i],
         provoked \subseteq provoked',
         Sent(f, [partial |-> partial, count |-> Len(sent), pings |-> Len(pinged)],
              [partial |-> partial', count |-> Len(sent'), pings |-> Len(pinged')],
              sent', pinged', provoked')
  PROVE  IInv'
<1>1. /\ UNCHANGED <<pc, aborted, wmu, job, out, msg, result, delivered, writes>>
      /\ UNCHANGED connUp /\ connUp /\ inbox' = Append(inbox, f)
      /\ frames < MaxFrames /\ frames' = frames + 1
  BY DEF Sends, server
<1>2. /\ TypeOK /\ Calls /\ Output /\ Synchronous /\ MessagesInOrder
      /\ PongsEchoPings /\ FailuresHaveCauses
  BY DEF IInv
<1>3. /\ inbox \in Seq(Frame) /\ Len(inbox) \in Nat /\ frames \in 0 .. MaxFrames
      /\ sent \in Seq(Message) /\ Len(sent) \in Nat
      /\ pinged \in Seq(Nat) /\ Len(pinged) \in Nat
      /\ delivered \in Seq(Message) /\ Len(delivered) \in Nat
      /\ out \in Seq(ChunkType) /\ Len(out) \in Nat
  BY <1>2 DEF TypeOK, Frame, ChunkType
<1>4. Len(sent') \in Nat /\ Len(pinged') \in Nat
  OBVIOUS
<1>5. /\ inbox' \in Seq(Frame) /\ Len(inbox') = Len(inbox) + 1
      /\ inbox'[Len(inbox) + 1] = f
      /\ \A i \in 1 .. Len(inbox) : inbox'[i] = inbox[i]
  BY <1>1, <1>3, AppendProperties
<1>6. TypeOK'
  <2>1. frames' \in 0 .. MaxFrames
    BY <1>1, <1>3, SocketAssumption
  <2> QED
    BY <1>1, <1>2, <1>5, <2>1 DEF TypeOK, Frame
<1>7. Calls'
  BY <1>1, <1>2 DEF Calls, Alive
<1>8. Output'
  BY <1>1, <1>2 DEF Output
<1>9. MessagesInOrder'
  BY <1>1, <1>2, <1>3, <1>4 DEF MessagesInOrder
<1>10. PongsEchoPings'
  <2> SUFFICES ASSUME NEW i \in DOMAIN out, IsPong(out[i])
               PROVE  /\ Pongs(out, i) <= Len(pinged')
                      /\ out[i].length = pinged'[Pongs(out, i)]
    BY <1>1 DEF PongsEchoPings
  <2>1. Pongs(out, i) <= Len(pinged) /\ out[i].length = pinged[Pongs(out, i)]
    BY <1>2 DEF PongsEchoPings
  <2>2. i \in Nat /\ i > 0
    BY <1>3
  <2>3. Pongs(out, i) \in Nat /\ Pongs(out, i) > 0
    BY <2>2, PongsPositive
  <2> DEFINE k == Pongs(out, i)
  <2>4. k \in 1 .. Len(pinged) /\ k <= Len(pinged')
    <3> HIDE DEF k
    <3>1. k \in Nat /\ k > 0 /\ k <= Len(pinged)
      BY <2>1, <2>3 DEF k
    <3> QED
      BY <1>3, <1>4, <3>1
  <2>5. pinged'[k] = pinged[k]
    BY <2>4
  <2> QED
    BY <2>1, <2>4, <2>5
<1>11. FailuresHaveCauses'
  BY <1>1, <1>2 DEF FailuresHaveCauses, Interrupted
<1>12. Synchronous'
  <2> SUFFICES ASSUME Alive PROVE (\E t : Sync(t))'
    BY <1>1 DEF Synchronous, Alive
  <2>1. PICK t : Sync(t)
    BY <1>2 DEF Synchronous
  <2> DEFINE n == Len(inbox)
             a == [partial |-> partial, count |-> Len(sent), pings |-> Len(pinged)]
             b == [partial |-> partial', count |-> Len(sent'), pings |-> Len(pinged')]
  <2>2. t \in [Nat -> Stage] /\ n \in Nat /\ b \in Stage
    BY <1>3, <1>4, <2>1 DEF Sync, Stage
  <2>3. PICK u : /\ u \in [Nat -> Stage] /\ u[n + 2] = b
                 /\ \A i \in Nat : i # n + 2 => u[i] = t[i]
    <3> DEFINE v == [t EXCEPT ![n + 2] = b]
    <3>1. /\ v \in [Nat -> Stage] /\ v[n + 2] = b
          /\ \A i \in Nat : i # n + 2 => v[i] = t[i]
      BY <2>2
    <3> HIDE DEF v
    <3> QED
      BY <3>1
  <2>4. t[n + 1] = a
    BY <1>1, <2>1 DEF Sync
  <2> HIDE DEF n, a, b
  <2>5. ASSUME NEW i \in 1 .. Len(inbox')
        PROVE  Sent(inbox'[i], u[i], u[i + 1], sent', pinged', provoked')
    <3>1. CASE i \in 1 .. n
      <4>1. Sent(inbox[i], t[i], t[i + 1], sent, pinged, provoked)
        BY <2>1, <3>1 DEF Sync, n
      <4>2. inbox'[i] = inbox[i]
        BY <1>5, <3>1 DEF n
      <4>3. i \in Nat /\ i + 1 \in Nat /\ i # n + 2 /\ i + 1 # n + 2
        BY <2>2, <3>1
      <4>4. u[i] = t[i] /\ u[i + 1] = t[i + 1]
        BY <2>3, <4>3
      <4>5. Sent(inbox[i], t[i], t[i + 1], sent', pinged', provoked')
        BY <1>3, <1>4, <4>1, SentBefore
      <4> QED
        BY <4>2, <4>4, <4>5
    <3>2. CASE i = n + 1
      <4>1. i \in Nat /\ i # n + 2 /\ i + 1 = n + 2
        BY <2>2, <3>2
      <4>2. inbox'[i] = f
        BY <1>5, <3>2 DEF n
      <4>3. u[i] = a /\ u[i + 1] = b
        BY <2>3, <2>4, <3>2, <4>1
      <4>4. Sent(f, a, b, sent', pinged', provoked')
        BY DEF a, b
      <4> QED
        BY <4>2, <4>3, <4>4
    <3>3. i \in 1 .. n \/ i = n + 1
      <4>1. Len(inbox') = n + 1
        BY <1>5 DEF n
      <4> QED
        BY <2>2, <4>1
    <3> QED
      BY <3>1, <3>2, <3>3
  <2>6. ASSUME NEW i \in 1 .. Len(inbox') + 1
        PROVE  u[i].count <= Len(sent') /\ u[i].pings <= Len(pinged')
    <3>1. CASE i \in 1 .. n + 1
      <4>1. t[i].count <= Len(sent) /\ t[i].pings <= Len(pinged)
        BY <2>1, <3>1 DEF Sync, n
      <4>2. t[i] \in Stage /\ u[i] = t[i]
        BY <2>2, <2>3, <3>1
      <4>3. t[i].count \in Nat /\ t[i].pings \in Nat
        BY <4>2 DEF Stage
      <4>4. t[i].count <= Len(sent') /\ t[i].pings <= Len(pinged')
        <5>1. \A x, y, z \in Nat : x <= y /\ y <= z => x <= z
          OBVIOUS
        <5>2. Len(sent) <= Len(sent') /\ Len(pinged) <= Len(pinged')
          OBVIOUS
        <5> QED
          BY <1>3, <1>4, <4>1, <4>3, <5>1, <5>2, Zenon
      <4> QED
        BY <4>2, <4>4
    <3>2. CASE i = n + 2
      BY <1>4, <2>3, <3>2 DEF b
    <3>3. i \in 1 .. n + 1 \/ i = n + 2
      BY <1>5, <2>2 DEF n
    <3> QED
      BY <3>1, <3>2, <3>3
  <2>7. u[1] = t[1]
    BY <2>2, <2>3
  <2>8. u[Len(inbox') + 1] = b
    BY <1>5, <2>2, <2>3 DEF n
  <2>9. t[1].pings \in 1 .. Len(pinged) => pinged'[t[1].pings] = pinged[t[1].pings]
    OBVIOUS
  <2>10. IF pc = "pong" /\ wmu # Handler
         THEN /\ t[1].pings = Pongs(out, Len(out)) + 1
              /\ job[Handler].length = pinged'[t[1].pings]
         ELSE t[1].pings = Pongs(out, Len(out))
    <3>1. IF pc = "pong" /\ wmu # Handler
          THEN /\ t[1].pings = Pongs(out, Len(out)) + 1
               /\ job[Handler].length = pinged[t[1].pings]
          ELSE t[1].pings = Pongs(out, Len(out))
      BY <1>1, <2>1 DEF Sync
    <3>2. t[1].pings <= Len(pinged)
      <4>1. 1 \in 1 .. Len(inbox) + 1
        BY <1>3
      <4> QED
        BY <2>1, <4>1 DEF Sync
    <3>3. Pongs(out, Len(out)) \in Nat
      BY <1>3, PongsNat
    <3>4. CASE pc = "pong" /\ wmu # Handler
      <4>1. t[1].pings = Pongs(out, Len(out)) + 1
        BY <3>1, <3>4
      <4>2. t[1].pings \in 1 .. Len(pinged)
        <5>1. t[1].pings \in Nat /\ t[1].pings > 0
          BY <3>3, <4>1
        <5> QED
          BY <1>3, <3>2, <5>1
      <4> QED
        BY <2>9, <3>1, <3>4, <4>2
    <3>5. CASE ~(pc = "pong" /\ wmu # Handler)
      BY <3>1, <3>5
    <3> QED
      BY <3>4, <3>5
  <2>11. t[1].partial = msg /\ t[1].count = Len(delivered)
    BY <2>1 DEF Sync
  <2>12. Sync(u)'
    BY <1>1, <2>3, <2>5, <2>6, <2>7, <2>8, <2>10, <2>11 DEF Sync, b
  <2> QED
    BY <2>12
<1> QED
  BY <1>6, <1>7, <1>8, <1>9, <1>10, <1>11, <1>12 DEF IInv

\* The client sends a fragment: the trace grows by the stage after it.
LEMMA SendDataKeeps ==
  ASSUME IInv, NEW type \in DataTypes, NEW fin \in BOOLEAN, NEW masked \in Masks,
         NEW n \in ReadSizes, NEW bit \in {0, 1},
         SendData(type, fin, masked, n, bit)
  PROVE  IInv'
<1> DEFINE m == Longer(partial, type, bit)
           op == IF partial = None THEN type ELSE opContinuation
           f == Sealed(fin, op, masked, n, bit)
           a == [partial |-> partial, count |-> Len(sent), pings |-> Len(pinged)]
           b == [partial |-> partial', count |-> Len(sent'), pings |-> Len(pinged')]
<1>1. /\ partial \in Message \cup {None} /\ sent \in Seq(Message) /\ Len(sent) \in Nat
      /\ pinged \in Seq(Nat) /\ Len(pinged) \in Nat
  BY DEF IInv, TypeOK
<1>2. masked \in BOOLEAN /\ n \in Length /\ op \in Opcodes
  BY SocketAssumption, Distinct DEF Opcodes
<1>3. /\ Sends(f) /\ UNCHANGED pinged
      /\ partial' = IF fin THEN None ELSE m
      /\ sent' = IF fin THEN Append(sent, m) ELSE sent
      /\ provoked' = provoked \cup IF n > maxPayload THEN {"too long"} ELSE {}
  BY DEF SendData, Longer
<1>4. m \in Message
  BY <1>1, LongerMessage
<1>5. f \in Frame
  BY <1>2, FrameRead
<1> HIDE DEF m, op
<1>6. /\ sent' \in Seq(Message) /\ Len(sent) <= Len(sent')
      /\ Len(sent') = IF fin THEN Len(sent) + 1 ELSE Len(sent)
      /\ \A i \in 1 .. Len(sent) : sent'[i] = sent[i]
      /\ fin => Len(sent') \in 1 .. Len(sent') /\ sent'[Len(sent')] = m
  <2>1. CASE fin
    <3>1. sent' = Append(sent, m)
      BY <1>3, <2>1
    <3>2. /\ sent' \in Seq(Message) /\ Len(sent') = Len(sent) + 1
          /\ sent'[Len(sent) + 1] = m /\ \A i \in 1 .. Len(sent) : sent'[i] = sent[i]
      BY <1>1, <1>4, <3>1, AppendProperties
    <3> QED
      BY <1>1, <2>1, <3>2
  <2>2. CASE ~fin
    <3>1. sent' = sent
      BY <1>3, <2>2
    <3> QED
      BY <1>1, <2>2, <3>1
  <2> QED
    BY <2>1, <2>2
<1>7. n > maxPayload => "too long" \in provoked'
  BY <1>3
<1>8. partial' \in Message \cup {None} /\ provoked \subseteq provoked'
  BY <1>3, <1>4
<1>9. Sent(f, a, b, sent', pinged', provoked')
  <2>1. a.partial = partial /\ a.count = Len(sent) /\ a.pings = Len(pinged)
    OBVIOUS
  <2>2. b = [partial |-> IF fin THEN None ELSE m,
             count |-> IF fin THEN a.count + 1 ELSE a.count, pings |-> a.pings]
    BY <1>3, <1>6, <2>1
  <2>3. fin => b.count \in 1 .. Len(sent') /\ sent'[b.count] = m
    BY <1>6
  <2>4. m = Longer(a.partial, type, bit)
    BY <2>1 DEF m
  <2>5. f = Sealed(fin, IF a.partial = None THEN type ELSE opContinuation,
                   masked, n, bit)
    BY <2>1 DEF op
  <2> HIDE DEF a, b, f
  <2>6. DataFrame(f, a, b, sent', provoked')
    BY <1>2, <1>7, <2>2, <2>3, <2>4, <2>5 DEF DataFrame
  <2> QED
    BY <2>6 DEF Sent
<1> HIDE DEF f
<1> QED
  <2>1. /\ pinged' \in Seq(Nat) /\ Len(pinged) <= Len(pinged')
        /\ \A i \in 1 .. Len(pinged) : pinged'[i] = pinged[i]
    <3>1. pinged' = pinged
      BY <1>3
    <3> QED
      BY <1>1, <3>1
  <2>2. Sends(f)
    BY <1>3
  <2> QED
    BY <1>5, <1>6, <1>8, <1>9, <2>1, <2>2, ClientSends

\* The client sends a control frame.
LEMMA SendControlKeeps ==
  ASSUME IInv, NEW op \in {opPing, opPong, opClose, opReserved},
         NEW masked \in Masks, NEW n \in ReadSizes, SendControl(op, masked, n)
  PROVE  IInv'
<1> DEFINE f == Sealed(TRUE, op, masked, n, 0)
           a == [partial |-> partial, count |-> Len(sent), pings |-> Len(pinged)]
           b == [partial |-> partial', count |-> Len(sent'), pings |-> Len(pinged')]
<1>1. /\ partial \in Message \cup {None} /\ sent \in Seq(Message) /\ Len(sent) \in Nat
      /\ pinged \in Seq(Nat) /\ Len(pinged) \in Nat
  BY DEF IInv, TypeOK
<1>2. masked \in BOOLEAN /\ n \in Length /\ n \in Nat /\ op \in Opcodes
  BY SocketAssumption DEF Opcodes, Length
<1>3. /\ n < 126 /\ Sends(f) /\ UNCHANGED <<partial, sent>>
      /\ pinged' = IF op = opPing THEN Append(pinged, n) ELSE pinged
  BY DEF SendControl
<1>4. /\ provoked \subseteq provoked'
      /\ partial # None => "interruption" \in provoked'
      /\ partial = None /\ op = opClose => "closing" \in provoked'
      /\ partial = None /\ op = opReserved => "reserved opcode" \in provoked'
  <2>1. provoked' = provoked \cup
          CASE partial # None -> {"interruption"}
            [] partial = None /\ op = opClose -> {"closing"}
            [] partial = None /\ op = opReserved -> {"reserved opcode"}
            [] OTHER -> {}
    BY DEF SendControl
  <2>2. opClose # opReserved
    BY DEF opClose, opReserved
  <2> QED
    BY <2>1, <2>2
<1>5. f \in Frame
  <2>1. \A fin \in BOOLEAN, bit \in {0, 1} : Sealed(fin, op, masked, n, bit) \in Frame
    BY <1>2, FrameRead
  <2>2. TRUE \in BOOLEAN /\ 0 \in {0, 1}
    OBVIOUS
  <2> QED
    BY <2>1, <2>2, Zenon
<1>6. /\ pinged' \in Seq(Nat) /\ Len(pinged) <= Len(pinged')
      /\ Len(pinged') = IF op = opPing THEN Len(pinged) + 1 ELSE Len(pinged)
      /\ \A i \in 1 .. Len(pinged) : pinged'[i] = pinged[i]
      /\ op = opPing => Len(pinged') \in 1 .. Len(pinged') /\ pinged'[Len(pinged')] = n
  <2>1. CASE op = opPing
    <3>1. pinged' = Append(pinged, n)
      BY <1>3, <2>1
    <3>2. /\ pinged' \in Seq(Nat) /\ Len(pinged') = Len(pinged) + 1
          /\ pinged'[Len(pinged) + 1] = n
          /\ \A i \in 1 .. Len(pinged) : pinged'[i] = pinged[i]
      BY <1>1, <1>2, <3>1, AppendProperties
    <3> QED
      BY <1>1, <2>1, <3>2
  <2>2. CASE op # opPing
    BY <1>1, <1>3, <2>2
  <2> QED
    BY <2>1, <2>2
<1>7. Sent(f, a, b, sent', pinged', provoked')
  <2>1. a.partial = partial /\ a.count = Len(sent) /\ a.pings = Len(pinged)
    OBVIOUS
  <2>2. b = [partial |-> a.partial, count |-> a.count,
             pings |-> IF op = opPing THEN a.pings + 1 ELSE a.pings]
    BY <1>3, <1>6, <2>1
  <2>3. op = opPing => b.pings \in 1 .. Len(pinged') /\ pinged'[b.pings] = n
    BY <1>6
  <2>4. /\ a.partial # None => "interruption" \in provoked'
        /\ a.partial = None /\ op = opClose => "closing" \in provoked'
        /\ a.partial = None /\ op = opReserved => "reserved opcode" \in provoked'
    BY <1>4, <2>1
  <2>5. f = Sealed(TRUE, op, masked, n, 0)
    OBVIOUS
  <2> HIDE DEF a, b, f
  <2>6. ControlFrame(f, a, b, pinged', provoked')
    BY <1>2, <1>3, <2>2, <2>3, <2>4, <2>5, Zenon DEF ControlFrame
  <2> QED
    BY <2>6 DEF Sent
<1> HIDE DEF f
<1> QED
  <2>1. /\ sent' \in Seq(Message) /\ Len(sent) <= Len(sent')
        /\ \A i \in 1 .. Len(sent) : sent'[i] = sent[i]
        /\ partial' \in Message \cup {None}
    BY <1>1, <1>3
  <2>2. Sends(f) /\ provoked \subseteq provoked'
    BY <1>3, <1>4
  <2> QED
    BY <1>5, <1>6, <1>7, <2>1, <2>2, ClientSends

\* The connection breaks: the frames that still come through are the first of
\* those that were in flight.
LEMMA DownKeepsSync ==
  ASSUME TypeOK, Synchronous, Down, UNCHANGED <<client, msg, delivered, result>>
  PROVE  Synchronous' /\ inbox' \in Seq(Frame) /\ connUp' = FALSE
<1>1. PICK n \in 0 .. Len(inbox) : inbox' = SubSeq(inbox, 1, n)
  BY DEF Down
<1>2. inbox \in Seq(Frame) /\ Len(inbox) \in Nat /\ connUp' = FALSE
  BY DEF TypeOK, Frame, Down
<1>3. /\ inbox' \in Seq(Frame) /\ Len(inbox') = n
      /\ \A i \in 1 .. n : inbox'[i] = inbox[i]
  <2>1. SubSeq(inbox, 1, n) = [i \in 1 .. n |-> inbox[i]]
    BY <1>2
  <2>2. \A i \in 1 .. n : inbox[i] \in Frame
    BY <1>2
  <2> QED
    BY <1>1, <1>2, <2>1, <2>2
<1>4. Synchronous'
  <2> SUFFICES ASSUME Alive PROVE (\E t : Sync(t))'
    BY DEF Synchronous, Alive
  <2>1. PICK t : Sync(t)
    BY DEF Synchronous
  <2>2. UNCHANGED <<sent, pinged, provoked, partial>>
    BY DEF client
  <2>3. ASSUME NEW i \in 1 .. Len(inbox')
        PROVE  Sent(inbox'[i], t[i], t[i + 1], sent', pinged', provoked')
    <3>1. i \in 1 .. Len(inbox) /\ inbox'[i] = inbox[i]
      BY <1>2, <1>3
    <3> QED
      BY <2>1, <2>2, <3>1 DEF Sync
  <2>4. ASSUME NEW i \in 1 .. Len(inbox') + 1
        PROVE  t[i].count <= Len(sent') /\ t[i].pings <= Len(pinged')
    <3>1. i \in 1 .. Len(inbox) + 1
      BY <1>2, <1>3
    <3> QED
      BY <2>1, <2>2, <3>1 DEF Sync
  <2>5. /\ t \in [Nat -> Stage]
        /\ t[1].partial = msg' /\ t[1].count = Len(delivered')
    BY <2>1 DEF Sync
  <2>6. Sync(t)'
    BY <1>2, <2>3, <2>4, <2>5 DEF Sync
  <2> QED
    BY <2>6
<1> QED
  BY <1>2, <1>3, <1>4

\* The connection breaks and loses a suffix of what is under way.
LEMMA BreakKeeps ==
  ASSUME IInv, Break
  PROVE  IInv'
<1>1. /\ UNCHANGED <<pc, aborted, wmu, job, out, msg, result, delivered, writes>>
      /\ UNCHANGED <<frames, partial, sent, pinged, provoked>>
      /\ Down /\ UNCHANGED client /\ pc # "new"
  BY DEF Break, server, client
<1>2. /\ TypeOK /\ Calls /\ Output /\ Synchronous /\ MessagesInOrder
      /\ PongsEchoPings /\ FailuresHaveCauses
  BY DEF IInv
<1>3. Synchronous' /\ inbox' \in Seq(Frame) /\ connUp' = FALSE
  BY <1>1, <1>2, DownKeepsSync
<1>4. TypeOK'
  BY <1>1, <1>2, <1>3 DEF TypeOK, Frame
<1>5. Calls'
  BY <1>1, <1>2, <1>3 DEF Calls, Alive
<1>6. Output' /\ MessagesInOrder' /\ PongsEchoPings' /\ FailuresHaveCauses'
  BY <1>1, <1>2, <1>3 DEF Output, MessagesInOrder, PongsEchoPings,
     FailuresHaveCauses, Interrupted
<1> QED
  BY <1>3, <1>4, <1>5, <1>6 DEF IInv

-----------------------------------------------------------------------------
(* Steps of the server that neither read nor write.                        *)

\* A step that neither reads nor writes leaves server and client in step.
LEMMA QuietKeepsSync ==
  ASSUME Synchronous, Alive' => Alive,
         UNCHANGED <<connUp, inbox, sent, pinged, provoked, partial, msg,
                     delivered, out, wmu>>,
         \/ pc # "pong" /\ pc' # "pong"
         \/ pc' = pc /\ job'[Handler] = job[Handler]
  PROVE  Synchronous'
<1> SUFFICES ASSUME Alive PROVE (\E t : Sync(t))'
  BY DEF Synchronous
<1>1. PICK t : Sync(t)
  BY DEF Synchronous
<1>2. Sync(t)'
  BY <1>1 DEF Sync
<1> QED
  BY <1>2

\* Upgrade refuses the request or takes the connection over.
LEMMA UpgradeKeeps ==
  ASSUME IInv, NEW good, NEW hijacked, NEW answered,
         Upgrade(good, hijacked, answered)
  PROVE  IInv'
<1>1. /\ UNCHANGED <<wmu, job, out, msg, result, delivered, writes, inbox>>
      /\ UNCHANGED <<frames, partial, sent, pinged, provoked>>
      /\ pc = "new" /\ pc' \in {"handler", "refused"}
      /\ aborted' \in BOOLEAN /\ connUp' \in BOOLEAN
  <2>1. aborted \in BOOLEAN
    BY DEF IInv, TypeOK
  <2> QED
    BY <2>1 DEF Upgrade, client
<1>2. /\ TypeOK /\ Calls /\ Output /\ Synchronous /\ MessagesInOrder
      /\ PongsEchoPings /\ FailuresHaveCauses /\ connUp /\ result = None
      /\ \A p \in Procs : job[p] = None
  BY <1>1 DEF IInv, Calls
<1>3. TypeOK'
  BY <1>1, <1>2 DEF TypeOK
<1>4. Calls'
  BY <1>1, <1>2 DEF Calls
<1>5. Output' /\ MessagesInOrder' /\ PongsEchoPings'
  BY <1>1, <1>2 DEF Output, MessagesInOrder, PongsEchoPings
<1>6. FailuresHaveCauses'
  <2>1. None \notin Results
    BY Distinct
  <2> QED
    BY <1>1, <1>2, <2>1 DEF FailuresHaveCauses, Interrupted, Results
<1>7. Synchronous'
  <2> SUFFICES ASSUME Alive PROVE (\E t : Sync(t))'
    BY <1>1 DEF Synchronous, Alive
  <2>1. PICK t : Sync(t)
    BY <1>2 DEF Synchronous
  <2>2. Sync(t)'
    BY <1>1, <1>2, <2>1 DEF Sync
  <2> QED
    BY <2>2
<1> QED
  BY <1>3, <1>4, <1>5, <1>6, <1>7 DEF IInv

\* The handler calls ReadMessage.
LEMMA ReadMessageKeeps ==
  ASSUME IInv, ReadMessage
  PROVE  IInv'
<1>1. /\ UNCHANGED <<aborted, wmu, job, out, msg, result, delivered, writes,
                     connUp, inbox>>
      /\ UNCHANGED <<frames, partial, sent, pinged, provoked>>
      /\ pc = "handler" /\ pc' = "reading" /\ job[Handler] = None /\ Alive
  BY DEF ReadMessage, client, Free, Alive
<1>2. /\ TypeOK /\ Calls /\ Output /\ Synchronous /\ MessagesInOrder
      /\ PongsEchoPings /\ FailuresHaveCauses
  BY DEF IInv
<1>3. TypeOK'
  BY <1>1, <1>2 DEF TypeOK
<1>4. Calls'
  BY <1>1, <1>2 DEF Calls, Alive
<1>5. Output' /\ MessagesInOrder' /\ PongsEchoPings' /\ FailuresHaveCauses'
  BY <1>1, <1>2 DEF Output, MessagesInOrder, PongsEchoPings,
     FailuresHaveCauses, Interrupted
<1>6. Synchronous'
  BY <1>1, <1>2, QuietKeepsSync DEF Alive
<1> QED
  BY <1>3, <1>4, <1>5, <1>6 DEF IInv

\* A goroutine calls writeFrame, for a message or to close.
LEMMA CallKeeps ==
  ASSUME IInv, NEW p \in Procs, Free(p), NEW j \in Job, pc # "new",
         j.for \in {"message", "close"}, j.op # opPong,
         job' = [job EXCEPT ![p] = j], writes' \in [Procs -> 0 .. MaxWrites],
         pc' = pc \/ (p = Handler /\ pc' = "done"),
         UNCHANGED <<aborted, wmu, out, msg, result, delivered, connUp, inbox,
                     client>>
  PROVE  IInv'
<1>1. /\ TypeOK /\ Calls /\ Output /\ Synchronous /\ MessagesInOrder
      /\ PongsEchoPings /\ FailuresHaveCauses
  BY DEF IInv
<1>2. /\ UNCHANGED <<frames, partial, sent, pinged, provoked>>
  BY DEF client
<1>3. /\ job[p] = None /\ job \in [Procs -> Job \cup {None}] /\ Handler \in Procs
      /\ p = Handler => pc = "handler"
  BY <1>1 DEF Free, TypeOK, Procs
<1>4. /\ job'[p] = j /\ \A q \in Procs : q # p => job'[q] = job[q]
      /\ job' \in [Procs -> Job \cup {None}]
  BY <1>3
<1>5. wmu # p /\ j # None /\ wmu \in Procs \cup {None}
  BY <1>1, <1>3, Distinct DEF Calls, TypeOK
<1>6. wmu # None => wmu \in Procs /\ job'[wmu] = job[wmu]
  BY <1>4, <1>5
<1>7. pc' # "new" /\ (pc' \in {"reading", "pong", "echo"} => pc' = pc /\ p # Handler)
  BY <1>3
<1>8. TypeOK'
  <2>1. pc' \in {"new", "refused", "handler", "reading", "pong", "echo", "done"}
    BY <1>1 DEF TypeOK
  <2> QED
    BY <1>1, <1>2, <1>4, <2>1 DEF TypeOK
<1>9. Calls'
  <2>1. ASSUME NEW q \in Procs, job'[q] # None
        PROVE  /\ job'[q].for \in {"pong", "echo"} => q = Handler /\ pc' = job'[q].for
               /\ job'[q].op = opPong <=> job'[q].for = "pong"
    <3>1. CASE q = p
      BY <1>4, <3>1
    <3>2. CASE q # p
      <4>1. /\ job[q].for \in {"pong", "echo"} => q = Handler /\ pc = job[q].for
            /\ job[q].op = opPong <=> job[q].for = "pong"
        BY <1>1, <1>4, <2>1, <3>2 DEF Calls
      <4> QED
        BY <1>3, <1>4, <3>2, <4>1
    <3> QED
      BY <3>1, <3>2
  <2>2. pc' \in {"pong", "echo"} => job'[Handler] # None /\ job'[Handler].for = pc'
    BY <1>1, <1>3, <1>4, <1>7 DEF Calls
  <2>3. pc' = "reading" => job'[Handler] = None
    BY <1>1, <1>3, <1>4, <1>7 DEF Calls
  <2>4. pc' \in {"reading", "pong", "echo"} => Alive'
    BY <1>1, <1>7 DEF Calls, Alive
  <2>5. pc' = "echo" => "closing" \in provoked'
    BY <1>1, <1>2, <1>7 DEF Calls
  <2>6. wmu # None => job'[wmu] # None /\ job'[wmu].for # "conn"
    BY <1>1, <1>6 DEF Calls
  <2> QED
    BY <1>7, <2>1, <2>2, <2>3, <2>4, <2>5, <2>6 DEF Calls
<1>10. Output'
  BY <1>1, <1>6 DEF Output
<1>11. MessagesInOrder' /\ PongsEchoPings' /\ FailuresHaveCauses'
  BY <1>1, <1>2 DEF MessagesInOrder, PongsEchoPings,
     FailuresHaveCauses, Interrupted
<1>12. Synchronous'
  <2>1. \/ pc # "pong" /\ pc' # "pong"
        \/ pc' = pc /\ job'[Handler] = job[Handler]
    <3>1. CASE p = Handler
      BY <1>3, <3>1
    <3>2. CASE p # Handler
      BY <1>3, <1>4, <3>2
    <3> QED
      BY <3>1, <3>2
  <2> QED
    BY <1>1, <1>2, <2>1, QuietKeepsSync DEF Alive
<1> QED
  BY <1>8, <1>9, <1>10, <1>11, <1>12 DEF IInv

\* A goroutine calls WriteMessage.
LEMMA WriteMessageKeeps ==
  ASSUME IInv, NEW p \in Procs, NEW type \in DataTypes, NEW n \in WriteSizes[p],
         WriteMessage(p, type, n)
  PROVE  IInv'
<1> DEFINE j == [op |-> type, length |-> n, for |-> "message"]
<1>1. n \in Length /\ type \in Opcodes /\ type # opPong
  BY SocketAssumption, Distinct
<1>2. j \in Job /\ j.for \in {"message", "close"} /\ j.op # opPong
  BY <1>1 DEF Job
<1>3. writes' \in [Procs -> 0 .. MaxWrites]
  <2>1. writes \in [Procs -> 0 .. MaxWrites] /\ MaxWrites \in Nat
    BY SocketAssumption DEF IInv, TypeOK
  <2>2. writes[p] < MaxWrites /\ writes' = [writes EXCEPT ![p] = writes[p] + 1]
    BY DEF WriteMessage
  <2> QED
    BY <2>1, <2>2
<1>4. /\ Free(p) /\ pc # "new" /\ job' = [job EXCEPT ![p] = j] /\ pc' = pc
      /\ UNCHANGED <<aborted, wmu, out, msg, result, delivered, connUp, inbox,
                     client>>
  BY DEF WriteMessage, writeFrame
<1> HIDE DEF j
<1> QED
  BY <1>2, <1>3, <1>4, CallKeeps

\* A goroutine calls Close.
LEMMA CloseKeeps ==
  ASSUME IInv, NEW p \in Procs, Close(p)
  PROVE  IInv'
<1> DEFINE j == [op |-> opClose, length |-> 0, for |-> "close"]
<1>1. j \in Job /\ j.for \in {"message", "close"} /\ j.op # opPong
  BY Distinct DEF Job
<1>2. writes' \in [Procs -> 0 .. MaxWrites]
  <2>1. writes \in [Procs -> 0 .. MaxWrites] /\ MaxWrites \in Nat
    BY SocketAssumption DEF IInv, TypeOK
  <2>2. CASE p = Handler
    BY <2>1, <2>2 DEF Close
  <2>3. CASE p # Handler
    <3>1. writes[p] < MaxWrites /\ writes' = [writes EXCEPT ![p] = writes[p] + 1]
      BY <2>3 DEF Close
    <3> QED
      BY <2>1, <3>1
  <2> QED
    BY <2>2, <2>3
<1>3. /\ Free(p) /\ pc # "new" /\ job' = [job EXCEPT ![p] = j]
      /\ pc' = pc \/ (p = Handler /\ pc' = "done")
      /\ UNCHANGED <<aborted, wmu, out, msg, result, delivered, connUp, inbox,
                     client>>
  BY DEF Close, writeFrame
<1> HIDE DEF j
<1> QED
  BY <1>1, <1>2, <1>3, CallKeeps

\* conn.Close
LEMMA CloseConnKeeps ==
  ASSUME IInv, NEW p \in Procs, CloseConn(p)
  PROVE  IInv'
<1>1. /\ UNCHANGED <<pc, aborted, wmu, out, msg, result, delivered, writes>>
      /\ UNCHANGED <<frames, partial, sent, pinged, provoked>>
      /\ job[p] # None /\ job[p].for = "conn" /\ Down /\ UNCHANGED client
      /\ job' = [job EXCEPT ![p] = None]
  BY DEF CloseConn, client
<1>2. /\ TypeOK /\ Calls /\ Output /\ Synchronous /\ MessagesInOrder
      /\ PongsEchoPings /\ FailuresHaveCauses
  BY DEF IInv
<1>3. Synchronous' /\ inbox' \in Seq(Frame) /\ connUp' = FALSE
  BY <1>1, <1>2, DownKeepsSync
<1>4. /\ job \in [Procs -> Job \cup {None}] /\ Handler \in Procs
      /\ wmu \in Procs \cup {None}
  BY <1>2 DEF TypeOK, Procs
<1>5. /\ job'[p] = None /\ \A q \in Procs : q # p => job'[q] = job[q]
      /\ job' \in [Procs -> Job \cup {None}]
  BY <1>1, <1>4
<1>6. pc # "new" /\ wmu # p /\ (pc \in {"pong", "echo"} => p # Handler)
  <2>1. pc # "new"
    BY <1>1, <1>2 DEF Calls
  <2>2. wmu # p
    BY <1>1, <1>2, Distinct DEF Calls
  <2>3. pc \in {"pong", "echo"} => p # Handler
    BY <1>1, <1>2 DEF Calls
  <2> QED
    BY <2>1, <2>2, <2>3
<1>7. TypeOK'
  BY <1>1, <1>2, <1>3, <1>5 DEF TypeOK, Frame
<1>8. Calls'
  <2>1. ASSUME NEW q \in Procs, job'[q] # None
        PROVE  job'[q] = job[q] /\ job[q] # None
    BY <1>5, <2>1
  <2>2. wmu # None => job'[wmu] = job[wmu]
    BY <1>4, <1>5, <1>6
  <2>3. pc \in {"pong", "echo"} => job'[Handler] = job[Handler]
    BY <1>4, <1>5, <1>6
  <2>4. pc = "reading" => job'[Handler] = None
    BY <1>2, <1>4, <1>5 DEF Calls
  <2> QED
    BY <1>1, <1>2, <1>6, <2>1, <2>2, <2>3, <2>4 DEF Calls, Alive
<1>9. Output' /\ MessagesInOrder' /\ PongsEchoPings' /\ FailuresHaveCauses'
  BY <1>1, <1>2, <1>3 DEF Output, MessagesInOrder, PongsEchoPings,
     FailuresHaveCauses, Interrupted
<1> QED
  BY <1>3, <1>7, <1>8, <1>9 DEF IInv

-----------------------------------------------------------------------------
(* Writing.                                                                *)

\* writeFrame returns and gives the mutex back.
LEMMA ReturnedKeeps ==
  ASSUME TypeOK, Calls, FailuresHaveCauses, NEW p \in Procs, job[p] # None,
         job[p].for # "conn", NEW ok \in BOOLEAN, Returned(p, ok), ~ok => ~connUp,
         wmu' = None, UNCHANGED <<connUp, provoked>>
  PROVE  /\ job' \in [Procs -> Job \cup {None}] /\ Calls' /\ FailuresHaveCauses'
         /\ pc' \in {"new", "refused", "handler", "reading", "pong", "echo", "done"}
         /\ result' \in Results \cup {None}
         /\ Alive' => Alive
         /\ pc' = "pong" <=> pc = "pong" /\ job[p].for # "pong"
         /\ pc' = "pong" => job'[Handler] = job[Handler]
<1>1. /\ job \in [Procs -> Job \cup {None}] /\ job[p] \in Job /\ Handler \in Procs
      /\ pc \in {"new", "refused", "handler", "reading", "pong", "echo", "done"}
      /\ result \in Results \cup {None}
  BY DEF TypeOK, Procs
<1>2. /\ job[p].for \in {"pong", "echo"} => p = Handler /\ pc = job[p].for
      /\ job[p].op = opPong <=> job[p].for = "pong"
      /\ pc # "new" /\ (p = Handler => pc # "reading")
      /\ pc \in {"pong", "echo"} => job[Handler] # None /\ job[Handler].for = pc
  BY DEF Calls
<1>3. CASE job[p].for \in {"message", "close"}
  <2>1. /\ UNCHANGED <<pc, result>>
        /\ job'[p] = None \/ (job'[p] \in Job /\ job'[p].for = "conn" /\ job'[p].op = job[p].op)
        /\ \A q \in Procs : q # p => job'[q] = job[q]
        /\ job' \in [Procs -> Job \cup {None}]
    <3>1. CASE job[p].for = "message"
      <4>1. job' = [job EXCEPT ![p] = None] /\ UNCHANGED <<pc, result>>
        BY <3>1 DEF Returned
      <4> QED
        BY <1>1, <4>1
    <3>2. CASE job[p].for = "close"
      <4>1. job' = [job EXCEPT ![p].for = "conn"] /\ UNCHANGED <<pc, result>>
        BY <3>2 DEF Returned
      <4>2. [job[p] EXCEPT !.for = "conn"] \in Job
        BY <1>1 DEF Job
      <4> QED
        BY <1>1, <4>1, <4>2 DEF Job
    <3> QED
      BY <1>3, <3>1, <3>2
  <2>2. pc \in {"pong", "echo"} => p # Handler
    BY <1>2, <1>3
  <2>3. pc' \in {"pong", "echo"} => job'[Handler] = job[Handler]
    BY <1>1, <2>1, <2>2
  <2>4. pc = "reading" => job'[Handler] = None
    BY <1>1, <1>2, <2>1 DEF Calls
  <2>5. ASSUME NEW q \in Procs, job'[q] # None
        PROVE  /\ job'[q].for \in {"pong", "echo"} => q = Handler /\ pc' = job'[q].for
               /\ job'[q].op = opPong <=> job'[q].for = "pong"
    <3>1. CASE q = p
      BY <1>2, <1>3, <2>1, <2>5, <3>1
    <3>2. CASE q # p
      BY <2>1, <2>5, <3>2 DEF Calls
    <3> QED
      BY <3>1, <3>2
  <2>6. Calls'
    BY <1>2, <2>1, <2>3, <2>4, <2>5 DEF Calls, Alive
  <2>7. FailuresHaveCauses'
    BY <2>1 DEF FailuresHaveCauses, Interrupted
  <2> QED
    BY <1>1, <1>3, <2>1, <2>3, <2>6, <2>7 DEF Alive
<1>4. CASE job[p].for = "pong"
  <2>1. /\ job' = [job EXCEPT ![p] = None] /\ p = Handler /\ pc = "pong" /\ Alive
        /\ IF ok THEN pc' = "reading" /\ result' = result
           ELSE pc' = "handler" /\ result' = "error"
    BY <1>2, <1>4 DEF Returned, Calls
  <2>2. /\ job'[Handler] = None /\ \A q \in Procs : q # Handler => job'[q] = job[q]
        /\ job' \in [Procs -> Job \cup {None}]
    BY <1>1, <2>1
  <2>3. ASSUME NEW q \in Procs, job'[q] # None
        PROVE  /\ job'[q].for \in {"pong", "echo"} => q = Handler /\ pc' = job'[q].for
               /\ job'[q].op = opPong <=> job'[q].for = "pong"
    <3>1. q # Handler /\ job'[q] = job[q]
      BY <2>2, <2>3
    <3> QED
      BY <2>3, <3>1 DEF Calls
  <2>4. Calls'
    BY <2>1, <2>2, <2>3 DEF Calls, Alive
  <2>5. FailuresHaveCauses'
    BY <2>1 DEF FailuresHaveCauses, Interrupted
  <2> QED
    BY <1>1, <1>4, <2>1, <2>2, <2>4, <2>5 DEF Alive, Results
<1>5. CASE job[p].for = "echo"
  <2>1. /\ job' = [job EXCEPT ![p] = None] /\ p = Handler /\ pc = "echo" /\ Alive
        /\ pc' = "handler" /\ result' = "ErrClosed" /\ "closing" \in provoked
    BY <1>2, <1>5 DEF Returned, Calls
  <2>2. /\ job'[Handler] = None /\ \A q \in Procs : q # Handler => job'[q] = job[q]
        /\ job' \in [Procs -> Job \cup {None}]
    BY <1>1, <2>1
  <2>3. ASSUME NEW q \in Procs, job'[q] # None
        PROVE  /\ job'[q].for \in {"pong", "echo"} => q = Handler /\ pc' = job'[q].for
               /\ job'[q].op = opPong <=> job'[q].for = "pong"
    <3>1. q # Handler /\ job'[q] = job[q]
      BY <2>2, <2>3
    <3> QED
      BY <2>3, <3>1 DEF Calls
  <2>4. Calls'
    BY <2>1, <2>2, <2>3 DEF Calls, Alive
  <2>5. FailuresHaveCauses'
    BY <2>1 DEF FailuresHaveCauses, Interrupted
  <2> QED
    BY <1>1, <1>5, <2>1, <2>2, <2>4, <2>5 DEF Alive, Results
<1> QED
  BY <1>1, <1>3, <1>4, <1>5 DEF Job

\* The server owes a pong, of which nothing has gone out.
Owed == pc = "pong" /\ wmu # Handler

\* A write leaves server and client in step if it sends a pong exactly when one
\* is owed no longer.
LEMMA WriteKeepsSync ==
  ASSUME Synchronous, Alive' => Alive,
         UNCHANGED <<connUp, inbox, sent, pinged, provoked, partial, msg, delivered>>,
         connUp =>
           /\ Owed' => Owed /\ job'[Handler] = job[Handler]
           /\ Pongs(out', Len(out')) =
                IF Owed /\ ~Owed' THEN Pongs(out, Len(out)) + 1
                ELSE Pongs(out, Len(out))
  PROVE  Synchronous'
<1> SUFFICES ASSUME Alive PROVE (\E t : Sync(t))'
  BY DEF Synchronous
<1>1. PICK t : Sync(t)
  BY DEF Synchronous
<1>2. connUp => IF Owed'
                THEN /\ t[1].pings = Pongs(out', Len(out')) + 1
                     /\ job'[Handler].length = pinged[t[1].pings]
                ELSE t[1].pings = Pongs(out', Len(out'))
  <2> SUFFICES ASSUME connUp
               PROVE  IF Owed'
                      THEN /\ t[1].pings = Pongs(out', Len(out')) + 1
                           /\ job'[Handler].length = pinged[t[1].pings]
                      ELSE t[1].pings = Pongs(out', Len(out'))
    OBVIOUS
  <2>1. IF Owed
        THEN /\ t[1].pings = Pongs(out, Len(out)) + 1
             /\ job[Handler].length = pinged[t[1].pings]
        ELSE t[1].pings = Pongs(out, Len(out))
    BY <1>1 DEF Sync, Owed
  <2> QED
    BY <2>1
<1>3. Sync(t)'
  BY <1>1, <1>2 DEF Sync, Owed
<1> QED
  BY <1>3

\* A chunk that fits behind the others.
LEMMA OutputAppend ==
  ASSUME NEW chunks \in Seq(ChunkType), NEW c \in ChunkType,
         \A i \in DOMAIN chunks : InPlace(chunks, i),
         LET n == Len(chunks)
         IN  \/ /\ c.header = frameHeader(c.op, c.length) /\ c.header # <<>>
                /\ n = 0 \/ chunks[n].header = <<>> \/ chunks[n].length = 0
             \/ /\ c.header = <<>> /\ n # 0 /\ chunks[n].header # <<>>
                /\ chunks[n].length # 0 /\ c.by = chunks[n].by
                /\ c.length = chunks[n].length
  PROVE  \A i \in DOMAIN Append(chunks, c) : InPlace(Append(chunks, c), i)
<1> DEFINE n == Len(chunks)
           more == Append(chunks, c)
<1>1. /\ n \in Nat /\ DOMAIN chunks = 1 .. n
      /\ DOMAIN more = 1 .. n + 1 /\ Len(more) = n + 1 /\ more[n + 1] = c
      /\ \A i \in 1 .. n : more[i] = chunks[i]
  BY AppendProperties
<1> HIDE DEF n, more
<1> SUFFICES ASSUME NEW i \in 1 .. n + 1 PROVE InPlace(more, i)
  BY <1>1 DEF more
<1>2. CASE i = n + 1
  <2>1. more[i] = c /\ ~(i < Len(more))
    BY <1>1, <1>2
  <2>2. c.header \in {<<>>, frameHeader(c.op, c.length)}
    OBVIOUS
  <2>3. c.header = <<>> => i > 1 /\ more[i - 1].header # <<>>
    BY <1>1, <1>2 DEF n
  <2> QED
    BY <2>1, <2>2, <2>3 DEF InPlace
<1>3. CASE i \in 1 .. n /\ i < n
  <2>1. more[i] = chunks[i] /\ more[i + 1] = chunks[i + 1] /\ i < Len(chunks)
    BY <1>1, <1>3 DEF n
  <2>2. i > 1 => more[i - 1] = chunks[i - 1]
    BY <1>1, <1>3
  <2>3. InPlace(chunks, i)
    BY <1>1, <1>3
  <2> QED
    BY <2>1, <2>2, <2>3 DEF InPlace
<1>4. CASE i = n
  <2>1. more[i] = chunks[n] /\ more[i + 1] = c /\ n # 0
    BY <1>1, <1>4
  <2>2. i > 1 => more[i - 1] = chunks[i - 1]
    BY <1>1, <1>4
  <2>3. InPlace(chunks, n)
    BY <1>1, <1>4
  <2>4. chunks[n].header # <<>> =>
          IF chunks[n].length = 0 THEN c.header # <<>>
          ELSE c.header = <<>> /\ c.by = chunks[n].by /\ c.length = chunks[n].length
    BY <2>1 DEF n
  <2> QED
    BY <1>4, <2>1, <2>2, <2>3, <2>4 DEF InPlace
<1> QED
  BY <1>1, <1>2, <1>3, <1>4

\* Another chunk keeps the pongs in the order of the pings if it is no pong, or
\* the one that is due.
LEMMA PongsEchoAppend ==
  ASSUME out \in Seq(ChunkType), NEW c \in ChunkType, PongsEchoPings,
         out' = Append(out, c), UNCHANGED pinged,
         IsPong(c) => /\ Pongs(out, Len(out)) + 1 <= Len(pinged)
                      /\ c.length = pinged[Pongs(out, Len(out)) + 1]
  PROVE  PongsEchoPings'
<1> DEFINE n == Len(out)
           more == Append(out, c)
<1>1. /\ n \in Nat /\ DOMAIN out = 1 .. n
      /\ DOMAIN more = 1 .. n + 1 /\ more[n + 1] = c
      /\ \A i \in 1 .. n : more[i] = out[i]
  BY AppendProperties
<1>2. /\ \A i \in 1 .. n : Pongs(more, i) = Pongs(out, i)
      /\ Pongs(more, n + 1) = IF IsPong(c) THEN Pongs(out, n) + 1 ELSE Pongs(out, n)
  BY <1>1, PongsAppend
<1> SUFFICES ASSUME NEW i \in 1 .. n + 1, IsPong(more[i])
             PROVE  /\ Pongs(more, i) <= Len(pinged)
                    /\ more[i].length = pinged[Pongs(more, i)]
  <2> HIDE DEF more, n
  <2>1. out' = more /\ pinged' = pinged
    BY DEF more
  <2> QED
    BY <1>1, <2>1 DEF PongsEchoPings, IsPong, Pongs
<1> HIDE DEF more
<1>3. CASE i = n + 1
  <2>1. IsPong(c)
    BY <1>1, <1>3
  <2> HIDE DEF n
  <2>2. Pongs(more, i) = Pongs(out, n) + 1 /\ more[i] = c
    BY <1>1, <1>2, <1>3, <2>1
  <2>3. Pongs(out, n) + 1 <= Len(pinged) /\ c.length = pinged[Pongs(out, n) + 1]
    BY <2>1 DEF n
  <2> QED
    BY <2>2, <2>3
<1>4. CASE i \in 1 .. n
  <2>1. more[i] = out[i] /\ Pongs(more, i) = Pongs(out, i) /\ i \in DOMAIN out
    BY <1>1, <1>2, <1>4
  <2> QED
    BY <2>1 DEF PongsEchoPings
<1> QED
  BY <1>1, <1>3, <1>4

\* writeFrame locks the mutex and writes the header, or fails to.
LEMMA WriteHeaderKeeps ==
  ASSUME IInv, NEW p \in Procs, WriteHeader(p)
  PROVE  IInv'
<1> DEFINE op == job[p].op
           n == job[p].length
           c == Chunk(p, frameHeader(op, n))
           P == Pongs(out, Len(out))
<1>1. /\ TypeOK /\ Calls /\ Output /\ Synchronous /\ MessagesInOrder
      /\ PongsEchoPings /\ FailuresHaveCauses
  BY DEF IInv
<1>2. /\ UNCHANGED <<aborted, connUp, msg, delivered, writes, inbox>>
      /\ UNCHANGED <<frames, partial, sent, pinged, provoked>>
      /\ job[p] # None /\ job[p].for # "conn" /\ wmu = None
      /\ connUp => out' = Append(out, c)
      /\ ~connUp => out' = out
  BY DEF WriteHeader, WantsToWrite, client
<1>3. PICK ok \in Outcomes :
        IF ok /\ n > 0 THEN wmu' = p /\ UNCHANGED <<pc, job, result>>
        ELSE Returned(p, ok) /\ UNCHANGED wmu
  BY DEF WriteHeader
<1>4. ok \in BOOLEAN /\ (~ok => ~connUp)
  BY DEF Outcomes
<1>5. /\ job \in [Procs -> Job \cup {None}] /\ job[p] \in Job /\ Handler \in Procs
      /\ op \in Opcodes /\ n \in Length /\ n \in Nat
  <2>1. job \in [Procs -> Job \cup {None}] /\ job[p] \in Job /\ Handler \in Procs
    BY <1>1, <1>2 DEF TypeOK, Procs
  <2> QED
    BY <2>1 DEF Job, Length
<1>6. frameHeader(op, n) \in Seq(Byte) /\ frameHeader(op, n) # <<>>
  <2> HIDE DEF op, n
  <2>1. ASSUME NEW fin \in BOOLEAN, NEW masked \in BOOLEAN
        PROVE  RfcHeader(fin, op, masked, n) \in Seq(Byte) /\ RfcHeader(fin, op, masked, n) # <<>>
    BY <1>5, HeaderRead
  <2>2. RfcHeader(TRUE, op, FALSE, n) \in Seq(Byte) /\ RfcHeader(TRUE, op, FALSE, n) # <<>>
    BY <2>1, Zenon
  <2> QED
    BY <1>5, <2>2, HeaderWritten
<1>7. /\ c \in ChunkType /\ c.header = frameHeader(c.op, c.length) /\ c.header # <<>>
      /\ c.by = p /\ c.length = n /\ c.op = op
  BY <1>5, <1>6 DEF Chunk, ChunkType
<1> HIDE DEF c
<1>8. IsPong(c) <=> job[p].for = "pong"
  BY <1>1, <1>2, <1>7 DEF IsPong, Calls
<1> HIDE DEF op, n
<1>9. /\ out \in Seq(ChunkType) /\ Len(out) \in Nat
      /\ P \in Nat
  BY <1>1, PongsNat DEF TypeOK, ChunkType
<1>10. /\ out' \in Seq(ChunkType)
       /\ connUp => /\ Len(out') = Len(out) + 1 /\ out'[Len(out')] = c /\ out' # <<>>
                    /\ Pongs(out', Len(out')) = IF IsPong(c) THEN P + 1 ELSE P
  <2>1. CASE connUp
    <3>1. Len(Append(out, c)) = Len(out) + 1 /\ Append(out, c)[Len(out) + 1] = c
      BY <1>7, <1>9, AppendProperties
    <3>2. Pongs(Append(out, c), Len(out) + 1) = IF IsPong(c) THEN P + 1 ELSE P
      BY <1>7, <1>9, PongsAppend
    <3>3. Append(out, c) \in Seq(ChunkType) /\ Append(out, c) # <<>>
      BY <1>7, <1>9, AppendProperties
    <3> QED
      BY <1>2, <2>1, <3>1, <3>2, <3>3
  <2>2. CASE ~connUp
    BY <1>2, <1>9, <2>2
  <2> QED
    BY <2>1, <2>2
<1>11. /\ job[p].for = "pong" => p = Handler /\ pc = "pong"
       /\ pc = "pong" => job[Handler].for = "pong" /\ Alive
       /\ wmu # Handler
  <2>1. wmu # Handler
    BY <1>2, <1>5, Distinct
  <2> QED
    BY <1>1, <1>2, <2>1 DEF Calls
<1>12. connUp /\ IsPong(c) => P + 1 <= Len(pinged) /\ c.length = pinged[P + 1]
  <2> SUFFICES ASSUME connUp, IsPong(c)
               PROVE  P + 1 <= Len(pinged) /\ c.length = pinged[P + 1]
    OBVIOUS
  <2>1. p = Handler /\ pc = "pong" /\ Alive
    BY <1>8, <1>11
  <2>2. PICK t : Sync(t)
    BY <1>1, <2>1 DEF Synchronous
  <2>3. t[1].pings = P + 1 /\ job[Handler].length = pinged[t[1].pings]
    BY <1>11, <2>1, <2>2 DEF Sync
  <2>4. 1 \in 1 .. Len(inbox) + 1
    BY <1>1 DEF TypeOK
  <2>5. t[1].pings <= Len(pinged)
    BY <2>2, <2>4 DEF Sync
  <2> QED
    BY <1>7, <2>1, <2>3, <2>5 DEF n
<1>13. PongsEchoPings'
  <2>1. CASE connUp
    BY <1>1, <1>2, <1>7, <1>9, <1>12, <2>1, PongsEchoAppend
  <2>2. CASE ~connUp
    BY <1>1, <1>2, <2>2 DEF PongsEchoPings
  <2> QED
    BY <2>1, <2>2
<1>14. \A i \in DOMAIN out' : InPlace(out', i)
  <2>1. CASE connUp
    <3>1. \/ Len(out) = 0 \/ out[Len(out)].header = <<>> \/ out[Len(out)].length = 0
      BY <1>1, <1>2, <1>9, <2>1, EmptySeq DEF Output
    <3>2. \A i \in DOMAIN out : InPlace(out, i)
      BY <1>1 DEF Output
    <3>3. \A i \in DOMAIN Append(out, c) : InPlace(Append(out, c), i)
      BY <1>7, <1>9, <3>1, <3>2, OutputAppend
    <3> QED
      BY <1>2, <2>1, <3>3
  <2>2. CASE ~connUp
    BY <1>1, <1>2, <2>2 DEF Output
  <2> QED
    BY <2>1, <2>2
<1>15. MessagesInOrder'
  BY <1>1, <1>2 DEF MessagesInOrder
<1>16. CASE ok /\ n > 0
  <2>1. wmu' = p /\ UNCHANGED <<pc, job, result>>
    BY <1>3, <1>16
  <2>2. TypeOK'
    BY <1>1, <1>2, <1>10, <2>1 DEF TypeOK, ChunkType
  <2>3. Calls'
    BY <1>1, <1>2, <2>1 DEF Calls, Alive
  <2>4. FailuresHaveCauses'
    BY <1>1, <1>2, <2>1 DEF FailuresHaveCauses, Interrupted
  <2>5. Output'
    <3>1. connUp => /\ out'[Len(out')].header # <<>> /\ out'[Len(out')].by = wmu'
                    /\ out'[Len(out')].length = job'[wmu'].length
                    /\ out'[Len(out')].length # 0
      BY <1>7, <1>10, <1>16, <2>1, <1>5 DEF n
    <3>2. wmu' # None
      BY <2>1, Distinct
    <3> QED
      BY <1>2, <1>10, <1>14, <3>1, <3>2 DEF Output
  <2>6. Synchronous'
    <3>1. Owed' => Owed /\ job'[Handler] = job[Handler]
      BY <1>11, <2>1 DEF Owed
    <3>2. Owed /\ ~Owed' <=> job[p].for = "pong"
      BY <1>11, <2>1 DEF Owed
    <3>3. Alive' => Alive
      BY <2>1 DEF Alive
    <3>4. connUp => Pongs(out', Len(out')) = IF Owed /\ ~Owed' THEN P + 1 ELSE P
      BY <1>8, <1>10, <3>2
    <3> QED
      BY <1>1, <1>2, <3>1, <3>3, <3>4, WriteKeepsSync
  <2> QED
    BY <1>13, <1>15, <2>2, <2>3, <2>4, <2>5, <2>6 DEF IInv
<1>17. CASE ~(ok /\ n > 0)
  <2>1. Returned(p, ok) /\ wmu' = None
    BY <1>2, <1>3, <1>17
  <2>2. /\ job' \in [Procs -> Job \cup {None}] /\ Calls' /\ FailuresHaveCauses'
        /\ pc' \in {"new", "refused", "handler", "reading", "pong", "echo", "done"}
        /\ result' \in Results \cup {None}
        /\ Alive' => Alive
        /\ pc' = "pong" <=> pc = "pong" /\ job[p].for # "pong"
        /\ pc' = "pong" => job'[Handler] = job[Handler]
    BY <1>1, <1>2, <1>4, <2>1, ReturnedKeeps
  <2>3. TypeOK'
    BY <1>1, <1>2, <1>10, <2>1, <2>2 DEF TypeOK, ChunkType
  <2>4. Output'
    <3>1. connUp => out'[Len(out')].length = 0
      BY <1>4, <1>5, <1>7, <1>10, <1>17
    <3> QED
      BY <1>2, <1>14, <2>1, <3>1 DEF Output
  <2>5. Synchronous'
    <3>1. wmu' # Handler
      BY <1>11, <1>2, <2>1
    <3>2. Owed' => Owed /\ job'[Handler] = job[Handler]
      BY <1>11, <2>2, <3>1 DEF Owed
    <3>3. Owed /\ ~Owed' <=> job[p].for = "pong"
      BY <1>11, <2>2, <3>1 DEF Owed
    <3>4. connUp => Pongs(out', Len(out')) = IF Owed /\ ~Owed' THEN P + 1 ELSE P
      BY <1>8, <1>10, <3>3
    <3> QED
      BY <1>1, <1>2, <2>2, <3>2, <3>4, WriteKeepsSync
  <2> QED
    BY <1>13, <1>15, <2>2, <2>3, <2>4, <2>5 DEF IInv
<1> QED
  BY <1>16, <1>17

\* writeFrame writes the payload, or fails to, and unlocks the mutex.
LEMMA WritePayloadKeeps ==
  ASSUME IInv, NEW p \in Procs, WritePayload(p)
  PROVE  IInv'
<1> DEFINE c == Chunk(p, <<>>)
           P == Pongs(out, Len(out))
<1>1. /\ TypeOK /\ Calls /\ Output /\ Synchronous /\ MessagesInOrder
      /\ PongsEchoPings /\ FailuresHaveCauses
  BY DEF IInv
<1>2. /\ UNCHANGED <<aborted, connUp, msg, delivered, writes, inbox>>
      /\ UNCHANGED <<frames, partial, sent, pinged, provoked>>
      /\ wmu = p /\ wmu' = None
      /\ connUp => out' = Append(out, c)
      /\ ~connUp => out' = out
  BY DEF WritePayload, client
<1>3. PICK ok \in Outcomes : Returned(p, ok)
  BY DEF WritePayload
<1>4. ok \in BOOLEAN /\ (~ok => ~connUp)
  BY DEF Outcomes
<1>5. /\ job \in [Procs -> Job \cup {None}] /\ job[p] \in Job /\ Handler \in Procs
      /\ job[p] # None /\ job[p].for # "conn" /\ wmu # None
  <2>1. wmu # None
    BY <1>2, Distinct
  <2>2. job[p] # None /\ job[p].for # "conn"
    BY <1>1, <1>2, <2>1 DEF Calls
  <2> QED
    BY <1>1, <2>1, <2>2 DEF TypeOK, Procs
<1>6. /\ c \in ChunkType /\ c.header = <<>> /\ c.by = p /\ c.length = job[p].length
  BY <1>5 DEF Chunk, ChunkType, Job
<1> HIDE DEF c
<1>7. ~IsPong(c)
  BY <1>6 DEF IsPong
<1>8. /\ out \in Seq(ChunkType) /\ Len(out) \in Nat /\ P \in Nat
  BY <1>1, PongsNat DEF TypeOK, ChunkType
<1>9. /\ out' \in Seq(ChunkType)
      /\ connUp => out' # <<>> /\ out'[Len(out')] = c
      /\ Pongs(out', Len(out')) = P
  <2>1. CASE connUp
    <3>1. Len(Append(out, c)) = Len(out) + 1 /\ Append(out, c)[Len(out) + 1] = c
      BY <1>6, <1>8, AppendProperties
    <3>2. Pongs(Append(out, c), Len(out) + 1) = P
      BY <1>6, <1>7, <1>8, PongsAppend
    <3>3. Append(out, c) \in Seq(ChunkType) /\ Append(out, c) # <<>>
      BY <1>6, <1>8, AppendProperties
    <3> QED
      BY <1>2, <2>1, <3>1, <3>2, <3>3
  <2>2. CASE ~connUp
    BY <1>2, <1>8, <2>2
  <2> QED
    BY <2>1, <2>2
<1>10. PongsEchoPings'
  <2>1. CASE connUp
    BY <1>1, <1>2, <1>6, <1>7, <1>8, <2>1, PongsEchoAppend
  <2>2. CASE ~connUp
    BY <1>1, <1>2, <2>2 DEF PongsEchoPings
  <2> QED
    BY <2>1, <2>2
<1>11. \A i \in DOMAIN out' : InPlace(out', i)
  <2>1. CASE connUp
    <3>1. /\ Len(out) # 0 /\ out[Len(out)].header # <<>> /\ out[Len(out)].length # 0
          /\ c.by = out[Len(out)].by /\ c.length = out[Len(out)].length
      BY <1>1, <1>2, <1>5, <1>6, <1>8, <2>1, EmptySeq DEF Output
    <3>2. \A i \in DOMAIN out : InPlace(out, i)
      BY <1>1 DEF Output
    <3>3. \A i \in DOMAIN Append(out, c) : InPlace(Append(out, c), i)
      BY <1>6, <1>8, <3>1, <3>2, OutputAppend
    <3> QED
      BY <1>2, <2>1, <3>3
  <2>2. CASE ~connUp
    BY <1>1, <1>2, <2>2 DEF Output
  <2> QED
    BY <2>1, <2>2
<1>12. MessagesInOrder'
  BY <1>1, <1>2 DEF MessagesInOrder
<1>13. /\ job' \in [Procs -> Job \cup {None}] /\ Calls' /\ FailuresHaveCauses'
       /\ pc' \in {"new", "refused", "handler", "reading", "pong", "echo", "done"}
       /\ result' \in Results \cup {None}
       /\ Alive' => Alive
       /\ pc' = "pong" <=> pc = "pong" /\ job[p].for # "pong"
       /\ pc' = "pong" => job'[Handler] = job[Handler]
  BY <1>1, <1>2, <1>3, <1>4, <1>5, ReturnedKeeps
<1>14. TypeOK'
  BY <1>1, <1>2, <1>9, <1>13 DEF TypeOK, ChunkType
<1>15. Output'
  BY <1>2, <1>6, <1>9, <1>11 DEF Output
<1>16. Synchronous'
  <2>1. pc = "pong" => job[Handler].for = "pong"
    BY <1>1 DEF Calls
  <2>2. Owed' <=> pc = "pong" /\ p # Handler
    <3>1. wmu' # Handler
      BY <1>2, <1>5, Distinct
    <3>2. job[p].for = "pong" => p = Handler
      BY <1>1, <1>5 DEF Calls
    <3> QED
      BY <1>13, <2>1, <3>1, <3>2 DEF Owed
  <2>3. Owed <=> pc = "pong" /\ p # Handler
    BY <1>2 DEF Owed
  <2>4. Owed' => job'[Handler] = job[Handler]
    BY <1>13 DEF Owed
  <2> QED
    BY <1>1, <1>2, <1>9, <1>13, <2>2, <2>3, <2>4, WriteKeepsSync
<1> QED
  BY <1>10, <1>12, <1>13, <1>14, <1>15, <1>16 DEF IInv

-----------------------------------------------------------------------------
(* Reading.                                                                *)

\* A frame has been read: the client's stages are those from the second on.
LEMMA ReadKeepsSync ==
  ASSUME TypeOK, NEW t, Sync(t), pc = "reading", wmu # Handler,
         inbox # <<>>, inbox' = Tail(inbox), UNCHANGED <<wmu, out, connUp, client>>,
         t[2].partial = msg', t[2].count = Len(delivered'),
         IF pc' = "pong" THEN /\ t[2].pings = t[1].pings + 1
                              /\ job'[Handler].length = pinged[t[2].pings]
         ELSE t[2].pings = t[1].pings
  PROVE  Synchronous'
<1>1. PICK u : u = [i \in Nat |-> t[i + 1]]
  OBVIOUS
<1>2. /\ t \in [Nat -> Stage] /\ u \in [Nat -> Stage]
      /\ \A i \in Nat : u[i] = t[i + 1]
  <2>1. t \in [Nat -> Stage]
    BY DEF Sync
  <2>2. \A i \in Nat : i + 1 \in Nat
    OBVIOUS
  <2> QED
    BY <1>1, <2>1, <2>2
<1>3. /\ inbox \in Seq(Frame) /\ Len(inbox) \in Nat /\ Len(inbox) # 0
      /\ Len(inbox') = Len(inbox) - 1
      /\ \A i \in 1 .. Len(inbox) - 1 : inbox'[i] = inbox[i + 1]
  <2>1. inbox \in Seq(Frame)
    BY DEF TypeOK, Frame
  <2> QED
    BY <2>1, HeadTailProperties, EmptySeq
<1>4. UNCHANGED <<sent, pinged, provoked, partial>>
  BY DEF client
<1>5. ASSUME NEW i \in 1 .. Len(inbox')
      PROVE  Sent(inbox'[i], u[i], u[i + 1], sent', pinged', provoked')
  <2>1. /\ i \in Nat /\ i + 1 \in 1 .. Len(inbox) /\ inbox'[i] = inbox[i + 1]
        /\ u[i] = t[i + 1] /\ u[i + 1] = t[(i + 1) + 1]
    BY <1>2, <1>3
  <2> QED
    BY <1>4, <2>1 DEF Sync
<1>6. ASSUME NEW i \in 1 .. Len(inbox') + 1
      PROVE  u[i].count <= Len(sent') /\ u[i].pings <= Len(pinged')
  <2>1. i \in Nat /\ i + 1 \in 1 .. Len(inbox) + 1 /\ u[i] = t[i + 1]
    BY <1>2, <1>3
  <2> QED
    BY <1>4, <2>1 DEF Sync
<1>7. u[1] = t[2] /\ u[Len(inbox') + 1] = t[Len(inbox) + 1]
  <2>1. u[1] = t[1 + 1]
    BY <1>2
  <2>2. Len(inbox') + 1 \in Nat /\ (Len(inbox') + 1) + 1 = Len(inbox) + 1
    BY <1>3
  <2> QED
    BY <1>2, <2>1, <2>2
<1>8. connUp =>
        /\ u[Len(inbox') + 1] = [partial |-> partial', count |-> Len(sent'),
                                 pings |-> Len(pinged')]
        /\ IF pc' = "pong" /\ wmu' # Handler
           THEN /\ u[1].pings = Pongs(out', Len(out')) + 1
                /\ job'[Handler].length = pinged'[u[1].pings]
           ELSE u[1].pings = Pongs(out', Len(out'))
  <2> SUFFICES ASSUME connUp
               PROVE  /\ u[Len(inbox') + 1] =
                           [partial |-> partial', count |-> Len(sent'),
                            pings |-> Len(pinged')]
                      /\ IF pc' = "pong" /\ wmu' # Handler
                         THEN /\ u[1].pings = Pongs(out', Len(out')) + 1
                              /\ job'[Handler].length = pinged'[u[1].pings]
                         ELSE u[1].pings = Pongs(out', Len(out'))
    OBVIOUS
  <2>1. /\ t[Len(inbox) + 1] = [partial |-> partial, count |-> Len(sent),
                                pings |-> Len(pinged)]
        /\ t[1].pings = Pongs(out, Len(out))
    BY DEF Sync
  <2> QED
    BY <1>4, <1>7, <2>1
<1>9. Sync(u)'
  BY <1>2, <1>5, <1>6, <1>7, <1>8 DEF Sync
<1> QED
  BY <1>9 DEF Synchronous

\* An error is returned: what the client sent no longer matters.
LEMMA FailsKeeps ==
  ASSUME IInv, pc = "reading", NEW why, Fails(why),
         inbox' \in Seq(Frame), UNCHANGED <<aborted, wmu, out, writes, connUp, client>>,
         \/ why = "error" /\ provoked \cap {"too long", "reserved opcode"} # {}
         \/ why = "error" /\ ~connUp
         \/ why = "expected continuation frame" /\ "interruption" \in provoked
  PROVE  IInv'
<1>1. /\ TypeOK /\ Calls /\ Output /\ Synchronous /\ MessagesInOrder
      /\ PongsEchoPings /\ FailuresHaveCauses
  BY DEF IInv
<1>2. /\ UNCHANGED <<frames, partial, sent, pinged, provoked>>
      /\ pc' = "handler" /\ result' = why /\ msg' = None
      /\ UNCHANGED <<job, delivered>> /\ why \in Results
  BY DEF Fails, client, Results
<1>3. TypeOK'
  BY <1>1, <1>2 DEF TypeOK, Frame
<1>4. Calls'
  BY <1>1, <1>2 DEF Calls
<1>5. Output' /\ MessagesInOrder' /\ PongsEchoPings'
  BY <1>1, <1>2 DEF Output, MessagesInOrder, PongsEchoPings
<1>6. FailuresHaveCauses'
  BY <1>2 DEF FailuresHaveCauses, Interrupted
<1>7. ~Alive'
  BY <1>2, Distinct DEF Alive
<1> QED
  BY <1>3, <1>4, <1>5, <1>6, <1>7 DEF IInv, Synchronous

\* ReadMessage reads a frame.
LEMMA ReadFrameKeeps ==
  ASSUME IInv, ReadFrame
  PROVE  IInv'
<1>1. /\ TypeOK /\ Calls /\ Output /\ Synchronous /\ MessagesInOrder
      /\ PongsEchoPings /\ FailuresHaveCauses
  BY DEF IInv
<1>2. pc = "reading" /\ Alive /\ job[Handler] = None /\ wmu # Handler
  <2>1. pc = "reading"
    BY DEF ReadFrame
  <2>2. Alive /\ job[Handler] = None
    BY <1>1, <2>1 DEF Calls
  <2>3. Handler # None
    BY Distinct DEF Procs
  <2> QED
    BY <1>1, <2>1, <2>2, <2>3 DEF Calls
<1>3. PICK t : Sync(t)
  BY <1>1, <1>2 DEF Synchronous
<1>4. /\ inbox # <<>> /\ inbox' = Tail(inbox)
      /\ UNCHANGED <<aborted, wmu, out, writes, connUp, client>>
      /\ \/ ReadsError(t)
         \/ \E m \in Message, fin \in BOOLEAN : ReadsData(t, m, fin)
         \/ \E n \in Length : ReadsPing(t, n)
         \/ \E n \in Length : ReadsClose(t, n)
         \/ ReadsPong(t)
  BY <1>1, <1>3, ReadOutcome
<1>5. UNCHANGED <<frames, partial, sent, pinged, provoked>>
  BY <1>4 DEF client
<1>6. inbox' \in Seq(Frame)
  <2>1. inbox \in Seq(Frame)
    BY <1>1 DEF TypeOK, Frame
  <2> QED
    BY <1>4, <2>1, HeadTailProperties
<1>7. Output' /\ PongsEchoPings'
  <2> SUFFICES ASSUME TRUE PROVE Output'
    BY <1>1, <1>4, <1>5 DEF PongsEchoPings
  <2>1. wmu # None => job'[wmu] = job[wmu]
    <3>1. wmu \in Procs \cup {None} /\ job \in [Procs -> Job \cup {None}]
      BY <1>1 DEF TypeOK
    <3>2. \/ job' = job
          \/ \E j : job' = [job EXCEPT ![Handler] = j]
      BY <1>4 DEF ReadsError, ReadsData, ReadsPing, ReadsClose, ReadsPong, Fails, Extends
    <3> QED
      BY <1>2, <3>1, <3>2
  <2> QED
    BY <1>1, <1>4, <2>1 DEF Output
<1>8. t[1].partial = msg /\ t[1].count = Len(delivered) /\ t[1].count \in Nat
  <2>1. t \in [Nat -> Stage] /\ 1 \in Nat
    BY <1>3 DEF Sync
  <2> QED
    BY <1>3, <2>1 DEF Sync, Stage
<1>9. CASE ReadsError(t)
  BY <1>2, <1>4, <1>6, <1>9, FailsKeeps DEF ReadsError
<1>10. ASSUME NEW m \in Message, NEW fin \in BOOLEAN, ReadsData(t, m, fin)
       PROVE  IInv'
  <2>1. /\ IF fin
           THEN /\ delivered' = Append(delivered, m)
                /\ pc' = "handler" /\ result' = "message" /\ msg' = None
           ELSE msg' = m /\ pc' = pc /\ result' = result /\ delivered' = delivered
        /\ job' = job
    BY <1>10 DEF ReadsData, Extends
  <2>2. /\ t[2].partial = IF fin THEN None ELSE m
        /\ t[2].count = IF fin THEN t[1].count + 1 ELSE t[1].count
        /\ t[2].pings = t[1].pings
        /\ fin => t[2].count \in 1 .. Len(sent) /\ sent[t[2].count] = m
    BY <1>10 DEF ReadsData
  <2>3. delivered \in Seq(Message)
    BY <1>1 DEF TypeOK
  <2>4. /\ fin => /\ delivered' \in Seq(Message)
                  /\ Len(delivered') = Len(delivered) + 1
                  /\ delivered'[Len(delivered) + 1] = m
                  /\ \A i \in 1 .. Len(delivered) : delivered'[i] = delivered[i]
                  /\ DOMAIN delivered' = 1 .. Len(delivered) + 1
    <3> SUFFICES ASSUME fin
                 PROVE  /\ delivered' \in Seq(Message)
                        /\ Len(delivered') = Len(delivered) + 1
                        /\ delivered'[Len(delivered) + 1] = m
                        /\ \A i \in 1 .. Len(delivered) : delivered'[i] = delivered[i]
                        /\ DOMAIN delivered' = 1 .. Len(delivered) + 1
      OBVIOUS
    <3>1. delivered' = Append(delivered, m)
      BY <2>1
    <3> QED
      BY <2>3, <3>1, AppendProperties
  <2>5. /\ pc' \in {"handler", "reading"} /\ result' \in {None, "message"}
        /\ msg' \in Message \cup {None} /\ delivered' \in Seq(Message)
    BY <1>2, <2>1, <2>3, <2>4 DEF Alive
  <2>6. TypeOK'
    <3>1. pc' \in {"new", "refused", "handler", "reading", "pong", "echo", "done"}
      BY <2>5
    <3>2. result' \in Results \cup {None}
      BY <2>5 DEF Results
    <3> QED
      BY <1>1, <1>4, <1>5, <1>6, <2>1, <2>5, <3>1, <3>2 DEF TypeOK, Frame
  <2>7. Calls'
    <3>1. job' = job /\ wmu' = wmu
      BY <1>4, <2>1
    <3> QED
      BY <1>1, <1>2, <2>5, <3>1 DEF Calls, Alive
  <2>8. MessagesInOrder'
    <3>1. CASE fin
      <4>1. Len(delivered') <= Len(sent) /\ sent[Len(delivered')] = m
        BY <1>8, <2>2, <2>4, <3>1
      <4>2. \A i \in DOMAIN delivered' : delivered'[i] = sent[i]
        <5> SUFFICES ASSUME NEW i \in 1 .. Len(delivered) + 1
                     PROVE  delivered'[i] = sent[i]
          BY <2>4, <3>1
        <5>1. CASE i = Len(delivered) + 1
          BY <2>4, <3>1, <4>1, <5>1
        <5>2. CASE i # Len(delivered) + 1
          <6>1. i \in 1 .. Len(delivered) /\ i \in DOMAIN delivered
            BY <2>3, <5>2
          <6> QED
            BY <1>1, <2>4, <3>1, <6>1 DEF MessagesInOrder
        <5> QED
          BY <5>1, <5>2
      <4> QED
        BY <1>5, <4>1, <4>2 DEF MessagesInOrder
    <3>2. CASE ~fin
      <4>1. delivered' = delivered
        BY <2>1, <3>2
      <4> QED
        BY <1>1, <1>5, <4>1 DEF MessagesInOrder
    <3> QED
      BY <3>1, <3>2
  <2>9. FailuresHaveCauses'
    BY <2>5, Distinct DEF FailuresHaveCauses, Interrupted, Results
  <2>10. Synchronous'
    <3>1. t[2].partial = msg' /\ t[2].count = Len(delivered')
      BY <1>8, <2>1, <2>2, <2>4
    <3>2. pc' # "pong"
      BY <2>5
    <3> QED
      BY <1>1, <1>2, <1>3, <1>4, <2>2, <3>1, <3>2, ReadKeepsSync
  <2> QED
    BY <1>7, <2>6, <2>7, <2>8, <2>9, <2>10 DEF IInv
<1>11. ASSUME NEW w \in {"pong", "echo"}, NEW j \in Job, pc' = w, j.for = w,
              j.op = opPong <=> w = "pong", w = "echo" => "closing" \in provoked,
              job' = [job EXCEPT ![Handler] = j],
              UNCHANGED <<msg, result, delivered>>,
              t[2].partial = t[1].partial, t[2].count = t[1].count,
              IF w = "pong" THEN /\ t[2].pings = t[1].pings + 1
                                 /\ j.length = pinged[t[2].pings]
              ELSE t[2].pings = t[1].pings
       PROVE  IInv'
  <2>1. /\ job \in [Procs -> Job \cup {None}] /\ Handler \in Procs
        /\ wmu \in Procs \cup {None} /\ j # None
    BY <1>1, Distinct DEF TypeOK, Procs
  <2>2. /\ job' \in [Procs -> Job \cup {None}] /\ job'[Handler] = j
        /\ \A q \in Procs : q # Handler => job'[q] = job[q]
    BY <1>11, <2>1
  <2>3. TypeOK'
    <3>1. pc' \in {"new", "refused", "handler", "reading", "pong", "echo", "done"}
      BY <1>11
    <3> QED
      BY <1>1, <1>4, <1>5, <1>6, <1>11, <2>2, <3>1 DEF TypeOK, Frame
  <2>4. Calls'
    <3>1. ASSUME NEW q \in Procs, job'[q] # None
          PROVE  /\ job'[q].for \in {"pong", "echo"} => q = Handler /\ pc' = job'[q].for
                 /\ job'[q].op = opPong <=> job'[q].for = "pong"
      <4>1. CASE q = Handler
        BY <1>11, <2>2, <4>1
      <4>2. CASE q # Handler
        <5>1. job'[q] = job[q] /\ job[q] # None
          BY <2>2, <3>1, <4>2
        <5> QED
          BY <1>1, <4>2, <5>1 DEF Calls
      <4> QED
        BY <4>1, <4>2
    <3>2. wmu # None => job'[wmu] = job[wmu]
      BY <1>2, <2>1, <2>2
    <3>3. wmu' # None => job'[wmu'] # None /\ job'[wmu'].for # "conn"
      BY <1>1, <1>4, <3>2 DEF Calls
    <3>4. pc' \in {"pong", "echo"} /\ Alive' /\ job'[Handler] # None /\ job'[Handler].for = pc'
      BY <1>2, <1>11, <2>1, <2>2 DEF Alive
    <3>5. pc' = "echo" => "closing" \in provoked'
      BY <1>5, <1>11
    <3> QED
      BY <3>1, <3>3, <3>4, <3>5 DEF Calls
  <2>5. MessagesInOrder' /\ FailuresHaveCauses'
    BY <1>1, <1>4, <1>5, <1>11 DEF MessagesInOrder, FailuresHaveCauses, Interrupted
  <2>6. Synchronous'
    <3>1. t[2].partial = msg' /\ t[2].count = Len(delivered')
      BY <1>8, <1>11
    <3>2. IF pc' = "pong" THEN /\ t[2].pings = t[1].pings + 1
                               /\ job'[Handler].length = pinged[t[2].pings]
          ELSE t[2].pings = t[1].pings
      BY <1>11, <2>2
    <3> QED
      BY <1>1, <1>2, <1>3, <1>4, <3>1, <3>2, ReadKeepsSync
  <2> QED
    BY <1>7, <2>3, <2>4, <2>5, <2>6 DEF IInv
<1>12. ASSUME NEW n \in Length, ReadsPing(t, n) PROVE IInv'
  <2> DEFINE j == [op |-> opPong, length |-> n, for |-> "pong"]
  <2>1. j \in Job /\ j.for = "pong" /\ j.op = opPong /\ j.length = n
    BY Distinct DEF Job
  <2>2. /\ pc' = "pong" /\ job' = [job EXCEPT ![Handler] = j]
        /\ UNCHANGED <<msg, result, delivered>>
        /\ t[2].partial = t[1].partial /\ t[2].count = t[1].count
        /\ t[2].pings = t[1].pings + 1 /\ pinged[t[2].pings] = n
    BY <1>12 DEF ReadsPing
  <2> HIDE DEF j
  <2> QED
    BY <1>11, <2>1, <2>2
<1>13. ASSUME NEW n \in Length, ReadsClose(t, n) PROVE IInv'
  <2> DEFINE j == [op |-> opClose, length |-> n, for |-> "echo"]
  <2>1. j \in Job /\ j.for = "echo" /\ j.op # opPong
    BY Distinct DEF Job
  <2>2. /\ pc' = "echo" /\ job' = [job EXCEPT ![Handler] = j]
        /\ UNCHANGED <<msg, result, delivered>>
        /\ t[2] = t[1] /\ "closing" \in provoked
    BY <1>13 DEF ReadsClose
  <2> HIDE DEF j
  <2> QED
    BY <1>11, <2>1, <2>2
<1>14. CASE ReadsPong(t)
  <2>1. UNCHANGED <<pc, job, msg, result, delivered>> /\ t[2] = t[1]
    BY <1>14 DEF ReadsPong
  <2>2. TypeOK'
    BY <1>1, <1>4, <1>5, <1>6, <2>1 DEF TypeOK, Frame
  <2>3. Calls'
    BY <1>1, <1>4, <1>5, <2>1 DEF Calls, Alive
  <2>4. MessagesInOrder' /\ FailuresHaveCauses'
    BY <1>1, <1>4, <1>5, <2>1 DEF MessagesInOrder, FailuresHaveCauses, Interrupted
  <2>5. Synchronous'
    <3>1. t[2].partial = msg' /\ t[2].count = Len(delivered') /\ pc' # "pong"
      BY <1>2, <1>8, <2>1
    <3> QED
      BY <1>1, <1>2, <1>3, <1>4, <2>1, <3>1, ReadKeepsSync
  <2> QED
    BY <1>7, <2>2, <2>3, <2>4, <2>5 DEF IInv
<1> QED
  BY <1>4, <1>9, <1>10, <1>12, <1>13, <1>14

\* ReadMessage finds the connection broken.
LEMMA ReadFailsKeeps ==
  ASSUME IInv, ReadFails
  PROVE  IInv'
<1>1. /\ pc = "reading" /\ Fails("error") /\ ~connUp
      /\ UNCHANGED <<aborted, wmu, out, writes, connUp, inbox, client>>
  BY DEF ReadFails
<1>2. inbox' \in Seq(Frame)
  BY <1>1 DEF IInv, TypeOK, Frame
<1> QED
  BY <1>1, <1>2, FailsKeeps

-----------------------------------------------------------------------------
(* The theorems.                                                           *)

\* A step that changes nothing.
LEMMA StutterKeeps ==
  ASSUME IInv, UNCHANGED vars
  PROVE  IInv'
<1>1. /\ UNCHANGED <<pc, aborted, wmu, job, out, msg, result, delivered, writes>>
      /\ UNCHANGED <<connUp, inbox, frames, partial, sent, pinged, provoked>>
  BY DEF vars, server, client
<1>2. /\ TypeOK /\ Calls /\ Output /\ Synchronous /\ MessagesInOrder
      /\ PongsEchoPings /\ FailuresHaveCauses
  BY DEF IInv
<1>3. TypeOK'
  BY <1>1, <1>2 DEF TypeOK
<1>4. Calls'
  BY <1>1, <1>2 DEF Calls, Alive
<1>5. Output' /\ MessagesInOrder' /\ PongsEchoPings' /\ FailuresHaveCauses'
  BY <1>1, <1>2 DEF Output, MessagesInOrder, PongsEchoPings,
     FailuresHaveCauses, Interrupted
<1>6. Synchronous'
  BY <1>1, <1>2, QuietKeepsSync DEF Alive
<1> QED
  BY <1>3, <1>4, <1>5, <1>6 DEF IInv

\* Every step keeps the invariant.
LEMMA StepIInv ==
  ASSUME IInv, [Next]_vars
  PROVE  IInv'
<1>1. ASSUME Client PROVE IInv'
  <2>1. ASSUME NEW type \in DataTypes, NEW fin \in BOOLEAN, NEW masked \in Masks,
               NEW n \in ReadSizes, NEW bit \in {0, 1},
               SendData(type, fin, masked, n, bit)
        PROVE  IInv'
    BY <2>1, SendDataKeeps
  <2>2. ASSUME NEW op \in {opPing, opPong, opClose, opReserved},
               NEW masked \in Masks, NEW n \in ReadSizes, SendControl(op, masked, n)
        PROVE  IInv'
    BY <2>2, SendControlKeeps
  <2> QED
    BY <1>1, <2>1, <2>2, BreakKeeps, Zenon DEF Client
<1>2. ASSUME Reader PROVE IInv'
  <2>1. ASSUME NEW good, NEW hijacked, NEW answered,
               Upgrade(good, hijacked, answered)
        PROVE  IInv'
    BY <2>1, UpgradeKeeps
  <2> QED
    BY <1>2, <2>1, ReadMessageKeeps, ReadFrameKeeps, ReadFailsKeeps, Zenon DEF Reader
<1>3. ASSUME NEW p \in Procs, Writer(p) PROVE IInv'
  <2>1. ASSUME NEW type \in DataTypes, NEW n \in WriteSizes[p],
               WriteMessage(p, type, n)
        PROVE  IInv'
    BY <2>1, WriteMessageKeeps
  <2> QED
    BY <1>3, <2>1, CloseKeeps, WriteHeaderKeeps, WritePayloadKeeps, CloseConnKeeps,
       Zenon DEF Writer
<1> QED
  BY <1>1, <1>2, <1>3, StutterKeeps, Zenon DEF Next

\* The invariant holds in every state of a connection.
LEMMA Invariance == Spec => []IInv
<1>1. Init => IInv
  BY InitIInv
<1>2. IInv /\ [Next]_vars => IInv'
  BY StepIInv
<1> QED
  BY <1>1, <1>2, PTL DEF Spec

\* What the invariant says about out is what a client relies on.
LEMMA OutputIntact ==
  ASSUME TypeOK, Output
  PROVE  FramesIntact
<1> SUFFICES ASSUME NEW i \in DOMAIN out
             PROVE  LET h == readHeader(out[i].header)
                    IN  IF out[i].header = <<>> THEN i > 1 /\ out[i - 1].header # <<>>
                        ELSE /\ h.fin /\ ~h.masked /\ h.opcode = out[i].op
                             /\ IF h.length = 0
                                THEN i < Len(out) => out[i + 1].header # <<>>
                                ELSE IF i = Len(out) THEN wmu = out[i].by \/ ~connUp
                                ELSE /\ out[i + 1].header = <<>>
                                     /\ out[i + 1].by = out[i].by
                                     /\ out[i + 1].length = h.length
  BY DEF FramesIntact
<1> DEFINE c == out[i]
           h == readHeader(c.header)
<1>1. /\ out \in Seq(ChunkType) /\ Len(out) \in Nat /\ i \in 1 .. Len(out)
      /\ c \in ChunkType /\ c.op \in Opcodes /\ c.length \in Length
  <2>1. out \in Seq(ChunkType)
    BY DEF TypeOK, ChunkType
  <2>2. Len(out) \in Nat /\ i \in 1 .. Len(out) /\ c \in ChunkType
    BY <2>1
  <2> QED
    BY <2>1, <2>2 DEF ChunkType
<1>2. InPlace(out, i)
  BY DEF Output
<1>3. CASE c.header = <<>>
  BY <1>2, <1>3 DEF InPlace
<1>4. CASE c.header # <<>>
  <2>1. c.header = frameHeader(c.op, c.length)
    BY <1>2, <1>4 DEF InPlace
  <2>2. c.header = RfcHeader(TRUE, c.op, FALSE, c.length)
    BY <1>1, <2>1, HeaderWritten
  <2>3. ASSUME NEW fin \in BOOLEAN, NEW masked \in BOOLEAN
        PROVE  readHeader(RfcHeader(fin, c.op, masked, c.length)) =
                 [fin |-> fin, opcode |-> c.op, masked |-> masked, length |-> c.length]
    BY <1>1, HeaderRead
  <2>4. h = [fin |-> TRUE, opcode |-> c.op, masked |-> FALSE, length |-> c.length]
    BY <2>2, <2>3, Zenon
  <2>5. h.fin /\ ~h.masked /\ h.opcode = c.op /\ h.length = c.length
    BY <2>4
  <2> HIDE DEF h
  <2>6. c.length = 0 => (i < Len(out) => out[i + 1].header # <<>>)
    BY <1>2, <1>4 DEF InPlace
  <2>7. c.length # 0 /\ i # Len(out) =>
          /\ out[i + 1].header = <<>> /\ out[i + 1].by = c.by
          /\ out[i + 1].length = c.length
    BY <1>1, <1>2, <1>4 DEF InPlace
  <2>8. c.length # 0 /\ i = Len(out) => wmu = c.by \/ ~connUp
    <3>1. out # <<>>
      BY <1>1
    <3> QED
      BY <1>4, <3>1 DEF Output
  <2> QED
    BY <1>4, <2>5, <2>6, <2>7, <2>8 DEF h
<1> QED
  BY <1>3, <1>4

\* Every variable keeps its type, for any number of goroutines, frames and
\* writes: every header read or written is a sequence of bytes, and none of the
\* calls of ReadMessage, WriteMessage and Close ends in a state it does not know.
THEOREM TypeCorrect == Spec => []TypeOK
<1>1. IInv => TypeOK
  BY DEF IInv
<1> QED
  BY <1>1, Invariance, PTL

\* ReadMessage returns the messages that a conforming client sent, whole and in
\* their order, whatever their fragments, lengths and masks, and the control
\* frames between them (ReadMessage, readFrame).
THEOREM MessagesArriveInOrder == Spec => []MessagesInOrder
<1>1. IInv => MessagesInOrder
  BY DEF IInv
<1> QED
  BY <1>1, Invariance, PTL

\* The client receives whole frames with the headers of RFC 6455, however many
\* goroutines write, and a pong for its pings in their order, with the payload
\* of the ping (writeFrame, wmu, ReadMessage).
THEOREM OutputIsCorrect == Spec => []OutputCorrect
<1>1. IInv => OutputCorrect
  BY OutputIntact DEF IInv, OutputCorrect
<1> QED
  BY <1>1, Invariance, PTL

\* ReadMessage takes whatever a conforming client sends, as long as no control
\* frame has come between two fragments; it returns ErrClosed to a client that
\* closes only, and another error only when the connection is gone or a frame is
\* too long or has a reserved opcode (ReadMessage, readFrame).
THEOREM FailuresAreCaused == Spec => []FailuresHaveCauses
<1>1. IInv => FailuresHaveCauses
  BY DEF IInv
<1> QED
  BY <1>1, Invariance, PTL

\* readFrame finds in the header that writeFrame builds, and in any header of a
\* conforming client, what was put into it: for every length of a Go int, in its
\* short, its 16-bit and its 64-bit form.
THEOREM HeadersRoundTrip ==
  ASSUME NEW op \in Opcodes, NEW n \in Length
  PROVE  /\ readHeader(frameHeader(op, n)) =
              [fin |-> TRUE, opcode |-> op, masked |-> FALSE, length |-> n]
         /\ \A fin, masked \in BOOLEAN :
              readHeader(RfcHeader(fin, op, masked, n)) =
                [fin |-> fin, opcode |-> op, masked |-> masked, length |-> n]
<1>1. \A fin, masked \in BOOLEAN :
        readHeader(RfcHeader(fin, op, masked, n)) =
          [fin |-> fin, opcode |-> op, masked |-> masked, length |-> n]
  BY HeaderRead
<1>2. frameHeader(op, n) = RfcHeader(TRUE, op, FALSE, n)
  BY HeaderWritten
<1> QED
  BY <1>1, <1>2, Zenon
=============================================================================
