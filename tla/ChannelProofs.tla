--------------------------- MODULE ChannelProofs ---------------------------
(***************************************************************************)
(* Framing implements Channel: for any messages, header sizes and limits,  *)
(* and however the kernel cuts the stream, the receiver returns the        *)
(* messages that were sent, whole, once and in order, unless the handshake *)
(* was accepted without its last bytes.                                    *)
(*                                                                         *)
(* The stream between the two operations is contiguous: from any byte in   *)
(* it to the end of its message the bytes follow each other, then comes    *)
(* the first byte of the next message; the handshake counts as message 0.  *)
(* The byte the sender writes next, known from SendPositionIsExact,        *)
(* continues it, and its first byte is the one the receiver needs next: a  *)
(* handshake read whole ends where the first message begins.               *)
(***************************************************************************)
EXTENDS FramingProofs

(* The sizes of the handshake and the messages on the wire. *)
Totals == [m \in 0 .. Len(Messages) |-> IF m = 0 THEN HandshakeSize ELSE Total(m)]

(* The byte after the first k ones of message m, when T are the sizes. *)
After(T, m, k) == IF k = 0 \/ k < T[m] THEN <<m, k + 1>> ELSE <<m + 1, 1>>

(* The i-th byte of the stream s, which w continues. *)
Byte(s, w, i) == IF i <= Len(s) THEN s[i] ELSE w

Contiguous(T, s, w) ==
    \A i \in 1 .. Len(s), j \in 2 .. (Len(s) + 1) :
        i < j =>
            /\ j - i <= T[s[i][1]] - s[i][2] => Byte(s, w, j) = <<s[i][1], s[i][2] + (j - i)>>
            /\ j - i = T[s[i][1]] - s[i][2] + 1 => Byte(s, w, j) = <<s[i][1] + 1, 1>>

(* The next byte the sender writes. *)
Writer == After(Totals, begun, put)

(* The message the receiver reads, and how much of it is read. *)
Reading == IF hello = "done" THEN Len(delivered) + 1 ELSE 0
Offset == IF recv.step = "Payload" THEN H ELSE 0
ReadSoFar == Offset + Len(recv.buffer)

Wire == Nat \X Nat

(* What the stream holds, and that it is what the receiver is waiting for. *)
StreamInv ==
    /\ stream \in Seq(Wire) /\ \A i \in 1 .. Len(stream) : stream[i][1] \in 0 .. begun
    /\ Contiguous(Totals, stream, Writer)
    /\ Byte(stream, Writer, 1) = After(Totals, Reading, ReadSoFar)

(* What a RecvOperation has read is the beginning of its message. *)
BufferInv ==
    /\ \A i \in 1 .. Len(recv.buffer) : recv.buffer[i] = <<Reading, Offset + i>>
    /\ recv.step = "None" => recv.buffer = <<>>
    /\ recv.step = "Header" => recv.length = H /\ Len(recv.buffer) <= H
    /\ recv.step = "Payload" => recv.length = Size(Reading) /\ Len(recv.buffer) <= Size(Reading)
    /\ ReadSoFar > 0 => Reading <= begun

(* Before the end of the handshake nothing is received. *)
HandshakeInv ==
    /\ hello # "done" => delivered = <<>> /\ recv = NoRecv /\ skew = 0
    /\ hello = "tx" => stream = <<>> /\ put = 0

RecvType ==
    [step : {"None", "Header", "Payload", "Error"}, buffer : Seq(Wire), length : Nat,
     running : BOOLEAN]

(* No handshake, or a whole one, has been read. *)
Whole == hello \in {"rx", "done"} /\ skew = 0

RecvInv ==
    /\ SendInv /\ HandshakeInv
    /\ delivered \in Seq(Nat)
    /\ Whole => recv \in RecvType
    /\ Whole /\ recv.step # "Error" => StreamInv /\ BufferInv

-----------------------------------------------------------------------------
(* Arithmetic of positions: from byte p of a message of t bytes, of which  *)
(* the first k are in the stream up to L and n more follow.                *)
LEMMA PositionsInMessage ==
    ASSUME NEW L \in Nat, NEW n \in Nat, NEW k \in Nat, NEW t \in Nat, NEW p \in Nat,
           NEW i \in Nat, NEW j \in Nat, n > 0, k + n <= t, i < j,
           p + (L - i) = k
    PROVE  /\ p + (j - i) = k + (j - L)
           /\ j <= L + n => j - i <= t - p /\ ~(j - i = t - p + 1)
           /\ j = L + n + 1 => /\ p + (j - i) = k + n + 1
                               /\ j - i <= t - p => k + n < t
                               /\ j - i = t - p + 1 => ~(k + n < t)
  OBVIOUS

(* The stream c is s and the n bytes of message m after the first k. *)
Continues(T, s, c, m, k, n) ==
    /\ Len(s) \in Nat /\ k \in Nat /\ n \in Nat /\ n > 0 /\ Len(c) = Len(s) + n
    /\ T[m] \in Nat /\ k + n <= T[m]
    /\ \A i \in 1 .. Len(s) : c[i] = s[i]
    /\ \A i \in 1 .. Len(s) : s[i][2] \in Nat /\ T[s[i][1]] \in Nat
    /\ \A i \in (Len(s) + 1) .. (Len(s) + n) : c[i] = <<m, k + (i - Len(s))>>

(* A stream that is continued by the bytes that come next stays contiguous *)
LEMMA Continued ==
    ASSUME NEW T, NEW s, NEW c, NEW m, NEW k, NEW n,
           Continues(T, s, c, m, k, n), Contiguous(T, s, <<m, k + 1>>)
    PROVE  Contiguous(T, c, After(T, m, k + n))
<1> DEFINE L == Len(s)
           t == T[m]
<1>a. L \in Nat /\ k \in Nat /\ n \in Nat /\ n > 0 /\ Len(s) = L /\ Len(c) = L + n
  BY DEF Continues
<1>b. t \in Nat /\ T[m] = t /\ k + n <= t
  BY DEF Continues
<1>c. /\ \A i \in 1 .. L : c[i] = s[i]
      /\ \A i \in 1 .. L : s[i][2] \in Nat /\ T[s[i][1]] \in Nat
      /\ \A i \in (L + 1) .. (L + n) : c[i] = <<m, k + (i - L)>>
  BY DEF Continues
<1> HIDE DEF L, t
<1> USE <1>a, <1>b
<1> DEFINE w == After(T, m, k + n)
           v == <<m, k + 1>>
<1>1. w = IF k + n < t THEN <<m, k + n + 1>> ELSE <<m + 1, 1>>
  BY DEF After
<1> HIDE DEF w
<1>2. Byte(c, w, L + n + 1) = w /\ \A j \in 1 .. (L + n) : Byte(c, w, j) = c[j]
  BY DEF Byte
<1>3. Byte(s, v, L + 1) = v /\ \A j \in 1 .. L : Byte(s, v, j) = s[j]
  BY DEF Byte
<1>4. \A i \in 1 .. L, j \in 2 .. (L + 1) :
        i < j =>
            /\ j - i <= T[s[i][1]] - s[i][2] => Byte(s, v, j) = <<s[i][1], s[i][2] + (j - i)>>
            /\ j - i = T[s[i][1]] - s[i][2] + 1 => Byte(s, v, j) = <<s[i][1] + 1, 1>>
  BY DEF Contiguous
<1>5. c[L + 1] = v
  <2>1. L + 1 \in (L + 1) .. (L + n) /\ k + (L + 1 - L) = k + 1
    OBVIOUS
  <2> QED BY <1>c, <2>1 DEF v
<1> HIDE DEF v
<1>6. ASSUME NEW i \in 1 .. (L + n), NEW j \in 2 .. (L + n + 1), i < j
      PROVE  /\ j - i <= T[c[i][1]] - c[i][2] => Byte(c, w, j) = <<c[i][1], c[i][2] + (j - i)>>
             /\ j - i = T[c[i][1]] - c[i][2] + 1 => Byte(c, w, j) = <<c[i][1] + 1, 1>>
  <2>0. i \in Nat /\ j \in Nat
    OBVIOUS
  <2>1. CASE i <= L /\ j <= L + 1
    <3>1. i \in 1 .. L /\ j \in 2 .. (L + 1)
      BY <2>1
    <3>2. c[i] = s[i]
      BY <1>c, <3>1
    <3>3. Byte(c, w, j) = Byte(s, v, j)
      <4>1. CASE j <= L
        <5>1. j \in 1 .. L /\ j \in 1 .. (L + n)
          BY <4>1
        <5> QED BY <5>1, <1>2, <1>3, <1>c
      <4>2. CASE j = L + 1
        <5>1. L + 1 \in 1 .. (L + n)
          OBVIOUS
        <5> QED BY <4>2, <5>1, <1>2, <1>3, <1>5
      <4> QED BY <2>1, <4>1, <4>2
    <3>4. /\ j - i <= T[s[i][1]] - s[i][2] => Byte(s, v, j) = <<s[i][1], s[i][2] + (j - i)>>
          /\ j - i = T[s[i][1]] - s[i][2] + 1 => Byte(s, v, j) = <<s[i][1] + 1, 1>>
      BY <3>1, <1>4, <1>6
    <3> QED BY <3>2, <3>3, <3>4, Zenon
  <2>2. CASE i <= L /\ j > L + 1
    <3> DEFINE p == s[i][2]
               q == s[i][1]
    <3>1. i \in 1 .. L /\ L + 1 \in 2 .. (L + 1) /\ i < L + 1
      BY <2>2
    <3>2. c[i] = s[i] /\ p \in Nat /\ T[q] \in Nat
      BY <1>c, <3>1
    <3>3. L + 1 - i <= T[q] - p => v = <<q, p + (L + 1 - i)>>
      BY <3>1, <1>3, <1>4
    <3> HIDE DEF p, q
    <3>4. j - i <= T[q] - p + 1 => L + 1 - i <= T[q] - p
      <4> DEFINE u == T[q]
      <4>1. u \in Nat /\ p \in Nat
        BY <3>2
      <4> HIDE DEF u
      <4>2. j - i <= u - p + 1 => L + 1 - i <= u - p
        BY <4>1, <2>2, <2>0
      <4> QED BY <4>2 DEF u
    <3>5. SUFFICES ASSUME q = m, p + (L + 1 - i) = k + 1
                   PROVE  /\ j - i <= t - p => Byte(c, w, j) = <<m, p + (j - i)>>
                          /\ j - i = t - p + 1 => Byte(c, w, j) = <<m + 1, 1>>
      <4> DEFINE A == /\ j - i <= T[q] - p => Byte(c, w, j) = <<q, p + (j - i)>>
                      /\ j - i = T[q] - p + 1 => Byte(c, w, j) = <<q + 1, 1>>
      <4>1. CASE v = <<q, p + (L + 1 - i)>>
        <5>1. q = m /\ p + (L + 1 - i) = k + 1
          BY <4>1 DEF v
        <5>2. A
          BY <5>1, <3>5
        <5> QED BY <5>2, <3>2 DEF p, q
      <4>2. CASE v # <<q, p + (L + 1 - i)>>
        <5> DEFINE u == T[q]
        <5>1. ~(L + 1 - i <= u - p) /\ u \in Nat /\ ~(j - i <= u - p + 1)
          BY <4>2, <3>3, <3>4, <3>2
        <5> HIDE DEF u
        <5>2. ~(j - i <= u - p) /\ ~(j - i = u - p + 1)
          <6>1. p \in Int /\ u \in Int /\ i \in Int /\ j \in Int
            BY <5>1, <3>2, <2>0
          <6> QED BY <5>1, <6>1
        <5>3. A
          BY <5>2 DEF u
        <5> QED BY <5>3, <3>2 DEF p, q
      <4> QED BY <4>1, <4>2
    <3>6. p + (L - i) = k
      <4>1. p \in Nat /\ i \in Nat /\ L \in Nat /\ k \in Nat
        BY <3>2, <2>0
      <4>2. p + (L + 1 - i) = k + 1
        BY <3>5
      <4> QED BY <4>1, <4>2
    <3>7. CASE j <= L + n
      <4>1. j \in 1 .. (L + n) /\ j \in (L + 1) .. (L + n)
        BY <3>7, <2>2
      <4>2. Byte(c, w, j) = <<m, k + (j - L)>>
        BY <4>1, <1>2, <1>c
      <4> QED BY <4>2, <3>2, <3>6, <3>7, <2>0, <1>6, PositionsInMessage
    <3>8. CASE j = L + n + 1
      <4>1. Byte(c, w, j) = w
        BY <3>8, <1>2
      <4>2. /\ p + (j - i) = k + n + 1
            /\ j - i <= t - p => k + n < t
            /\ j - i = t - p + 1 => ~(k + n < t)
        BY <3>2, <3>6, <3>8, <2>0, <1>6, PositionsInMessage
      <4> QED BY <4>1, <4>2, <1>1
    <3> QED BY <3>7, <3>8
  <2>3. CASE i > L
    <3> DEFINE p == k + (i - L)
    <3>0. i \in (L + 1) .. (L + n)
      BY <2>3
    <3>1. p \in Nat /\ p + (L - i) = k
      BY <3>0
    <3>2. c[i] = <<m, p>>
      BY <1>c, <3>0
    <3>3. c[i][1] = m /\ c[i][2] = p
      BY <3>2
    <3> HIDE DEF p
    <3>4. CASE j <= L + n
      <4>1. j \in 1 .. (L + n) /\ j \in (L + 1) .. (L + n)
        BY <3>4, <2>3, <1>6
      <4>2. Byte(c, w, j) = <<m, k + (j - L)>>
        BY <4>1, <1>2, <1>c
      <4>3. p + (j - i) = k + (j - L) /\ ~(j - i = t - p + 1)
        BY <3>1, <3>4, <2>0, <1>6, PositionsInMessage
      <4> QED BY <4>2, <4>3, <3>3
    <3>5. CASE j = L + n + 1
      <4>1. Byte(c, w, j) = w
        BY <3>5, <1>2
      <4>2. /\ p + (j - i) = k + n + 1
            /\ j - i <= t - p => k + n < t
            /\ j - i = t - p + 1 => ~(k + n < t)
        BY <3>1, <3>5, <2>0, <1>6, PositionsInMessage
      <4> QED BY <4>1, <4>2, <3>3, <1>1
    <3> QED BY <3>4, <3>5
  <2> QED BY <2>1, <2>2, <2>3
<1> QED BY <1>6 DEF Contiguous, w

(* Writing at the end of a contiguous stream the n bytes that continue it  *)
(* leaves it contiguous.                                                   *)
LEMMA Appended ==
    ASSUME NEW N \in Nat, NEW T \in [0 .. N -> Nat],
           NEW s \in Seq(Wire), \A i \in 1 .. Len(s) : s[i][1] \in 0 .. N,
           NEW m \in 0 .. N, NEW k \in Nat, NEW n \in Nat, n > 0, k + n <= T[m],
           NEW b \in Seq(Wire), Len(b) = n, \A i \in 1 .. n : b[i] = <<m, k + i>>,
           Contiguous(T, s, <<m, k + 1>>)
    PROVE  Contiguous(T, s \o b, After(T, m, k + n))
<1> DEFINE c == s \o b
           L == Len(s)
<1>1. /\ L \in Nat /\ Len(c) = L + n
      /\ \A i \in 1 .. (L + n) : c[i] = IF i <= L THEN s[i] ELSE b[i - L]
  BY ConcatProperties, LenProperties
<1>2. \A i \in 1 .. L : s[i][2] \in Nat /\ T[s[i][1]] \in Nat
  <2> SUFFICES ASSUME NEW i \in 1 .. L PROVE s[i][2] \in Nat /\ T[s[i][1]] \in Nat
    OBVIOUS
  <2>1. s[i] \in Wire
    BY ElementOfSeq
  <2> QED BY <2>1 DEF Wire
<1> HIDE DEF c, L
<1>3. ASSUME NEW i \in 1 .. L PROVE c[i] = s[i]
  <2>1. i \in 1 .. (L + n) /\ i <= L
    BY <1>1
  <2> QED BY <1>1, <2>1
<1>4. ASSUME NEW i \in (L + 1) .. (L + n) PROVE c[i] = <<m, k + (i - L)>>
  <2>0. L \in Nat
    BY <1>1
  <2>1. i - L \in 1 .. n /\ i \in 1 .. (L + n) /\ ~(i <= L)
    BY <2>0
  <2> QED BY <2>1, <1>1
<1>5. Continues(T, s, c, m, k, n)
  BY <1>1, <1>2, <1>3, <1>4 DEF Continues, L
<1>6. Contiguous(T, c, After(T, m, k + n))
  BY <1>5, Continued
<1> QED BY <1>6 DEF c

(* Reading n bytes of the front, no more than are left of message m, gives *)
(* the next n bytes of that message, and leaves the rest contiguous.       *)
LEMMA Taken ==
    ASSUME NEW T, NEW w, NEW s \in Seq(Wire),
           NEW m \in Nat, NEW k \in Nat, NEW n \in 0 .. Len(s),
           n > 0 => T[m] \in Nat /\ k + n <= T[m],
           Contiguous(T, s, w), Byte(s, w, 1) = After(T, m, k)
    PROVE  /\ \A i \in 1 .. n : s[i] = <<m, k + i>>
           /\ Byte(s, w, n + 1) = After(T, m, k + n)
<1>1. CASE n = 0
  BY <1>1
<1>2. CASE n > 0
  <2> DEFINE t == T[m]
  <2>1. Len(s) \in Nat /\ n \in Nat /\ n <= Len(s) /\ t \in Nat /\ k + n <= t
    BY <1>2, LenProperties
  <2>2. \A e \in Nat : After(T, m, e) = IF e = 0 \/ e < t THEN <<m, e + 1>> ELSE <<m + 1, 1>>
    BY DEF After
  <2>3. \A i \in 1 .. Len(s), j \in 2 .. (Len(s) + 1) :
          i < j =>
            /\ j - i <= T[s[i][1]] - s[i][2] => Byte(s, w, j) = <<s[i][1], s[i][2] + (j - i)>>
            /\ j - i = T[s[i][1]] - s[i][2] + 1 => Byte(s, w, j) = <<s[i][1] + 1, 1>>
    BY DEF Contiguous
  <2>4. s[1] = <<m, k + 1>>
    <3>1. Byte(s, w, 1) = s[1]
      BY <1>2, <2>1 DEF Byte
    <3>2. k < t
      BY <1>2, <2>1
    <3> HIDE DEF t
    <3> QED BY <3>1, <3>2, <2>2
  <2>5. s[1][1] = m /\ s[1][2] = k + 1 /\ T[s[1][1]] = t
    BY <2>4
  <2>6. 1 \in 1 .. Len(s) /\ \A j \in 2 .. (Len(s) + 1) : 1 < j
    BY <1>2, <2>1
  <2> HIDE DEF t
  <2>7. ASSUME NEW j \in 2 .. (Len(s) + 1)
        PROVE  /\ j - 1 <= t - (k + 1) => Byte(s, w, j) = <<m, k + 1 + (j - 1)>>
               /\ j - 1 = t - (k + 1) + 1 => Byte(s, w, j) = <<m + 1, 1>>
    BY <2>3, <2>5, <2>6
  <2>8. ASSUME NEW i \in 2 .. n PROVE s[i] = <<m, k + i>>
    <3>1. i \in 2 .. (Len(s) + 1) /\ i - 1 <= t - (k + 1) /\ k + 1 + (i - 1) = k + i
      BY <1>2, <2>1
    <3>2. Byte(s, w, i) = s[i]
      BY <2>1 DEF Byte
    <3> QED BY <3>1, <3>2, <2>7
  <2>9. Byte(s, w, n + 1) = After(T, m, k + n)
    <3>1. n + 1 \in 2 .. (Len(s) + 1) /\ k + n \in Nat /\ k + n # 0
      BY <1>2, <2>1
    <3>2. CASE k + n < t
      <4>1. n + 1 - 1 <= t - (k + 1) /\ k + 1 + (n + 1 - 1) = k + n + 1
        BY <3>2, <2>1
      <4>2. Byte(s, w, n + 1) = <<m, k + n + 1>>
        BY <4>1, <3>1, <2>7
      <4> QED BY <4>2, <3>1, <3>2, <2>2
    <3>3. CASE ~(k + n < t)
      <4>1. n + 1 - 1 = t - (k + 1) + 1
        BY <3>3, <2>1
      <4>2. Byte(s, w, n + 1) = <<m + 1, 1>>
        BY <4>1, <3>1, <2>7
      <4> QED BY <4>2, <3>1, <3>3, <2>2
    <3> QED BY <3>2, <3>3
  <2>10. \A i \in 1 .. n : i = 1 \/ i \in 2 .. n
    BY <2>1
  <2> QED BY <2>4, <2>8, <2>9, <2>10
<1> QED BY <1>1, <1>2, LenProperties

(* What is left of a contiguous stream after n bytes are read. *)
LEMMA Dropped ==
    ASSUME NEW T, NEW w, NEW s \in Seq(Wire), NEW n \in 0 .. Len(s), Contiguous(T, s, w)
    PROVE  LET r == SubSeq(s, n + 1, Len(s))
           IN  /\ r \in Seq(Wire) /\ Len(r) = Len(s) - n
               /\ \A i \in 1 .. Len(r) : r[i] = s[n + i]
               /\ Byte(r, w, 1) = Byte(s, w, n + 1)
               /\ Contiguous(T, r, w)
<1> DEFINE r == SubSeq(s, n + 1, Len(s))
<1>1. Len(s) \in Nat /\ n \in Nat /\ n <= Len(s)
  BY LenProperties
<1>2. \A i \in (n + 1) .. Len(s) : s[i] \in Wire
  BY <1>1, ElementOfSeq
<1>3. /\ r \in Seq(Wire) /\ Len(r) = Len(s) - n
      /\ \A i \in 1 .. Len(r) : r[i] = s[n + i]
  <2>1. /\ r \in Seq(Wire)
        /\ Len(r) = IF n + 1 <= Len(s) THEN Len(s) - (n + 1) + 1 ELSE 0
        /\ \A i \in 1 .. (Len(s) - (n + 1) + 1) : r[i] = s[(n + 1) + i - 1]
    BY <1>1, <1>2, SubSeqProperties
  <2>2. Len(r) = Len(s) - n
    BY <1>1, <2>1
  <2>3. ASSUME NEW i \in 1 .. Len(r) PROVE r[i] = s[n + i]
    <3>1. i \in 1 .. (Len(s) - (n + 1) + 1) /\ (n + 1) + i - 1 = n + i
      BY <1>1, <2>2
    <3> QED BY <3>1, <2>1
  <2> QED BY <2>1, <2>2, <2>3
<1> HIDE DEF r
<1>4. \A j \in 1 .. (Len(r) + 1) : Byte(r, w, j) = Byte(s, w, n + j)
  BY <1>1, <1>3 DEF Byte
<1>5. ASSUME NEW i \in 1 .. Len(r), NEW j \in 2 .. (Len(r) + 1), i < j
      PROVE  /\ j - i <= T[r[i][1]] - r[i][2] => Byte(r, w, j) = <<r[i][1], r[i][2] + (j - i)>>
             /\ j - i = T[r[i][1]] - r[i][2] + 1 => Byte(r, w, j) = <<r[i][1] + 1, 1>>
  <2>1. /\ n + i \in 1 .. Len(s) /\ n + j \in 2 .. (Len(s) + 1) /\ n + i < n + j
        /\ (n + j) - (n + i) = j - i /\ j \in 1 .. (Len(r) + 1)
    BY <1>1, <1>3, <1>5
  <2>2. r[i] = s[n + i] /\ Byte(r, w, j) = Byte(s, w, n + j)
    BY <2>1, <1>3, <1>4
  <2> QED BY <2>1, <2>2 DEF Contiguous
<1>6. Contiguous(T, r, w)
  BY <1>5 DEF Contiguous
<1>7. Byte(r, w, 1) = Byte(s, w, n + 1)
  BY <1>1, <1>3, <1>4
<1> QED BY <1>3, <1>6, <1>7 DEF r
-----------------------------------------------------------------------------
(* The bytes of a message, or of a part of it, are a sequence.             *)
LEMMA BytesFacts ==
    ASSUME NEW m \in Nat, NEW k \in Nat, NEW n \in Nat
    PROVE  /\ Bytes(m, k + 1, k + n) \in Seq(Wire)
           /\ Len(Bytes(m, k + 1, k + n)) = n
           /\ \A i \in 1 .. n : Bytes(m, k + 1, k + n)[i] = <<m, k + i>>
<1> DEFINE b == Bytes(m, k + 1, k + n)
<1>1. k + n - (k + 1) + 1 = n /\ \A i \in 1 .. n : k + 1 + i - 1 = k + i
  OBVIOUS
<1>2. b = [i \in 1 .. n |-> <<m, k + i>>]
  BY <1>1 DEF Bytes
<1> HIDE DEF b
<1>3. b \in [1 .. n -> Wire]
  BY <1>2 DEF Wire
<1>4. b \in Seq(Wire)
  BY <1>3, SeqDef
<1>5. Len(b) = n
  BY <1>3, <1>4
<1> QED BY <1>2, <1>4, <1>5 DEF b

(* The same for the first bytes of a message. *)
LEMMA FirstBytes ==
    ASSUME NEW m \in Nat, NEW n \in Nat
    PROVE  /\ Bytes(m, 1, n) \in Seq(Wire) /\ Len(Bytes(m, 1, n)) = n
           /\ \A i \in 1 .. n : Bytes(m, 1, n)[i] = <<m, i>>
<1> DEFINE b == Bytes(m, 1, n)
<1>1. n - 1 + 1 = n /\ \A i \in 1 .. n : 1 + i - 1 = i
  OBVIOUS
<1>2. b = [i \in 1 .. n |-> <<m, i>>]
  BY <1>1 DEF Bytes
<1> HIDE DEF b
<1>3. b \in [1 .. n -> Wire]
  BY <1>2 DEF Wire
<1>4. b \in Seq(Wire)
  BY <1>3, SeqDef
<1>5. Len(b) = n
  BY <1>3, <1>4
<1> QED BY <1>2, <1>4, <1>5 DEF b

(* The sizes are natural numbers, and no message is shorter than a header. *)
LEMMA TotalsFacts ==
    ASSUME transport \in Transports
    PROVE  /\ Len(Messages) \in Nat /\ DOMAIN Messages = 1 .. Len(Messages)
           /\ H \in Nat \ {0}
           /\ Totals \in [0 .. Len(Messages) -> Nat] /\ Totals[0] = HandshakeSize
           /\ \A m \in 1 .. Len(Messages) :
                 Size(m) \in Nat /\ Totals[m] = H + Size(m) /\ Totals[m] = Total(m)
<1>1. Len(Messages) \in Nat /\ DOMAIN Messages = 1 .. Len(Messages)
  BY MessagesAssumption, LenProperties
<1>2. H \in Nat \ {0}
  BY HeaderSizeIsPositive
<1>3. \A m \in 1 .. Len(Messages) : Size(m) \in Nat
  BY LengthsAreNat DEF Size
<1>4. \A m \in 1 .. Len(Messages) : Totals[m] = Total(m) /\ Total(m) = H + Size(m)
  BY <1>1 DEF Totals, Total
<1>5. Totals[0] = HandshakeSize
  BY <1>1 DEF Totals
<1>6. Totals \in [0 .. Len(Messages) -> Nat]
  BY <1>1, <1>2, <1>3 DEF Totals, Total, HandshakeSize
<1> QED BY <1>1, <1>2, <1>3, <1>4, <1>5, <1>6

(* What one write does to the stream. *)
LEMMA WriteIsBounded ==
    ASSUME SendInv, AdvanceSend
    PROVE  /\ begun \in 1 .. Len(Messages) /\ put \in Nat
           /\ UNCHANGED <<transport, hello, skew, begun, recv, delivered>>
           /\ \E n \in Nat : /\ put + n <= Total(begun) /\ put' = put + n
                             /\ stream' = stream \o Bytes(begun, put + 1, put + n)
<1> DEFINE m     == begun
           from  == Start(m, send.step) + send.written
           limit == IF transport = "tcp" THEN Total(m) ELSE End(m, send.step)
<1>1. /\ transport \in Transports /\ m \in 1 .. Len(Messages)
      /\ send.step \in {"TransportHdr", "ProtocolHdr", "UsrPayload"}
      /\ send.written \in Nat /\ put = from /\ put \in Nat
  BY MessagesAssumption DEF SendInv, TypeOK, SendPositionIsExact, AdvanceSend, SendType
<1>2. Messages[m].header \in Nat /\ Messages[m].body \in Nat /\ H \in Nat
  BY <1>1, LengthsAreNat, HeaderSizeIsPositive
<1>3. limit \in Nat /\ Total(m) \in Nat /\ limit <= Total(m)
  <2>1. /\ Total(m) = H + Messages[m].header + Messages[m].body
        /\ \/ End(m, send.step) = H
           \/ End(m, send.step) = H + Messages[m].header
           \/ End(m, send.step) = H + Messages[m].header + Messages[m].body
    BY <1>1, <1>2, Positions
  <2> QED
    BY <1>2, <2>1
<1>4. PICK n \in 0 .. (limit - from) :
          put' = put + n /\ stream' = stream \o Bytes(m, from + 1, from + n)
  BY DEF AdvanceSend
<1>5. UNCHANGED <<transport, hello, skew, begun, recv, delivered>>
  BY DEF AdvanceSend
<1> HIDE DEF from, limit
<1>6. n \in Nat /\ put + n <= Total(m)
  BY <1>1, <1>3, <1>4
<1> QED BY <1>1, <1>4, <1>5, <1>6
-----------------------------------------------------------------------------
(* The transport of a connection does not change, nor do the sizes. *)
LEMMA SizesStay ==
    ASSUME UNCHANGED transport
    PROVE  H' = H /\ Totals' = Totals
  BY DEF H, Totals, Total, Size

(* The initial states satisfy the invariant. *)
LEMMA InitRecv == Init => RecvInv
  BY InitSend DEF Init, RecvInv, HandshakeInv, Whole

(* The handshake is the first thing in the stream. *)
LEMMA SendHandshakeKeeps ==
    ASSUME RecvInv, SendHandshake
    PROVE  RecvInv'
<1>1. SendInv'
  BY NextSend DEF RecvInv, Next
<1>2. /\ hello = "tx" /\ begun = 0 /\ delivered = <<>> /\ recv = NoRecv /\ skew = 0
      /\ stream = <<>> /\ UNCHANGED <<transport, skew, begun, delivered, recv>>
  BY DEF RecvInv, SendInv, HandshakeInv, SendHandshake
<1>3. PICK n \in Nat : /\ stream' = stream \o Bytes(0, 1, n) /\ put' = n
                       /\ hello' = IF n = HandshakeSize THEN "rx" ELSE "failed"
  BY DEF SendHandshake
<1>4. /\ Bytes(0, 1, n) \in Seq(Wire) /\ Len(Bytes(0, 1, n)) = n
      /\ \A i \in 1 .. n : Bytes(0, 1, n)[i] = <<0, i>>
  BY FirstBytes
<1>5. /\ stream' \in Seq(Wire) /\ Len(stream') = n
      /\ \A i \in 1 .. n : stream'[i] = <<0, i>> /\ stream'[i][1] = 0 /\ stream'[i][2] = i
  BY <1>2, <1>3, <1>4
<1>6. recv' \in RecvType /\ recv'.step = "None" /\ recv'.buffer = <<>> /\ Len(recv'.buffer) = 0
  BY <1>2 DEF RecvType, NoRecv
<1>7. HandshakeInv' /\ delivered' \in Seq(Nat)
  BY <1>2, <1>3 DEF HandshakeInv
<1>8. ASSUME n = HandshakeSize PROVE StreamInv' /\ BufferInv'
  <2> DEFINE T == Totals
             w == <<1, 1>>
             s == Bytes(0, 1, n)
  <2>1. T' = T /\ T[0] = 8 /\ n = 8
    BY <1>1, <1>2, <1>8, SizesStay, TotalsFacts DEF HandshakeSize, SendInv, TypeOK
  <2>2. Writer' = w
    BY <1>2, <1>3, <2>1 DEF Writer, After
  <2>3. Reading' = 0 /\ ReadSoFar' = 0 /\ Offset' = 0
    BY <1>3, <1>6, <1>8 DEF Reading, ReadSoFar, Offset
  <2>4. s \in Seq(Wire) /\ Len(s) = 8 /\ stream' = s
    BY <1>2, <1>3, <1>4, <2>1
  <2>5. \A i \in 1 .. 8 : s[i] = <<0, i>> /\ s[i][1] = 0 /\ s[i][2] = i
    BY <1>4, <2>1
  <2> HIDE DEF T, s
  <2>6. Contiguous(T, s, w)
    <3>1. ASSUME NEW i \in 1 .. 8, NEW j \in 2 .. 9, i < j
          PROVE  /\ j - i <= 8 - i => Byte(s, w, j) = <<0, i + (j - i)>>
                 /\ j - i = 8 - i + 1 => Byte(s, w, j) = <<0 + 1, 1>>
      <4>1. CASE j <= 8
        <5>1. Byte(s, w, j) = <<0, j>> /\ i + (j - i) = j /\ ~(j - i = 8 - i + 1)
          BY <2>4, <2>5, <4>1 DEF Byte
        <5> QED BY <5>1
      <4>2. CASE j = 9
        <5>1. Byte(s, w, j) = w /\ ~(j - i <= 8 - i)
          BY <2>4, <4>2 DEF Byte
        <5> QED BY <5>1
      <4> QED BY <4>1, <4>2
    <3>2. ASSUME NEW i \in 1 .. Len(s), NEW j \in 2 .. (Len(s) + 1), i < j
          PROVE  /\ j - i <= T[s[i][1]] - s[i][2] =>
                        Byte(s, w, j) = <<s[i][1], s[i][2] + (j - i)>>
                 /\ j - i = T[s[i][1]] - s[i][2] + 1 => Byte(s, w, j) = <<s[i][1] + 1, 1>>
      <4>1. i \in 1 .. 8 /\ j \in 2 .. 9
        BY <2>4
      <4>2. s[i][1] = 0 /\ s[i][2] = i /\ T[s[i][1]] = 8
        BY <2>1, <2>5, <4>1
      <4> QED BY <3>1, <3>2, <4>1, <4>2
    <3> QED BY <3>2 DEF Contiguous
  <2>7. Byte(s, w, 1) = <<0, 1>> /\ After(T, 0, 0) = <<0, 1>>
    BY <2>4, <2>5 DEF Byte, After
  <2>8. \A i \in 1 .. Len(s) : s[i][1] \in 0 .. 0
    BY <2>4, <2>5
  <2>9. StreamInv'
    BY <1>2, <2>1, <2>2, <2>3, <2>4, <2>6, <2>7, <2>8 DEF StreamInv, T
  <2>10. BufferInv'
    BY <1>6, <2>3 DEF BufferInv
  <2> QED BY <2>9, <2>10
<1>9. Whole' => n = HandshakeSize
  BY <1>3 DEF Whole
<1> QED
  BY <1>1, <1>6, <1>7, <1>8, <1>9 DEF RecvInv

(* A handshake that is read whole ends where the first message begins.     *)
LEMMA RecvHandshakeKeeps ==
    ASSUME RecvInv, RecvHandshake
    PROVE  RecvInv'
<1>1. SendInv'
  BY NextSend DEF RecvInv, Next
<1>2. /\ hello = "rx" /\ delivered = <<>> /\ recv = NoRecv /\ skew = 0
      /\ UNCHANGED <<transport, begun, put, delivered, recv>>
  BY DEF RecvInv, HandshakeInv, RecvHandshake
<1>3. /\ recv' \in RecvType /\ recv'.step = "None" /\ recv'.buffer = <<>> /\ Len(recv'.buffer) = 0
      /\ recv.step = "None" /\ Len(recv.buffer) = 0 /\ Len(delivered') = 0
  BY <1>2 DEF RecvType, NoRecv
<1>4. StreamInv
  BY <1>2, <1>3 DEF RecvInv, Whole
<1>5. PICK n \in 0 .. Least(HandshakeSize, Len(stream)) :
          /\ stream' = SubSeq(stream, n + 1, Len(stream))
          /\ hello' = IF check_handshake(n) THEN "done" ELSE "failed"
          /\ skew' = IF check_handshake(n) THEN HandshakeSize - n ELSE 0
  BY DEF RecvHandshake
<1>6. HandshakeInv' /\ delivered' \in Seq(Nat)
  BY <1>2, <1>5 DEF HandshakeInv
<1>7. Len(stream) \in Nat /\ stream \in Seq(Wire)
  BY <1>4, LenProperties DEF StreamInv
<1>8. n \in 0 .. Len(stream) /\ n \in 0 .. 8
  BY <1>5, <1>7 DEF Least, HandshakeSize
<1>9. ASSUME Whole' PROVE n = 8 /\ hello' = "done"
  BY <1>5, <1>8, <1>9 DEF Whole, HandshakeSize
<1>10. ASSUME n = 8, hello' = "done" PROVE StreamInv' /\ BufferInv'
  <2> DEFINE T == Totals
             w == Writer
             s == stream
             r == SubSeq(s, n + 1, Len(s))
  <2>1. T' = T /\ T[0] = 8 /\ w' = w
    BY <1>1, <1>2, SizesStay, TotalsFacts DEF HandshakeSize, SendInv, TypeOK, Writer
  <2>2. Reading = 0 /\ ReadSoFar = 0 /\ Reading' = 1 /\ ReadSoFar' = 0 /\ Offset' = 0
    BY <1>2, <1>3, <1>10 DEF Reading, ReadSoFar, Offset
  <2>3. /\ s \in Seq(Wire) /\ \A i \in 1 .. Len(s) : s[i][1] \in 0 .. begun
        /\ Contiguous(T, s, w) /\ Byte(s, w, 1) = After(T, 0, 0)
    BY <1>4, <2>2 DEF StreamInv
  <2> HIDE DEF T, w, s
  <2>4. n \in 0 .. Len(s) /\ Len(s) \in Nat /\ stream' = r
    BY <1>5, <1>7, <1>8 DEF s
  <2>5. Byte(s, w, n + 1) = After(T, 0, n)
    <3>1. n > 0 => T[0] \in Nat /\ 0 + n <= T[0]
      BY <1>10, <2>1
    <3>2. Byte(s, w, n + 1) = After(T, 0, 0 + n)
      BY <2>3, <2>4, <3>1, Taken
    <3> QED BY <1>8, <3>2
  <2>6. After(T, 0, n) = <<1, 1>> /\ After(T, 1, 0) = <<1, 1>>
    BY <1>10, <2>1 DEF After
  <2>7. /\ r \in Seq(Wire) /\ Len(r) = Len(s) - n
        /\ \A i \in 1 .. Len(r) : r[i] = s[n + i]
        /\ Byte(r, w, 1) = Byte(s, w, n + 1) /\ Contiguous(T, r, w)
    BY <2>3, <2>4, Dropped
  <2> HIDE DEF r
  <2>8. ASSUME NEW i \in 1 .. Len(r) PROVE r[i][1] \in 0 .. begun
    <3>1. n + i \in 1 .. Len(s)
      BY <2>4, <2>7
    <3> QED BY <2>3, <2>7, <3>1
  <2>9. StreamInv'
    BY <1>2, <2>1, <2>2, <2>4, <2>5, <2>6, <2>7, <2>8 DEF StreamInv, T, w
  <2>10. BufferInv'
    BY <1>3, <2>2 DEF BufferInv
  <2> QED BY <2>9, <2>10
<1> QED
  BY <1>1, <1>3, <1>6, <1>9, <1>10 DEF RecvInv

(* A message begins where the previous one ended. *)
LEMMA StartSendKeeps ==
    ASSUME RecvInv, StartSend
    PROVE  RecvInv'
<1>1. SendInv'
  BY NextSend DEF RecvInv, Next
<1>2. /\ hello \in {"rx", "done"} /\ begun < Len(Messages) /\ begun' = begun + 1 /\ put' = 0
      /\ UNCHANGED <<transport, hello, skew, stream, recv, delivered>>
  BY DEF StartSend
<1>3. /\ transport \in Transports /\ begun \in Nat /\ begun \in 0 .. Len(Messages)
      /\ begun > 0 => put = Total(begun)
      /\ begun = 0 => put = HandshakeSize
  BY MessagesAssumption DEF RecvInv, SendInv, TypeOK, SendPositionIsExact, StartSend
<1>4. Totals' = Totals /\ H' = H
  BY <1>2, SizesStay
<1>5. Writer' = <<begun + 1, 1>>
  BY <1>2, <1>3 DEF Writer, After
<1>6. Writer = <<begun + 1, 1>>
  <2> DEFINE t == Totals[begun]
  <2>1. t \in Nat \ {0} /\ put = t
    BY <1>3, TotalsFacts DEF HandshakeSize
  <2>2. Writer = IF put = 0 \/ put < t THEN <<begun, put + 1>> ELSE <<begun + 1, 1>>
    BY DEF Writer, After
  <2> HIDE DEF t
  <2> QED
    BY <2>1, <2>2
<1>7. StreamInv => StreamInv'
  <2> SUFFICES ASSUME StreamInv PROVE StreamInv'
    OBVIOUS
  <2>1. Reading' = Reading /\ ReadSoFar' = ReadSoFar
    BY <1>2, <1>4 DEF Reading, ReadSoFar, Offset
  <2> QED
    BY <1>2, <1>3, <1>4, <1>5, <1>6, <2>1 DEF StreamInv
<1>8. BufferInv => BufferInv'
  <2> SUFFICES ASSUME BufferInv PROVE BufferInv'
    OBVIOUS
  <2>1. Reading' = Reading /\ ReadSoFar' = ReadSoFar /\ Offset' = Offset /\ Reading \in Nat
    BY <1>2, <1>4 DEF Reading, ReadSoFar, Offset, RecvInv
  <2>2. Size(Reading)' = Size(Reading)
    BY <2>1 DEF Size
  <2> QED
    BY <1>2, <1>3, <1>4, <2>1, <2>2 DEF BufferInv
<1> QED
  BY <1>1, <1>2, <1>7, <1>8 DEF RecvInv, HandshakeInv, Whole

(* An operation that is resumed continues with what it had. *)
LEMMA ResumeKeeps ==
    ASSUME RecvInv, ResumeSend \/ ResumeRecv \/ UNCHANGED vars
    PROVE  RecvInv'
<1>1. SendInv'
  BY NextSend DEF RecvInv, Next
<1>2. /\ UNCHANGED <<transport, hello, skew, stream, begun, put, delivered>>
      /\ recv.step = "None" => recv' = recv
      /\ recv \in RecvType => recv' \in RecvType
      /\ recv \in RecvType =>
            recv'.step = recv.step /\ recv'.buffer = recv.buffer /\ recv'.length = recv.length
  BY DEF ResumeSend, ResumeRecv, vars, RecvType
<1>3. Totals' = Totals /\ H' = H
  BY <1>2, SizesStay
<1>4. /\ Reading' = Reading /\ Writer' = Writer
      /\ recv \in RecvType => ReadSoFar' = ReadSoFar /\ Offset' = Offset
  BY <1>2, <1>3 DEF Reading, ReadSoFar, Offset, Writer
<1>5. recv \in RecvType /\ StreamInv => StreamInv'
  BY <1>2, <1>3, <1>4 DEF StreamInv
<1>6. recv \in RecvType /\ BufferInv => BufferInv'
  <2>1. Size(Reading)' = Size(Reading)
    BY <1>4 DEF Size
  <2> QED
    BY <1>2, <1>3, <1>4, <2>1 DEF BufferInv
<1>7. HandshakeInv'
  BY <1>2 DEF RecvInv, HandshakeInv, NoRecv
<1>8. Whole' => Whole
  BY <1>2 DEF Whole
<1> QED
  BY <1>1, <1>2, <1>5, <1>6, <1>7, <1>8 DEF RecvInv

(* A RecvOperation starts with an empty buffer, at the next message. *)
LEMMA StartRecvKeeps ==
    ASSUME RecvInv, StartRecv
    PROVE  RecvInv'
<1>1. SendInv'
  BY NextSend DEF RecvInv, Next
<1>2. /\ hello = "done" /\ recv.step = "None"
      /\ recv' = [step |-> "Header", buffer |-> <<>>, length |-> H, running |-> TRUE]
      /\ UNCHANGED <<transport, hello, skew, stream, begun, put, delivered>>
  BY DEF StartRecv
<1>3. Totals' = Totals /\ H' = H
  BY <1>2, SizesStay
<1>4. H \in Nat
  BY HeaderSizeIsPositive DEF RecvInv, SendInv, TypeOK
<1>5. Reading' = Reading /\ Writer' = Writer /\ Offset' = 0 /\ Offset = 0
  BY <1>2, <1>3 DEF Reading, Writer, Offset
<1>6. recv' \in RecvType
  BY <1>2, <1>4 DEF RecvType
<1>7. ASSUME StreamInv, BufferInv PROVE StreamInv' /\ BufferInv'
  <2>1. recv.buffer = <<>> /\ recv'.buffer = <<>>
    BY <1>2, <1>7 DEF BufferInv
  <2>2. ReadSoFar' = 0 /\ ReadSoFar = 0
    BY <1>5, <2>1 DEF ReadSoFar
  <2>3. StreamInv'
    BY <1>2, <1>3, <1>5, <1>7, <2>2 DEF StreamInv
  <2>4. BufferInv'
    BY <1>2, <1>3, <1>4, <2>1, <2>2 DEF BufferInv
  <2> QED BY <2>3, <2>4
<1> QED
  BY <1>1, <1>2, <1>6, <1>7 DEF RecvInv, HandshakeInv, Whole

(* A write continues the stream where the previous one was cut. *)
LEMMA AdvanceSendKeeps ==
    ASSUME RecvInv, AdvanceSend
    PROVE  RecvInv'
<1>1. SendInv /\ SendInv'
  BY WritePreserves DEF RecvInv
<1>2. /\ begun \in 1 .. Len(Messages) /\ put \in Nat
      /\ UNCHANGED <<transport, hello, skew, begun, recv, delivered>>
  BY <1>1, WriteIsBounded
<1>3. PICK n \in Nat : /\ put + n <= Total(begun) /\ put' = put + n
                       /\ stream' = stream \o Bytes(begun, put + 1, put + n)
  BY <1>1, WriteIsBounded
<1>4. /\ Len(Messages) \in Nat /\ transport \in Transports
      /\ Totals \in [0 .. Len(Messages) -> Nat] /\ Totals[begun] = Total(begun)
  BY <1>1, <1>2, TotalsFacts DEF SendInv, TypeOK
<1>5. begun \in Nat /\ begun # 0 /\ begun <= Len(Messages)
  BY <1>2, <1>4
<1>6. Totals' = Totals /\ H' = H
  BY <1>2, SizesStay
<1>7. hello # "tx"
  BY <1>1, <1>5 DEF SendInv
<1>8. ASSUME StreamInv PROVE StreamInv'
  <2> DEFINE T == Totals
             b == Bytes(begun, put + 1, put + n)
             c == stream \o b
  <2>1. b \in Seq(Wire) /\ Len(b) = n /\ \A i \in 1 .. n : b[i] = <<begun, put + i>>
    BY <1>2, <1>5, BytesFacts
  <2>2. /\ stream \in Seq(Wire) /\ \A i \in 1 .. Len(stream) : stream[i][1] \in 0 .. begun
        /\ Contiguous(T, stream, Writer)
        /\ Byte(stream, Writer, 1) = After(T, Reading, ReadSoFar)
    BY <1>8 DEF StreamInv
  <2>3. Writer = After(T, begun, put) /\ Writer' = After(T, begun, put + n)
    BY <1>2, <1>3, <1>5, <1>6 DEF Writer
  <2>4. Reading' = Reading /\ ReadSoFar' = ReadSoFar
    BY <1>2, <1>6 DEF Reading, ReadSoFar, Offset
  <2>5. stream' = c
    BY <1>3
  <2>6. T \in [0 .. Len(Messages) -> Nat] /\ T' = T /\ put + n <= T[begun]
    BY <1>3, <1>4, <1>6
  <2> HIDE DEF b, T
  <2>7. CASE n = 0
    <3>1. b = <<>>
      BY <2>1, <2>7, EmptySeq
    <3>2. c = stream
      BY <2>2, <3>1, ConcatEmptySeq
    <3>3. Writer' = Writer
      BY <1>2, <2>3, <2>7
    <3> QED
      BY <1>2, <1>6, <2>2, <2>4, <2>5, <3>2, <3>3 DEF StreamInv, T
  <2>8. CASE n > 0
    <3> DEFINE v == <<begun, put + 1>>
    <3>1. Writer = v
      <4> DEFINE t == T[begun]
      <4>1. t \in Nat /\ put + n <= t
        BY <1>2, <2>6
      <4>2. Writer = IF put = 0 \/ put < t THEN <<begun, put + 1>> ELSE <<begun + 1, 1>>
        BY <2>3 DEF After
      <4> HIDE DEF t
      <4>3. put < t
        BY <1>2, <2>8, <4>1
      <4> QED
        BY <4>2, <4>3
    <3>2. \A i \in 1 .. Len(stream) : stream[i][1] \in 0 .. Len(Messages)
      BY <1>4, <1>5, <2>2
    <3>3. Contiguous(T, stream, <<begun, put + 1>>)
      BY <2>2, <3>1
    <3>4. Contiguous(T, c, Writer')
      <4>1. begun \in 0 .. Len(Messages)
        BY <1>4, <1>5
      <4> QED
        BY <1>2, <1>4, <2>1, <2>2, <2>3, <2>6, <2>8, <3>2, <3>3, <4>1, Appended
    <3> DEFINE L == Len(stream)
    <3>5. /\ c \in Seq(Wire) /\ L \in Nat /\ Len(c) = L + n
          /\ \A i \in 1 .. (L + n) : c[i] = IF i <= L THEN stream[i] ELSE b[i - L]
      BY <2>1, <2>2, ConcatProperties, LenProperties
    <3> HIDE DEF c
    <3>6. ASSUME NEW i \in 1 .. Len(c) PROVE c[i][1] \in 0 .. begun
      <4>1. CASE i <= L
        BY <2>2, <3>5, <4>1
      <4>2. CASE ~(i <= L)
        <5>1. i - L \in 1 .. n
          BY <3>5, <4>2
        <5>2. c[i] = <<begun, put + (i - L)>>
          BY <2>1, <3>5, <4>2, <5>1
        <5>3. c[i][1] = begun
          BY <5>2
        <5> QED
          BY <1>5, <5>3
      <4> QED
        BY <4>1, <4>2
    <3>7. Byte(c, Writer', 1) = Byte(stream, Writer, 1)
      <4>1. 1 \in 1 .. (L + n) /\ 1 <= Len(c)
        BY <2>8, <3>5
      <4>2. Byte(c, Writer', 1) = c[1]
        BY <4>1 DEF Byte
      <4>3. CASE L = 0
        <5>1. c[1] = b[1] /\ 1 \in 1 .. n
          BY <2>8, <3>5, <4>1, <4>3
        <5>2. c[1] = v
          BY <2>1, <5>1
        <5> QED
          BY <3>1, <4>2, <4>3, <5>2 DEF Byte
      <4>4. CASE L > 0
        BY <3>5, <4>1, <4>2, <4>4 DEF Byte
      <4> QED
        BY <3>5, <4>3, <4>4
    <3>8. begun' = begun /\ T' = T /\ stream' = c
      BY <1>2, <2>5, <2>6
    <3> QED
      BY <2>2, <2>4, <3>4, <3>5, <3>6, <3>7, <3>8 DEF StreamInv, T
  <2> QED
    BY <2>7, <2>8
<1>9. ASSUME BufferInv PROVE BufferInv'
  <2>1. Reading' = Reading /\ ReadSoFar' = ReadSoFar /\ Offset' = Offset
    BY <1>2, <1>6 DEF Reading, ReadSoFar, Offset
  <2>2. Size(Reading)' = Size(Reading)
    BY <2>1 DEF Size
  <2> QED
    BY <1>2, <1>6, <1>9, <2>1, <2>2 DEF BufferInv
<1> QED
  BY <1>1, <1>2, <1>7, <1>8, <1>9 DEF RecvInv, HandshakeInv, Whole
-----------------------------------------------------------------------------
(* What one read takes from the stream: the next n bytes of the message    *)
(* that is being read.                                                     *)
ReadResult(n, buffer) ==
    /\ buffer = recv.buffer \o SubSeq(stream, 1, n)
    /\ stream' = SubSeq(stream, n + 1, Len(stream))
    /\ recv' = IF recv.step = "Header" THEN ReadHeader(buffer) ELSE ReadPayload(buffer)
    /\ delivered' = IF recv' = NoRecv THEN Append(delivered, Identify(buffer)) ELSE delivered

ReadsOn(n, buffer) ==
    /\ stream' \in Seq(Wire) /\ \A i \in 1 .. Len(stream') : stream'[i][1] \in 0 .. begun
    /\ Contiguous(Totals, stream', Writer)
    /\ Byte(stream', Writer, 1) = After(Totals, Reading, ReadSoFar + n)
    /\ buffer \in Seq(Wire) /\ Len(buffer) = Len(recv.buffer) + n
    /\ Len(buffer) <= recv.length
    /\ \A i \in 1 .. Len(buffer) : buffer[i] = <<Reading, Offset + i>>
    /\ ReadSoFar + n > 0 => Reading <= begun

(* The types of what the receiver has. *)
LEMMA ReadTypes ==
    ASSUME RecvInv, hello = "done", skew = 0, recv.step \in {"Header", "Payload"}
    PROVE  /\ transport \in Transports /\ Len(Messages) \in Nat /\ H \in Nat \ {0}
           /\ begun \in Nat /\ begun <= Len(Messages)
           /\ Reading \in Nat \ {0} /\ Len(delivered) \in Nat
           /\ recv.buffer \in Seq(Wire) /\ Len(recv.buffer) \in Nat /\ recv.length \in Nat
           /\ Len(recv.buffer) <= recv.length
           /\ Offset \in Nat /\ ReadSoFar = Offset + Len(recv.buffer) /\ ReadSoFar \in Nat
           /\ StreamInv /\ BufferInv
<1>1. transport \in Transports /\ begun \in 0 .. Len(Messages)
  BY DEF RecvInv, SendInv, TypeOK
<1>2. Len(Messages) \in Nat /\ H \in Nat \ {0}
  BY <1>1, TotalsFacts
<1>3. delivered \in Seq(Nat) /\ recv \in RecvType /\ StreamInv /\ BufferInv
  BY DEF RecvInv, Whole
<1>4. Len(delivered) \in Nat
  BY <1>3, LenProperties
<1>5. recv.buffer \in Seq(Wire) /\ recv.length \in Nat
  BY <1>3 DEF RecvType
<1>6. Len(recv.buffer) \in Nat
  BY <1>5, LenProperties
<1>7. Len(recv.buffer) <= recv.length
  BY <1>3 DEF BufferInv
<1>8. Offset \in Nat
  BY <1>2 DEF Offset
<1> QED
  BY <1>1, <1>2, <1>3, <1>4, <1>5, <1>6, <1>7, <1>8 DEF Reading, ReadSoFar

(* The receiver reads bytes of the message it is waiting for, no others. *)
LEMMA ReadIsNext ==
    ASSUME RecvInv, hello = "done", skew = 0, recv.step \in {"Header", "Payload"},
           NEW n \in 0 .. Least(recv.length - Len(recv.buffer), Len(stream)),
           NEW buffer, ReadResult(n, buffer)
    PROVE  n \in Nat /\ ReadsOn(n, buffer)
<1> DEFINE T == Totals
           m == Reading
           k == ReadSoFar
           w == Writer
           s == stream
           l == Len(recv.buffer)
<1>1. /\ transport \in Transports /\ H \in Nat \ {0} /\ begun \in Nat /\ begun <= Len(Messages)
      /\ m \in Nat \ {0} /\ Len(Messages) \in Nat
      /\ l \in Nat /\ recv.length \in Nat /\ l <= recv.length
      /\ Offset \in Nat /\ k = Offset + l /\ k \in Nat /\ recv.buffer \in Seq(Wire)
  BY ReadTypes
<1>2. /\ s \in Seq(Wire) /\ \A i \in 1 .. Len(s) : s[i][1] \in 0 .. begun
      /\ Contiguous(T, s, w) /\ Byte(s, w, 1) = After(T, m, k)
  BY ReadTypes DEF StreamInv
<1>3. /\ \A i \in 1 .. l : recv.buffer[i] = <<m, Offset + i>>
      /\ recv.step = "Header" => recv.length = H /\ Offset = 0
      /\ recv.step = "Payload" => recv.length = Size(m) /\ Offset = H
      /\ k > 0 => m <= begun
  BY ReadTypes DEF BufferInv, Offset
<1>4. Len(s) \in Nat
  BY <1>2, LenProperties
<1> HIDE DEF l, s, T, w, k, m
<1>5. n \in Nat /\ l + n <= recv.length /\ n <= Len(s) /\ n \in 0 .. Len(s)
  <2>1. n \in 0 .. Least(recv.length - l, Len(s))
    BY DEF l, s
  <2> QED
    BY <1>1, <1>4, <2>1 DEF Least
<1>6. k + n > 0 => m <= begun
  <2>1. CASE k > 0
    BY <1>3, <2>1
  <2>2. CASE k = 0 /\ n > 0
    <3>1. Byte(s, w, 1) = s[1] /\ 1 \in 1 .. Len(s)
      BY <1>4, <1>5, <2>2 DEF Byte
    <3>2. After(T, m, k) = <<m, 1>>
      BY <2>2 DEF After
    <3>3. s[1][1] = m
      BY <1>2, <3>1, <3>2
    <3> QED
      BY <1>1, <1>2, <3>1, <3>3
  <2> QED
    BY <1>1, <1>5, <2>1, <2>2
<1>7. n > 0 => T[m] \in Nat /\ k + n <= T[m]
  <2> SUFFICES ASSUME n > 0 PROVE T[m] \in Nat /\ k + n <= T[m]
    OBVIOUS
  <2>1. m \in 1 .. Len(Messages)
    BY <1>1, <1>5, <1>6
  <2>2. Size(m) \in Nat /\ T[m] = H + Size(m)
    BY <1>1, <2>1, TotalsFacts DEF T
  <2>3. k + n <= H + Size(m)
    BY <1>1, <1>3, <1>5, <2>2
  <2> QED
    BY <1>1, <2>2, <2>3
<1>8. /\ \A i \in 1 .. n : s[i] = <<m, k + i>>
      /\ Byte(s, w, n + 1) = After(T, m, k + n)
  <2>1. /\ s \in Seq(Wire) /\ m \in Nat /\ k \in Nat /\ n \in 0 .. Len(s)
        /\ n > 0 => T[m] \in Nat /\ k + n <= T[m]
        /\ Contiguous(T, s, w) /\ Byte(s, w, 1) = After(T, m, k)
    BY <1>1, <1>2, <1>5, <1>7
  <2> QED
    BY <2>1, Taken
<1> DEFINE r == SubSeq(s, n + 1, Len(s))
<1>9. /\ r \in Seq(Wire) /\ Len(r) = Len(s) - n
      /\ \A i \in 1 .. Len(r) : r[i] = s[n + i]
      /\ Byte(r, w, 1) = Byte(s, w, n + 1)
      /\ Contiguous(T, r, w)
  BY <1>2, <1>5, Dropped
<1>10. stream' = r
  BY DEF ReadResult, s
<1> HIDE DEF r
<1>11. ASSUME NEW i \in 1 .. Len(r) PROVE r[i][1] \in 0 .. begun
  <2>1. n + i \in 1 .. Len(s)
    BY <1>4, <1>5, <1>9
  <2> QED
    BY <1>2, <1>9, <2>1
<1> DEFINE g == SubSeq(s, 1, n)
<1>12. g \in Seq(Wire) /\ Len(g) = n /\ \A i \in 1 .. n : g[i] = s[i]
  <2>1. \A i \in 1 .. n : s[i] \in Wire
    BY <1>2, <1>4, <1>5, ElementOfSeq
  <2>2. /\ g \in Seq(Wire)
        /\ Len(g) = IF 1 <= n THEN n - 1 + 1 ELSE 0
        /\ \A i \in 1 .. (n - 1 + 1) : g[i] = s[1 + i - 1]
    BY <1>2, <1>4, <1>5, <2>1, SubSeqProperties
  <2> QED
    BY <1>5, <2>2
<1>13. buffer = recv.buffer \o g
  BY DEF ReadResult, s
<1> HIDE DEF g
<1>14. /\ buffer \in Seq(Wire) /\ Len(buffer) = l + n
       /\ \A i \in 1 .. (l + n) : buffer[i] = IF i <= l THEN recv.buffer[i] ELSE g[i - l]
  <2> DEFINE a == recv.buffer
  <2>1. a \in Seq(Wire) /\ Len(a) = l
    BY <1>1 DEF l
  <2> HIDE DEF a
  <2>2. /\ a \o g \in Seq(Wire) /\ Len(a \o g) = l + n
        /\ \A i \in 1 .. (l + n) : (a \o g)[i] = IF i <= l THEN a[i] ELSE g[i - l]
    BY <1>12, <2>1, ConcatProperties
  <2> QED
    BY <1>13, <2>2 DEF a
<1>15. ASSUME NEW i \in 1 .. (l + n) PROVE buffer[i] = <<m, Offset + i>>
  <2>1. CASE i <= l
    <3>1. i \in 1 .. l
      BY <1>1, <1>5, <2>1
    <3>2. buffer[i] = recv.buffer[i]
      BY <1>14, <2>1
    <3> QED
      BY <1>3, <3>1, <3>2
  <2>2. CASE ~(i <= l)
    <3>1. i - l \in 1 .. n /\ k + (i - l) = Offset + i
      BY <1>1, <1>5, <2>2
    <3>2. buffer[i] = <<m, k + (i - l)>>
      BY <1>8, <1>12, <1>14, <2>2, <3>1
    <3> QED
      BY <3>1, <3>2
  <2> QED
    BY <2>1, <2>2
<1> QED
  BY <1>5, <1>6, <1>8, <1>9, <1>10, <1>11, <1>14, <1>15 DEF ReadsOn, l, T, w, k, m

(* A transport header tells the length of its message. *)
LEMMA HeaderTellsLength ==
    ASSUME transport \in Transports, NEW m \in 1 .. Len(Messages), NEW buffer \in Seq(Wire),
           Len(buffer) = H, \A i \in 1 .. Len(buffer) : buffer[i] = <<m, i>>
    PROVE  ReadLength(buffer) = Size(m)
<1>1. H \in Nat \ {0} /\ Len(Messages) \in Nat /\ m > 0
  BY TotalsFacts
<1>2. ASSUME NEW i \in 1 .. H PROVE buffer[i][1] = m /\ buffer[i][2] = i
  BY <1>2
<1>3. Value(buffer[H]) = Size(m)
  <2>1. H \in 1 .. H /\ buffer[H][1] = m /\ buffer[H][2] = H
    BY <1>1, <1>2
  <2> QED
    BY <1>1, <2>1 DEF Value
<1>4. ASSUME NEW i \in (IF transport = "ipc" THEN 2 ELSE 1) .. (H - 1)
      PROVE  Value(buffer[i]) = 0
  <2>1. i \in 1 .. H /\ i < H /\ ~(transport = "ipc" /\ i = 1)
    BY <1>1
  <2>2. buffer[i][1] = m /\ buffer[i][2] = i
    BY <1>2, <2>1
  <2> QED
    BY <1>1, <2>1, <2>2 DEF Value
<1> QED
  BY <1>3, <1>4 DEF ReadLength

(* A payload is recognised as that of the message that is due. *)
LEMMA PayloadIsIdentified ==
    ASSUME transport \in Transports, hello = "done", Reading \in 1 .. Len(Messages),
           NEW buffer \in Seq(Wire), Len(buffer) = Size(Reading),
           \A i \in 1 .. Len(buffer) : buffer[i] = <<Reading, H + i>>
    PROVE  Identify(buffer) = Reading
<1> DEFINE m == Reading
           n == Size(m)
           p == Bytes(m, H + 1, H + n)
<1>1. /\ DOMAIN Messages = 1 .. Len(Messages) /\ H \in Nat \ {0} /\ n \in Nat /\ m \in Nat
  BY TotalsFacts
<1>2. p \in Seq(Wire) /\ Len(p) = n /\ \A i \in 1 .. n : p[i] = <<m, H + i>>
  BY <1>1, BytesFacts
<1>3. buffer = p
  <2> HIDE DEF p, n
  <2>1. Len(buffer) = n
    BY DEF n
  <2> QED
    BY <1>2, <2>1, SeqEqual
<1>4. p = Bytes(m, H + 1, Total(m))
  BY DEF Total
<1>5. m \in {q \in DOMAIN Messages : buffer = Bytes(q, H + 1, Total(q))}
  BY <1>1, <1>3, <1>4
<1> QED
  BY <1>5 DEF Identify, Reading

(* One read keeps the invariant, and returns at most one message, the one  *)
(* that is due.                                                            *)
LEMMA WholeRecvKeeps ==
    ASSUME RecvInv, AdvanceRecv, skew = 0
    PROVE  /\ RecvInv'
           /\ \/ delivered' = delivered
              \/ Len(delivered) < begun /\ delivered' = Append(delivered, Len(delivered) + 1)
<1>1. /\ recv.step \in {"Header", "Payload"}
      /\ UNCHANGED <<transport, hello, skew, begun, acked, send, put>>
  BY DEF AdvanceRecv
<1>2. hello = "done"
  BY <1>1 DEF RecvInv, HandshakeInv, NoRecv
<1>3. PICK n \in 0 .. Least(recv.length - Len(recv.buffer), Len(stream)) :
          ReadResult(n, recv.buffer \o SubSeq(stream, 1, n))
  BY DEF AdvanceRecv, ReadResult
<1> DEFINE buffer == recv.buffer \o SubSeq(stream, 1, n)
           m      == Reading
           l      == Len(recv.buffer)
<1>4. n \in Nat /\ ReadsOn(n, buffer) /\ ReadResult(n, buffer)
  BY <1>1, <1>2, <1>3, ReadIsNext
<1>5. /\ transport \in Transports /\ H \in Nat \ {0} /\ begun \in Nat /\ begun <= Len(Messages)
      /\ m \in Nat \ {0} /\ Len(Messages) \in Nat /\ Len(delivered) \in Nat
      /\ l \in Nat /\ recv.length \in Nat /\ l <= recv.length
      /\ Offset \in Nat /\ ReadSoFar = Offset + l /\ ReadSoFar \in Nat
      /\ BufferInv
  BY <1>1, <1>2, ReadTypes
<1>6. recv \in RecvType /\ delivered \in Seq(Nat)
  BY <1>2 DEF RecvInv, Whole
<1> HIDE DEF buffer, l
<1>7. Totals' = Totals /\ H' = H
  BY <1>1, SizesStay
<1>8. Writer' = Writer
  BY <1>1, <1>7 DEF Writer
<1>9. SendInv' /\ HandshakeInv'
  BY <1>1, <1>2, NextSend DEF RecvInv, HandshakeInv, Next
<1>10. ASSUME delivered' \in Seq(Nat), recv' \in RecvType,
              recv'.step # "Error" => BufferInv',
              recv'.step # "Error" =>
                  After(Totals, Reading', ReadSoFar') = After(Totals, m, ReadSoFar + n)
       PROVE  RecvInv'
  <2>1. recv'.step # "Error" => StreamInv'
    BY <1>1, <1>4, <1>7, <1>8, <1>10 DEF StreamInv, ReadsOn
  <2> QED
    BY <1>9, <1>10, <2>1 DEF RecvInv
<1>11. /\ buffer \in Seq(Wire) /\ Len(buffer) = l + n /\ Len(buffer) <= recv.length
       /\ \A i \in 1 .. Len(buffer) : buffer[i] = <<m, Offset + i>>
       /\ ReadSoFar + n > 0 => m <= begun
       /\ ReadSoFar + n = Offset + Len(buffer) /\ Len(buffer) \in Nat
  <2>1. /\ buffer \in Seq(Wire) /\ Len(buffer) = l + n /\ Len(buffer) <= recv.length
        /\ \A i \in 1 .. Len(buffer) : buffer[i] = <<m, Offset + i>>
        /\ ReadSoFar + n > 0 => m <= begun
    BY <1>4, Zenon DEF ReadsOn, l
  <2>2. ReadSoFar + n = Offset + (l + n) /\ l + n \in Nat
    BY <1>4, <1>5
  <2> QED
    BY <2>1, <2>2
<1>12. delivered' = IF recv' = NoRecv THEN Append(delivered, Identify(buffer)) ELSE delivered
  BY <1>4 DEF ReadResult
(* The operation goes on with its step. *)
<1>13. ASSUME recv' = [recv EXCEPT !.buffer = buffer, !.running = FALSE]
       PROVE  RecvInv' /\ delivered' = delivered
  <2>1. /\ recv' \in RecvType /\ recv'.step = recv.step /\ recv'.buffer = buffer
        /\ recv'.length = recv.length
    BY <1>6, <1>11, <1>13 DEF RecvType
  <2>2. recv' # NoRecv
    BY <1>1, <2>1 DEF NoRecv
  <2>3. delivered' = delivered
    BY <1>12, <2>2
  <2>4. Reading' = m /\ Offset' = Offset /\ ReadSoFar' = ReadSoFar + n
    BY <1>1, <1>7, <1>11, <2>1, <2>3 DEF Reading, Offset, ReadSoFar
  <2>5. Size(Reading)' = Size(m)
    BY <2>4 DEF Size
  <2>6. /\ recv.step = "Header" => recv.length = H
        /\ recv.step = "Payload" => recv.length = Size(m)
    BY <1>5 DEF BufferInv
  <2>7. BufferInv'
    BY <1>1, <1>7, <1>11, <2>1, <2>4, <2>5, <2>6 DEF BufferInv
  <2> QED
    BY <1>6, <1>10, <2>1, <2>3, <2>4, <2>7
<1>14. CASE recv.step = "Header"
  <2>1. recv' = ReadHeader(buffer)
    BY <1>4, <1>14 DEF ReadResult
  <2>2. Offset = 0 /\ recv.length = H
    BY <1>5, <1>14 DEF Offset, BufferInv
  <2>3. CASE Len(buffer) < H
    BY <1>13, <2>1, <2>3 DEF ReadHeader
  <2>4. CASE ~(Len(buffer) < H)
    <3>1. Len(buffer) = H /\ ReadSoFar + n = H /\ \A i \in 1 .. Len(buffer) : buffer[i] = <<m, i>>
      BY <1>5, <1>11, <2>2, <2>4
    <3>2. m <= begun /\ m \in 1 .. Len(Messages)
      BY <1>5, <1>11, <3>1
    <3>3. ReadLength(buffer) = Size(m) /\ Size(m) \in Nat
      BY <1>5, <1>11, <3>1, <3>2, HeaderTellsLength, TotalsFacts
    <3>4. CASE MaxSize > 0 /\ ReadLength(buffer) > MaxSize
      <4>1. recv' = [recv EXCEPT !.step = "Error", !.running = FALSE]
        BY <2>1, <2>4, <3>4 DEF ReadHeader
      <4>2. recv' \in RecvType /\ recv'.step = "Error" /\ recv' # NoRecv
        BY <1>6, <4>1 DEF RecvType, NoRecv
      <4> QED
        BY <1>6, <1>10, <1>12, <4>2
    <3>5. CASE ~(MaxSize > 0 /\ ReadLength(buffer) > MaxSize)
      <4>1. recv' = [step |-> "Payload", buffer |-> <<>>, length |-> Size(m), running |-> TRUE]
        BY <2>1, <2>4, <3>3, <3>5 DEF ReadHeader
      <4>2. recv' \in RecvType /\ recv' # NoRecv
        BY <3>3, <4>1 DEF RecvType, NoRecv
      <4>3. delivered' = delivered
        BY <1>12, <4>2
      <4>4. Reading' = m /\ Offset' = H /\ ReadSoFar' = H
        BY <1>1, <1>5, <1>7, <4>1, <4>3 DEF Reading, Offset, ReadSoFar
      <4>5. Size(Reading)' = Size(m)
        BY <4>4 DEF Size
      <4>6. BufferInv'
        BY <1>1, <3>2, <3>3, <4>1, <4>4, <4>5 DEF BufferInv
      <4> QED
        BY <1>6, <1>10, <3>1, <4>2, <4>3, <4>4, <4>6
    <3> QED
      BY <3>4, <3>5
  <2> QED
    BY <2>3, <2>4
<1>15. CASE recv.step = "Payload"
  <2>1. recv' = ReadPayload(buffer)
    BY <1>4, <1>15 DEF ReadResult
  <2>2. Offset = H /\ recv.length = Size(m)
    BY <1>5, <1>15 DEF Offset, BufferInv
  <2>3. CASE Len(buffer) # recv.length
    BY <1>13, <2>1, <2>3 DEF ReadPayload
  <2>4. CASE Len(buffer) = recv.length
    <3>1. recv' = NoRecv
      BY <2>1, <2>4 DEF ReadPayload
    <3>2. m <= begun /\ m \in 1 .. Len(Messages) /\ ReadSoFar + n = H + Size(m)
      <4>1. ReadSoFar + n = H + Size(m) /\ Size(m) \in Nat
        BY <1>5, <1>11, <2>2, <2>4
      <4>2. ReadSoFar + n > 0
        BY <1>5, <4>1
      <4>3. m <= begun
        BY <1>11, <4>2
      <4> QED BY <1>5, <4>1, <4>3
    <3>3. Identify(buffer) = m
      BY <1>2, <1>5, <1>11, <2>2, <2>4, <3>2, PayloadIsIdentified
    <3>4. delivered' = Append(delivered, m)
      BY <1>12, <3>1, <3>3
    <3>5. delivered' \in Seq(Nat) /\ Len(delivered') = m
      BY <1>2, <1>5, <1>6, <3>4, AppendProperties DEF Reading
    <3>6. Len(recv'.buffer) = 0 /\ recv'.step = "None" /\ recv'.buffer = <<>> /\ recv' \in RecvType
      BY <3>1 DEF NoRecv, RecvType
    <3>7. Reading' = m + 1 /\ Offset' = 0 /\ ReadSoFar' = 0
      BY <1>1, <1>2, <3>5, <3>6 DEF Reading, Offset, ReadSoFar
    <3>8. BufferInv'
      BY <3>6, <3>7 DEF BufferInv
    <3>9. After(Totals, m + 1, 0) = <<m + 1, 1>>
      BY DEF After
    <3>10. After(Totals, m, H + Size(m)) = <<m + 1, 1>>
      <4>1. Size(m) \in Nat /\ Totals[m] = H + Size(m)
        BY <1>5, <3>2, TotalsFacts
      <4>2. H + Size(m) # 0 /\ ~(H + Size(m) < Totals[m])
        BY <1>5, <4>1
      <4> QED
        BY <4>2 DEF After
    <3>11. RecvInv'
      BY <1>10, <3>2, <3>5, <3>6, <3>7, <3>8, <3>9, <3>10
    <3>12. Len(delivered) < begun /\ m = Len(delivered) + 1
      BY <1>2, <1>5, <3>2 DEF Reading
    <3> QED
      BY <3>4, <3>11, <3>12
  <2> QED
    BY <2>3, <2>4
<1> QED
  BY <1>1, <1>14, <1>15

(* On a connection that is not whole whatever is read is delivered. *)
LEMMA SkewedRecvKeeps ==
    ASSUME RecvInv, AdvanceRecv, skew # 0
    PROVE  /\ RecvInv'
           /\ delivered' = delivered \/ Len(delivered') = Len(delivered) + 1
<1>1. UNCHANGED <<transport, hello, skew, begun, acked, send, put>>
  BY DEF AdvanceRecv
<1>2. PICK buffer : delivered' = IF recv' = NoRecv THEN Append(delivered, Identify(buffer))
                                 ELSE delivered
  BY DEF AdvanceRecv
<1>3. Identify(buffer) \in Nat
  <2> DEFINE ms == {m \in DOMAIN Messages : buffer = Bytes(m, H + 1, Total(m))}
             n  == Len(delivered) + 1
  <2>1. Identify(buffer) = IF n \in ms THEN n ELSE IF ms = {} THEN 0 ELSE CHOOSE m \in ms : TRUE
    BY DEF Identify
  <2>2. \A m \in ms : m \in Nat
    BY MessagesAssumption, LenProperties
  <2> HIDE DEF ms, n
  <2> QED
    BY <2>1, <2>2
<1>4. delivered \in Seq(Nat)
  BY DEF RecvInv
<1>5. delivered' \in Seq(Nat) /\ (delivered' = delivered \/ Len(delivered') = Len(delivered) + 1)
  BY <1>2, <1>3, <1>4, AppendProperties
<1>6. SendInv'
  BY NextSend DEF RecvInv, Next
<1>7. HandshakeInv' /\ ~Whole'
  BY <1>1 DEF RecvInv, HandshakeInv, Whole
<1> QED
  BY <1>5, <1>6, <1>7 DEF RecvInv

(* Every step keeps the invariant. *)
LEMMA NextRecv == RecvInv /\ [Next]_vars => RecvInv'
  BY SendHandshakeKeeps, RecvHandshakeKeeps, StartSendKeeps, ResumeKeeps, AdvanceSendKeeps,
     StartRecvKeeps, WholeRecvKeeps, SkewedRecvKeeps DEF Next

(* RecvOperation against SendOperation: whatever is sent and however the   *)
(* kernel cuts the stream, the receiver returns the messages that were     *)
(* sent, whole, once and in order.  The one exception is a connection that *)
(* recv_and_check_handshake accepted on a short read, which leaves bytes   *)
(* of the handshake in front of the first message.                         *)
THEOREM FramingImplementsChannel == Spec => ImplementsChannel
<1> DEFINE avars == <<begun, delivered, skew = 0>>
           ANext == \/ Abstract!Begin \/ Abstract!Deliver
                    \/ Abstract!Break \/ Abstract!DeliverAnything
<1>1. Init => Abstract!Init
  BY DEF Init, Abstract!Init
<1>2. RecvInv /\ [Next]_vars => [ANext]_avars
  <2> SUFFICES ASSUME RecvInv, [Next]_vars PROVE [ANext]_avars
    OBVIOUS
  <2>1. CASE StartSend
    BY <2>1 DEF StartSend, Abstract!Begin
  <2>2. CASE AdvanceRecv
    <3>1. begun' = begun /\ skew' = skew
      BY <2>2 DEF AdvanceRecv
    <3>2. CASE skew = 0
      BY <2>2, <3>1, <3>2, WholeRecvKeeps DEF Abstract!Deliver
    <3>3. CASE skew # 0
      BY <2>2, <3>1, <3>3, SkewedRecvKeeps DEF Abstract!DeliverAnything
    <3> QED
      BY <3>2, <3>3
  <2>3. CASE RecvHandshake
    <3>1. UNCHANGED <<begun, delivered>> /\ delivered = <<>> /\ skew = 0
      BY <2>3 DEF RecvHandshake, RecvInv, HandshakeInv
    <3> QED
      BY <3>1 DEF Abstract!Break
  <2>4. CASE \/ SendHandshake \/ ResumeSend \/ AdvanceSend
             \/ StartRecv \/ ResumeRecv \/ UNCHANGED vars
    BY <2>4 DEF SendHandshake, ResumeSend, AdvanceSend, StartRecv, ResumeRecv, vars
  <2> QED
    BY <2>1, <2>2, <2>3, <2>4 DEF Next
<1> QED
  BY <1>1, <1>2, InitRecv, NextRecv, PTL DEF Spec, ImplementsChannel, Abstract!Spec
=============================================================================
