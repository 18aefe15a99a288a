--------------------------- MODULE FramingProofs ---------------------------
(***************************************************************************)
(* For every sequence of messages, every header size and every way the     *)
(* kernel may cut a write: a SendOperation always knows exactly how much   *)
(* of its message has left.  TypeOK and SendPositionIsExact together are   *)
(* inductive; the receiver does not touch what they speak about.           *)
(***************************************************************************)
EXTENDS Framing, SequenceTheorems, TLAPS

(* The lengths of a message that has been begun are natural numbers. *)
LEMMA LengthsAreNat ==
    ASSUME NEW m \in 1 .. Len(Messages)
    PROVE  Messages[m].header \in Nat /\ Messages[m].body \in Nat
<1>1. Messages[m] \in [header : Nat, body : Nat]
  BY MessagesAssumption, ElementOfSeq
<1> QED
  BY <1>1

(* The size of the transport header is a positive number. *)
LEMMA HeaderSizeIsPositive ==
    ASSUME transport \in Transports
    PROVE  H \in Nat \ {0}
  BY SizeAssumption DEF H

(* Where the steps of a message start and end. *)
LEMMA Positions ==
    ASSUME NEW m, Messages[m].header \in Nat, Messages[m].body \in Nat, H \in Nat
    PROVE  /\ Start(m, "TransportHdr") = 0
           /\ Start(m, "ProtocolHdr") = H /\ End(m, "TransportHdr") = H
           /\ Start(m, "UsrPayload") = H + Messages[m].header
           /\ End(m, "ProtocolHdr") = H + Messages[m].header
           /\ End(m, "UsrPayload") = H + Messages[m].header + Messages[m].body
           /\ Total(m) = H + Messages[m].header + Messages[m].body
  BY DEF Start, End, Total, Size

SendInv == TypeOK /\ SendPositionIsExact /\ (hello = "tx" => begun = 0)

(* The initial states satisfy the invariant. *)
LEMMA InitSend == Init => SendInv
<1> SUFFICES ASSUME Init PROVE SendInv
  OBVIOUS
<1>1. Len(Messages) \in Nat
  BY MessagesAssumption
<1> QED
  BY <1>1 DEF Init, SendInv, TypeOK, SendPositionIsExact, SendType, NoSend, HandshakeSize

(* What one write leaves behind, by transport and step: the position of    *)
(* the operation advances by the n bytes the kernel took, or the message   *)
(* has left entirely.                                                      *)
Advanced(m, s, put2) ==
    /\ s \in SendType
    /\ s.step # "None" => put2 = Start(m, s.step) + s.written /\ put2 <= Total(m)
    /\ s.step = "None" => s = NoSend /\ put2 = Total(m)

(* A vectored write of TCP, cut wherever the kernel cuts it. *)
LEMMA TcpAdvances ==
    ASSUME transport \in Transports, NEW m \in 1 .. Len(Messages), NEW w \in Nat,
           send.step \in {"TransportHdr", "ProtocolHdr", "UsrPayload"},
           Start(m, send.step) + w <= Total(m)
    PROVE  Advanced(m, TcpAdvance(m, w), Start(m, send.step) + w)
<1> DEFINE h == Messages[m].header
           b == Messages[m].body
<1>1. h \in Nat /\ b \in Nat /\ H \in Nat \ {0}
  BY LengthsAreNat, HeaderSizeIsPositive
<1>2. Total(m) = H + h + b
  BY <1>1 DEF Total, Size
<1> HIDE DEF h, b
<1>3. CASE send.step = "TransportHdr"
  <2>1. Start(m, send.step) = 0
    BY <1>3 DEF Start
  <2>2. TcpAdvance(m, w) = TcpTransportHdr(m, w)
    BY <1>3 DEF TcpAdvance
  <2>3. w <= H + h + b
    BY <2>1, <1>2
  <2>4. Advanced(m, TcpTransportHdr(m, w), w)
    <3>1. CASE w < H
      BY <1>1, <1>2, <2>3, <3>1 DEF Advanced, TcpTransportHdr, At, SendType, Start, h, b
    <3>2. CASE ~(w < H) /\ w < H + h
      BY <1>1, <1>2, <2>3, <3>2 DEF Advanced, TcpTransportHdr, At, SendType, Start, h, b
    <3>3. CASE ~(w < H) /\ ~(w < H + h) /\ w < H + h + b
      <4>1. TcpTransportHdr(m, w) = At("UsrPayload", w - (H + h), FALSE)
        BY <1>1, <3>3 DEF TcpTransportHdr, h, b
      <4>2. Start(m, "UsrPayload") = H + h
        BY <1>1, Positions DEF h, b
      <4>3. w - (H + h) \in Nat /\ w = H + h + (w - (H + h))
        BY <1>1, <3>3
      <4> QED
        BY <1>2, <2>3, <4>1, <4>2, <4>3 DEF Advanced, At, SendType
    <3>4. CASE ~(w < H) /\ ~(w < H + h) /\ ~(w < H + h + b)
      BY <1>1, <1>2, <2>3, <3>4 DEF Advanced, TcpTransportHdr, NoSend, SendType, h, b
    <3> QED
      BY <3>1, <3>2, <3>3, <3>4
  <2> QED
    BY <2>1, <2>2, <2>4
<1>4. CASE send.step = "ProtocolHdr"
  <2>1. Start(m, send.step) = H
    BY <1>4 DEF Start
  <2>2. TcpAdvance(m, w) = TcpProtocolHdr(m, w)
    BY <1>4 DEF TcpAdvance
  <2>3. H + w <= H + h + b
    BY <2>1, <1>2
  <2>4. Advanced(m, TcpProtocolHdr(m, w), H + w)
    <3>1. CASE w < h
      BY <1>1, <1>2, <2>3, <3>1 DEF Advanced, TcpProtocolHdr, At, SendType, Start, h, b
    <3>2. CASE ~(w < h) /\ w < h + b
      BY <1>1, <1>2, <2>3, <3>2 DEF Advanced, TcpProtocolHdr, At, SendType, Start, h, b
    <3>3. CASE ~(w < h) /\ ~(w < h + b)
      BY <1>1, <1>2, <2>3, <3>3 DEF Advanced, TcpProtocolHdr, NoSend, SendType, h, b
    <3> QED
      BY <3>1, <3>2, <3>3
  <2> QED
    BY <2>1, <2>2, <2>4
<1>5. CASE send.step = "UsrPayload"
  <2>1. Start(m, send.step) = H + h
    BY <1>5 DEF Start, h
  <2>2. TcpAdvance(m, w) = TcpUsrPayload(m, w)
    BY <1>5 DEF TcpAdvance
  <2>3. H + h + w <= H + h + b
    BY <2>1, <1>2
  <2>4. Advanced(m, TcpUsrPayload(m, w), H + h + w)
    BY <1>1, <1>2, <2>3 DEF Advanced, TcpUsrPayload, At, NoSend, SendType, Start, h, b
  <2> QED
    BY <2>1, <2>2, <2>4
<1> QED
  BY <1>3, <1>4, <1>5

(* A write of one buffer of IPC. *)
LEMMA IpcAdvances ==
    ASSUME transport \in Transports, NEW m \in 1 .. Len(Messages), NEW w \in Nat,
           send.step \in {"TransportHdr", "ProtocolHdr", "UsrPayload"},
           Start(m, send.step) + w <= End(m, send.step)
    PROVE  Advanced(m, IpcAdvance(m, w), Start(m, send.step) + w)
<1> DEFINE h == Messages[m].header
           b == Messages[m].body
<1>1. h \in Nat /\ b \in Nat /\ H \in Nat \ {0}
  BY LengthsAreNat, HeaderSizeIsPositive
<1>2. Total(m) = H + h + b
  BY <1>1 DEF Total, Size
<1> HIDE DEF h, b
<1>3. CASE send.step = "TransportHdr"
  <2>1. Start(m, send.step) = 0 /\ End(m, send.step) = H
    BY <1>3 DEF Start, End
  <2>2. IpcAdvance(m, w) = IpcTransportHdr(m, w)
    BY <1>3 DEF IpcAdvance
  <2>3. Advanced(m, IpcTransportHdr(m, w), w)
    BY <1>1, <1>2, <2>1 DEF Advanced, IpcTransportHdr, At, NoSend, SendType, Start, h, b
  <2> QED
    BY <2>1, <2>2, <2>3
<1>4. CASE send.step = "ProtocolHdr"
  <2>1. Start(m, send.step) = H /\ End(m, send.step) = H + h
    BY <1>4 DEF Start, End, h
  <2>2. IpcAdvance(m, w) = IpcProtocolHdr(m, w)
    BY <1>4 DEF IpcAdvance
  <2>3. Advanced(m, IpcProtocolHdr(m, w), H + w)
    BY <1>1, <1>2, <2>1 DEF Advanced, IpcProtocolHdr, At, NoSend, SendType, Start, h, b
  <2> QED
    BY <2>1, <2>2, <2>3
<1>5. CASE send.step = "UsrPayload"
  <2>1. Start(m, send.step) = H + h /\ End(m, send.step) = H + h + b
    BY <1>5 DEF Start, End, h, b
  <2>2. IpcAdvance(m, w) = IpcUsrPayload(m, w)
    BY <1>5 DEF IpcAdvance
  <2>3. Advanced(m, IpcUsrPayload(m, w), H + h + w)
    BY <1>1, <1>2, <2>1 DEF Advanced, IpcUsrPayload, At, NoSend, SendType, Start, h, b
  <2> QED
    BY <2>1, <2>2, <2>3
<1> QED
  BY <1>3, <1>4, <1>5

(* Where n more bytes lead from k bytes after the start s, if l is not passed. *)
LEMMA MoreBytes ==
    ASSUME NEW s \in Nat, NEW k \in Nat, NEW n \in Nat, NEW l \in Nat, n <= l - (s + k)
    PROVE  k + n \in Nat /\ s + (k + n) = (s + k) + n /\ s + (k + n) <= l
OBVIOUS

(* One write preserves the invariant, whatever the transport. *)
LEMMA WritePreserves ==
    ASSUME SendInv, AdvanceSend
    PROVE  SendInv'
<1> DEFINE m     == begun
           from  == Start(m, send.step) + send.written
           limit == IF transport = "tcp" THEN Total(m) ELSE End(m, send.step)
<1>1. /\ transport \in Transports /\ m \in 1 .. Len(Messages) /\ send \in SendType
      /\ send.step \in {"TransportHdr", "ProtocolHdr", "UsrPayload"}
      /\ send.written \in Nat /\ put = from /\ acked + 1 = begun /\ acked \in Nat
  BY MessagesAssumption DEF SendInv, TypeOK, SendPositionIsExact, AdvanceSend, SendType
<1>2. Messages[m].header \in Nat /\ Messages[m].body \in Nat /\ H \in Nat \ {0}
  BY <1>1, LengthsAreNat, HeaderSizeIsPositive
<1>3. Start(m, send.step) \in Nat /\ Total(m) \in Nat /\ End(m, send.step) \in Nat
  BY <1>1, <1>2, Positions
<1>4. PICK n \in 0 .. (limit - from) :
          /\ put' = put + n
          /\ send' = IF transport = "tcp" THEN TcpAdvance(m, send.written + n)
                     ELSE IpcAdvance(m, send.written + n)
  BY DEF AdvanceSend
<1>5. n \in Nat /\ n <= limit - from
  <2>1. limit - from \in Int
    BY <1>1, <1>3
  <2> HIDE DEF limit, from
  <2> QED
    BY <1>4, <2>1
<1> DEFINE w == send.written + n
<1>6. w \in Nat /\ Start(m, send.step) + w = put + n /\ Start(m, send.step) + w <= limit
  <2> DEFINE s == Start(m, send.step)
  <2>1. s \in Nat /\ limit \in Nat /\ from = s + send.written /\ put = s + send.written
    BY <1>1, <1>3
  <2>2. n <= limit - (s + send.written)
    BY <1>5
  <2> HIDE DEF s, limit
  <2>3. w \in Nat /\ s + w = (s + send.written) + n /\ s + w <= limit
    BY <1>1, <1>5, <2>1, <2>2, MoreBytes
  <2> QED
    BY <2>1, <2>3 DEF s
<1> HIDE DEF w
<1>7. Advanced(m, send', put')
  <2>1. CASE transport = "tcp"
    BY <1>1, <1>4, <1>6, <2>1, TcpAdvances DEF w
  <2>2. CASE transport # "tcp"
    BY <1>1, <1>4, <1>6, <2>2, IpcAdvances DEF w
  <2> QED
    BY <2>1, <2>2
<1>8. /\ UNCHANGED <<transport, hello, skew, begun>>
      /\ acked' = IF send' = NoSend THEN acked + 1 ELSE acked
  BY DEF AdvanceSend
<1>9. put' \in Nat
  BY <1>1, <1>3, <1>4, <1>5
<1>10. TypeOK'
  BY <1>1, <1>7, <1>8, <1>9 DEF SendInv, TypeOK, Advanced
<1>11. \A step : Start(m, step)' = Start(m, step)
  BY <1>8 DEF Start, H
<1>12. Total(m)' = Total(m)
  BY <1>8 DEF Total, Size, H
<1>13. SendPositionIsExact'
  <2>1. CASE send'.step = "None"
    BY <1>1, <1>7, <1>8, <1>12, <2>1 DEF SendPositionIsExact, Advanced
  <2>2. CASE send'.step # "None"
    <3>1. send' # NoSend
      BY <2>2 DEF NoSend
    <3> QED
      BY <1>1, <1>7, <1>8, <1>11, <1>12, <2>2, <3>1 DEF SendPositionIsExact, Advanced
  <2> QED
    BY <2>1, <2>2
<1> QED
  BY <1>8, <1>10, <1>13 DEF SendInv

(* Every step preserves the invariant. *)
LEMMA NextSend == SendInv /\ [Next]_vars => SendInv'
<1> SUFFICES ASSUME SendInv, [Next]_vars PROVE SendInv'
  OBVIOUS
<1>1. CASE StartSend
  <2>1. Len(Messages) \in Nat
    BY MessagesAssumption
  <2>2. /\ begun' = begun + 1 /\ put' = 0 /\ acked' = acked /\ transport' = transport
        /\ send' = [step |-> "TransportHdr", written |-> 0, running |-> TRUE]
        /\ send.step = "None" /\ acked = begun /\ begun \in 0 .. (Len(Messages) - 1)
        /\ hello' = hello /\ skew' = skew /\ hello # "tx"
    BY <1>1, <2>1 DEF StartSend, SendInv, TypeOK, SendPositionIsExact
  <2>3. begun' \in 1 .. Len(Messages)
    BY <2>1, <2>2
  <2>4. Messages[begun'].header \in Nat /\ Messages[begun'].body \in Nat
    BY <2>3, LengthsAreNat
  <2>5. H' \in Nat
    BY <2>2, SizeAssumption DEF H, SendInv, TypeOK
  <2>6. TypeOK'
    BY <2>1, <2>2, <2>3 DEF SendInv, TypeOK, SendType
  <2>7. SendPositionIsExact'
    <3>1. Start(begun, "TransportHdr")' = 0
      BY DEF Start
    <3>2. Total(begun)' \in Nat
      BY <2>4, <2>5 DEF Total, Size
    <3> QED
      BY <2>2, <3>1, <3>2 DEF SendPositionIsExact, SendInv, TypeOK
  <2> QED
    BY <2>2, <2>6, <2>7 DEF SendInv
<1>2. CASE ResumeSend
  <2>1. /\ UNCHANGED <<transport, hello, skew, begun, acked, put>>
        /\ send' \in SendType /\ send'.step = send.step /\ send'.written = send.written
    BY <1>2 DEF ResumeSend, SendInv, TypeOK, SendType
  <2> QED
    BY <2>1 DEF SendInv, TypeOK, SendPositionIsExact, Start, Total, H
<1>3. CASE AdvanceSend
  BY <1>3, WritePreserves
<1>4. CASE SendHandshake
  <2>1. /\ UNCHANGED <<transport, skew, begun, acked, send>> /\ begun = 0
        /\ hello' \in {"rx", "failed"} /\ (hello' = "rx" => put' = HandshakeSize)
        /\ put' \in Nat
    BY <1>4 DEF SendHandshake, SendInv
  <2>2. send.step = "None" /\ acked = 0
    BY <2>1 DEF SendInv, TypeOK, SendPositionIsExact
  <2>3. TypeOK'
    BY <2>1 DEF SendInv, TypeOK
  <2>4. SendPositionIsExact'
    BY <2>1, <2>2 DEF SendPositionIsExact
  <2> QED
    BY <2>1, <2>3, <2>4 DEF SendInv
<1>5. CASE RecvHandshake
  <2>1. /\ UNCHANGED <<transport, begun, acked, send, put>> /\ hello = "rx"
        /\ hello' \in {"done", "failed"} /\ skew' \in 0 .. HandshakeSize
    <3>1. PICK n \in 0 .. Least(HandshakeSize, Len(stream)) :
              /\ hello' = IF check_handshake(n) THEN "done" ELSE "failed"
              /\ skew' = IF check_handshake(n) THEN HandshakeSize - n ELSE 0
      BY <1>5 DEF RecvHandshake
    <3>2. n \in 0 .. HandshakeSize
      BY <3>1 DEF Least, HandshakeSize
    <3>3. HandshakeSize - n \in 0 .. HandshakeSize /\ 0 \in 0 .. HandshakeSize
      BY <3>2 DEF HandshakeSize
    <3>4. UNCHANGED <<transport, begun, acked, send, put>> /\ hello = "rx"
      BY <1>5 DEF RecvHandshake
    <3> QED
      BY <3>1, <3>3, <3>4
  <2> QED
    BY <2>1 DEF SendInv, TypeOK, SendPositionIsExact, Start, Total, H
<1>6. CASE StartRecv \/ ResumeRecv \/ AdvanceRecv \/ UNCHANGED vars
  <2>1. UNCHANGED <<transport, hello, skew, begun, acked, send, put>>
    BY <1>6 DEF StartRecv, ResumeRecv, AdvanceRecv, vars
  <2> QED
    BY <2>1 DEF SendInv, TypeOK, SendPositionIsExact, Start, Total, H
<1> QED
  BY <1>1, <1>2, <1>3, <1>4, <1>5, <1>6 DEF Next

(* SendOperation of both transports: wherever a write was cut short, its   *)
(* step and count say exactly how much of the message has left, and an     *)
(* acknowledged message has left entirely.                                 *)
THEOREM SendIsExact == Spec => []SendPositionIsExact
<1>1. Init => SendInv
  BY InitSend
<1>2. SendInv /\ [Next]_vars => SendInv'
  BY NextSend
<1>3. SendInv => SendPositionIsExact
  BY DEF SendInv
<1> QED
  BY <1>1, <1>2, <1>3, PTL DEF Spec

(* The state of a connection keeps its types, and a send in progress       *)
(* always has a message.                                                   *)
THEOREM FramingTypes == Spec => []TypeOK
<1>1. SendInv => TypeOK
  BY DEF SendInv
<1> QED
  BY <1>1, InitSend, NextSend, PTL DEF Spec
=============================================================================
